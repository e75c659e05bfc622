------------------------------ MODULE Ingestion ------------------------------
(***************************************************************************)
(* The ingestion library (packages/ingestion): from the bytes of a book to *)
(* numbered chapters, sections and paragraphs, and the quality report that *)
(* decides whether the version is READY.  The parsers are operators on an  *)
(* abstract file: a PDF is a sequence of pages, an EPUB a sequence of      *)
(* spine items, an image set a sequence of frames.                         *)
(*                                                                         *)
(* A text is a sequence of fragments.  A fragment is a word w together     *)
(* with `at`, the place of the file it was read from, so that a result can *)
(* be compared with its source; `glued` says that its trailing hyphen was  *)
(* removed and the next fragment completes the word.  Lengths are counted  *)
(* in fragments.                                                           *)
(***************************************************************************)
EXTENDS Integers, FiniteSets, SequencesExt, Lists

CONSTANTS
    Numbers,        \* words that read as a page number or a roman numeral
    ChapterWords,   \* words that open a heading such as "chapter one"
    FrontTitles,    \* "preface", "contents", ...
    BackTitles,     \* "appendix", "glossary", ...
    LogueTitles,    \* "prologue", "epilogue"
    Commas,         \* words ending in a comma
    Hyphenated,     \* words ending in a lowercase letter and a hyphen
    Lowercase       \* words starting with a lowercase letter

MaxKey == 4         \* 120 characters: no longer line is a header or a heading
MinDuplicate == 2   \* 40 characters: shorter paragraphs may repeat
MaxPages == 3       \* maxPages, maxImagePages
MaxEntries == 4     \* maxEpubEntryCount
MaxEntrySize == 2   \* maxEpubEntryUncompressedBytes
MaxArchive == 6     \* maxEpubUncompressedBytes

Lowest(values, otherwise) ==
    IF values = {} THEN otherwise ELSE CHOOSE v \in values : \A w \in values : v <= w

Highest(values, otherwise) ==
    IF values = {} THEN otherwise ELSE CHOOSE v \in values : \A w \in values : v >= w

----------------------------------------------------------------------------
(* Text *)

\* Spacing and case are gone, and so is where the words came from.
NormalizeForComparison(text) == [i \in DOMAIN text |-> text[i].w]

IsNumber(key) == Len(key) = 1 /\ key[1] \in Numbers

IsPageNumberLike(text) == IsNumber(NormalizeForComparison(text))

EndsHyphenated(text) ==
    text # <<>> /\ Last(text).w \in Hyphenated /\ ~Last(text).glued

StartsLowercase(text) == text # <<>> /\ Head(text).w \in Lowercase

\* The hyphen goes, and the two fragments read as one word.
Join(text, next) ==
    [text EXCEPT ![Len(text)].glued = TRUE] \o next

(* A paragraph arrives as its lines; a word broken at a line end is joined *)
(* when both halves are lowercase, and the line breaks become spaces.      *)
NormalizeText(lines) ==
    FoldLeft(LAMBDA text, line :
                 IF EndsHyphenated(text) /\ StartsLowercase(line)
                 THEN Join(text, line) ELSE text \o line,
             <<>>, lines)

----------------------------------------------------------------------------
(* PDF: lines, noise, paragraphs *)

\* Items up to an end-of-line mark make a line; an unfinished last line is
\* kept when it has text.  An empty item never changes the font.
GroupItemsIntoLines(items) ==
    LET runs == Cut(items, {i \in DOMAIN items : i = 1 \/ items[i - 1].eol})
        worded(run) == {i \in DOMAIN run : run[i].text # <<>>}
        kept == Pick(runs, {r \in DOMAIN runs : Last(runs[r]).eol \/ worded(runs[r]) # {}})
        line(run) == [text |-> FlattenSeq([i \in DOMAIN run |-> run[i].text]), y |-> run[1].y,
                      font |-> Highest({run[i].font : i \in worded(run)}, 0)]
    IN [n \in DOMAIN kept |-> line(kept[n])]

(* Texts standing at the edge of at least six pages in ten are headers or  *)
(* footers; page numbers differ from page to page, so they are recognised  *)
(* by their shape at one of the two positions.                             *)
NoiseAmong(blocks) ==
    LET totalPages == Cardinality({b.page : b \in blocks})
        key(b) == NormalizeForComparison(b.text)
        often(some) == 10 * Cardinality(some) >= 6 * totalPages
        removed == {k \in {key(b) : b \in blocks} :
                       /\ Len(k) \in 1..MaxKey
                       /\ often({b \in blocks : key(b) = k})}
        numbered(pos) == {b \in blocks : b.pos = pos /\ IsNumber(key(b))}
    IN [removedTexts |-> removed,
        pageNumberPattern |->
            \/ \E k \in removed : IsNumber(k)
            \/ \E pos \in {"first", "last"} :
                   numbered(pos) # {} /\ often(numbered(pos))]

\* Mutation of DetectNoise: two pages, or one, are taken for evidence.
DetectNoiseEagerly(blocks) == NoiseAmong(blocks)

\* Fewer than three pages establish no repetition.
DetectNoise(blocks) ==
    IF Cardinality({b.page : b \in blocks}) < 3
    THEN [removedTexts |-> {}, pageNumberPattern |-> FALSE]
    ELSE NoiseAmong(blocks)

\* A repeated text goes from wherever it stands; a page number only from
\* the edge of a page.
WithoutNoise(lines, noise) ==
    LET keep(i) == /\ NormalizeForComparison(lines[i].text) \notin noise.removedTexts
                   /\ ~(noise.pageNumberPattern /\ IsPageNumberLike(lines[i].text)
                           /\ i \in {1, Len(lines)})
    IN Pick(lines, {i \in DOMAIN lines : keep(i)})

StripHeaderFooterNoiseLines(linesByPage) ==
    LET edge(p, pos, line) == [page |-> p, pos |-> pos, text |-> line.text]
        edges(p, lines) ==
            (IF lines = <<>> THEN {} ELSE {edge(p, "first", lines[1])})
                \cup (IF Len(lines) <= 1 THEN {} ELSE {edge(p, "last", Last(lines))})
        noise == DetectNoise(UNION {edges(p, linesByPage[p]) : p \in DOMAIN linesByPage})
    IN [p \in DOMAIN linesByPage |-> WithoutNoise(linesByPage[p], noise)]

Chars(lines) == FoldLeft(LAMBDA n, line : n + Len(line.text), 0, lines)

\* The font most of the text is set in; the first one seen wins a tie.
DominantFontSizeByCharWeight(lines) ==
    LET worded == SelectSeq(lines, LAMBDA line : line.text # <<>>)
        fonts == {worded[i].font : i \in DOMAIN worded}
        weight(f) == Chars(SelectSeq(worded, LAMBDA line : line.font = f))
        first(f) == CHOOSE i \in DOMAIN worded :
                        worded[i].font = f /\ \A j \in 1..(i - 1) : worded[j].font # f
    IN IF fonts = {} THEN 12
       ELSE CHOOSE f \in fonts : \A g \in fonts :
                weight(f) > weight(g) \/ (weight(f) = weight(g) /\ first(f) <= first(g))

Distance(a, b) == IF a > b THEN a - b ELSE b - a

MedianLineGap(lines) ==
    LET places == {i \in 2..Len(lines) : lines[i].y # lines[i - 1].y}
        gap(i) == Distance(lines[i].y, lines[i - 1].y)
        middle == Cardinality(places) \div 2
    IN IF places = {} THEN 0
       ELSE gap(CHOOSE m \in places :
                    /\ Cardinality({i \in places : gap(i) < gap(m)}) <= middle
                    /\ Cardinality({i \in places : gap(i) <= gap(m)}) > middle)

(* A short line in a larger font is a heading of its own; otherwise a gap  *)
(* well above the page's usual one starts a new paragraph.                 *)
GroupNonEmpty(nonEmpty, typicalGap, bodyFont) ==
    LET heading(line) == /\ 100 * line.font > 115 * bodyFont
                         /\ Len(line.text) < MaxKey
                         /\ Last(line.text).w \notin Commas
        broken(i) == /\ i > 1 /\ typicalGap > 0
                     /\ 10 * Distance(nonEmpty[i].y, nonEmpty[i - 1].y) > 16 * typicalGap
        runs == Cut(nonEmpty, {i \in DOMAIN nonEmpty :
                                    \/ i = 1 \/ broken(i)
                                    \/ heading(nonEmpty[i]) \/ heading(nonEmpty[i - 1])})
    IN [n \in DOMAIN runs |->
           [heading |-> heading(runs[n][1]), lines |-> [i \in DOMAIN runs[n] |-> runs[n][i].text]]]

GroupLinesIntoParagraphs(lines, bodyFont) ==
    LET nonEmpty == Pick(lines, {i \in DOMAIN lines : lines[i].text # <<>>})
    IN GroupNonEmpty(nonEmpty, MedianLineGap(nonEmpty), bodyFont)

----------------------------------------------------------------------------
(* PDF: pages *)

PageRow(number, status) == [pageNumber |-> number, status |-> status]

(* An image-only page: `scan` is what rasterising and recognising it give. *)
(* Only recognised text reaches the second pass, and only a confident      *)
(* recognition leaves the page OK.                                         *)
OcrPage(scan, available) ==
    CASE ~available -> [status |-> "NEEDS_REVIEW", paragraphs |-> <<>>]
      [] available /\ scan.outcome \in {"raster_failed", "ocr_failed"} ->
             [status |-> "FAILED", paragraphs |-> <<>>]
      [] available /\ scan.outcome = "read" /\ scan.paragraphs = <<>> ->
             [status |-> "NEEDS_REVIEW", paragraphs |-> <<>>]
      [] OTHER -> [status |-> IF scan.confident THEN "OK" ELSE "NEEDS_REVIEW",
                   paragraphs |-> scan.paragraphs]

\* A page whose operators cannot be listed counts as having no image.
PageHasImageContent(page) == page.images = "painted"

HasText(page) == Chars(GroupItemsIntoLines(page.items)) > 0

\* Pass 1: what becomes of each page.
ReadPage(page, number, available) ==
    CASE HasText(page) -> PageRow(number, "OK")
      [] ~HasText(page) /\ PageHasImageContent(page) ->
             PageRow(number, OcrPage(page.scan, available).status)
      [] OTHER -> PageRow(number, "OK")

Block(type, lines, level, spine, page) ==
    [type |-> type, lines |-> lines, level |-> level, spine |-> spine, page |-> page]

\* Pass 2: the blocks of one page, in page order.
PageBlocks(page, number, lines, bodyFont, available) ==
    IF HasText(page)
    THEN LET paragraphs == GroupLinesIntoParagraphs(lines, bodyFont)
         IN [i \in DOMAIN paragraphs |->
                IF paragraphs[i].heading
                THEN Block("HEADING", paragraphs[i].lines, 1, 0, number)
                ELSE Block("PARAGRAPH", paragraphs[i].lines, 0, 0, number)]
    ELSE IF PageHasImageContent(page)
    THEN LET read == OcrPage(page.scan, available).paragraphs
         IN [i \in DOMAIN read |-> Block("PARAGRAPH", <<read[i]>>, 0, 0, number)]
    ELSE <<>>

Document(kind, pages, blocks) ==
    [error |-> "none", sourceKind |-> kind, pages |-> pages, blocks |-> blocks]

Refused(error) == [error |-> error]

OpenError(file) == IF file.opens = "late" THEN "INGESTION_TIMEOUT" ELSE "CORRUPTED_FILE"

\* Pass 2 over the pages, `stripped` being the lines of those with text.
PdfBlocks(pages, stripped, available) ==
    LET texts == SelectSeq([n \in DOMAIN pages |-> n], LAMBDA n : n \in DOMAIN stripped)
        bodyFont == DominantFontSizeByCharWeight(
                        FlattenSeq([i \in DOMAIN texts |-> stripped[texts[i]]]))
    IN FlattenSeq([n \in DOMAIN pages |->
           PageBlocks(pages[n], n, IF n \in DOMAIN stripped THEN stripped[n] ELSE <<>>,
                      bodyFont, available)])

PdfParse(file, available) ==
    LET pages == file.pages
        withText == {n \in DOMAIN pages : HasText(pages[n])}
    IN CASE file.opens # "ok" -> Refused(OpenError(file))
         [] file.opens = "ok" /\ Len(pages) > MaxPages -> Refused("FILE_TOO_LARGE")
         [] OTHER -> Document("PDF",
                [n \in DOMAIN pages |-> ReadPage(pages[n], n, available)],
                PdfBlocks(pages,
                    StripHeaderFooterNoiseLines(
                        [n \in withText |-> GroupItemsIntoLines(pages[n].items)]),
                    available))

----------------------------------------------------------------------------
(* EPUB *)

\* The first entry that breaks a limit refuses the whole archive.
ListEntries(entries) ==
    LET step(acc, entry) ==
            LET count == acc.count + 1
                size == acc.size + entry.size
                error == CASE acc.error # "none" -> acc.error
                           [] count > MaxEntries -> "SECURITY_VIOLATION"
                           [] ~entry.safe -> "SECURITY_VIOLATION"
                           [] entry.size > MaxEntrySize -> "FILE_TOO_LARGE"
                           [] size > MaxArchive -> "FILE_TOO_LARGE"
                           [] OTHER -> "none"
            IN [error |-> error, count |-> count, size |-> size]
    IN FoldLeft(step, [error |-> "none", count |-> 0, size |-> 0], entries).error

\* An entry must exist and must not unpack to more than it may.
ReadEntry(entry) ==
    CASE ~entry.present -> "CORRUPTED_FILE"
      [] entry.present /\ entry.size > MaxEntrySize -> "SECURITY_VIOLATION"
      [] OTHER -> "none"

BlockTags == {"p", "h1", "h2", "blockquote", "li"}
Headings == {"h1", "h2"}

BlockType(tag) ==
    CASE tag \in Headings -> "HEADING"
      [] tag = "blockquote" -> "BLOCKQUOTE"
      [] tag = "li" -> "LIST_ITEM"
      [] OTHER -> "PARAGRAPH"

(* One pass over the tags.  Opening a block tag forgets the text of a      *)
(* block that is still open, and closing it leaves no block current: text  *)
(* around a nested block is lost.  Script and style hide what they hold.   *)
ExtractBlocksFromXhtml(events, spineIndex) ==
    LET hidden == {"script", "style"}
        level(tag) == IF tag = "h1" THEN 1 ELSE IF tag = "h2" THEN 2 ELSE 0
        closes(was, event) == /\ event.type = "close" /\ event.tag \notin hidden
                              /\ was.skip = 0 /\ was.tag = event.tag
        next(was, event, n) ==
            CASE event.type = "open" /\ event.tag \in hidden -> [was EXCEPT !.skip = @ + 1]
              [] event.type = "open" /\ event.tag \in BlockTags /\ was.skip = 0 ->
                     [was EXCEPT !.tag = event.tag, !.opened = n]
              [] event.type = "close" /\ event.tag \in hidden ->
                     [was EXCEPT !.skip = IF @ > 0 THEN @ - 1 ELSE 0]
              [] closes(was, event) -> [was EXCEPT !.tag = "none"]
              [] OTHER -> was
        after[n \in 0..Len(events)] ==
            IF n = 0 THEN [tag |-> "none", opened |-> 0, skip |-> 0]
            ELSE next(after[n - 1], events[n], n)
        words(n) == Pick(events, {m \in after[n].opened..n :
                                     events[m].type = "text" /\ after[m].skip = 0})
        text(n) == FlattenSeq([i \in DOMAIN words(n) |-> words(n)[i].text])
        closed == {n \in DOMAIN events : closes(after[n - 1], events[n]) /\ text(n) # <<>>}
        found == Pick([n \in DOMAIN events |-> n], closed)
    IN [k \in DOMAIN found |->
           Block(BlockType(events[found[k]].tag), <<text(found[k])>>,
                 level(events[found[k]].tag), spineIndex, 0)]

\* The package document's own path, then the spine it lists.
ParseContainerXml(file) == IF file.rootfile THEN "none" ELSE "CORRUPTED_FILE"

ParseOpf(file) == IF file.package THEN "none" ELSE "CORRUPTED_FILE"

ResolveManifestPath(item) == IF item.inside THEN "none" ELSE "SECURITY_VIOLATION"

(* Spine items missing from the manifest are passed over; a listed one     *)
(* must resolve inside the archive and be readable, or the file is refused.*)
EpubParse(file) ==
    LET spine == file.spine
        error(item) == CASE ~item.listed -> "none"
                         [] item.listed /\ ~item.inside -> ResolveManifestPath(item)
                         [] OTHER -> ReadEntry(item.entry)
        early == <<IF file.opens = "ok" THEN "none" ELSE "CORRUPTED_FILE", ListEntries(file.entries),
                   ParseContainerXml(file), ParseOpf(file),
                   IF spine = <<>> THEN "CORRUPTED_FILE" ELSE "none">>
        errors == early \o [i \in DOMAIN spine |-> error(spine[i])]
        found == {i \in DOMAIN errors : errors[i] # "none"}
    IN IF found # {} THEN Refused(errors[Lowest(found, 0)])
       ELSE Document("EPUB", <<>>,
                FlattenSeq([i \in DOMAIN spine |->
                    IF spine[i].listed THEN ExtractBlocksFromXhtml(spine[i].events, i)
                    ELSE <<>>]))

----------------------------------------------------------------------------
(* Image sets *)

\* An oversized frame refuses the file; an unreadable one fails alone.
OcrFrame(frame, available) ==
    CASE frame.image = "corrupt" -> [status |-> "FAILED", paragraphs |-> <<>>]
      [] OTHER -> OcrPage(frame.scan, available)

ImageParse(file, available) ==
    LET frames == file.frames
        read == [n \in DOMAIN frames |-> OcrFrame(frames[n], available)]
    IN CASE file.opens # "ok" -> Refused("CORRUPTED_FILE")
         [] file.opens = "ok" /\ Len(frames) > MaxPages -> Refused("FILE_TOO_LARGE")
         [] file.opens = "ok" /\ \E n \in DOMAIN frames : frames[n].image = "huge" ->
                Refused("FILE_TOO_LARGE")
         [] OTHER -> Document("IMAGE_SET",
                [n \in DOMAIN frames |-> PageRow(n, read[n].status)],
                FlattenSeq([n \in DOMAIN frames |->
                    [i \in DOMAIN read[n].paragraphs |->
                        Block("PARAGRAPH", <<read[n].paragraphs[i]>>, 0, 0, 0)]]))

----------------------------------------------------------------------------
(* Structure *)

IsChapterHeading(text) ==
    LET key == NormalizeForComparison(text) IN
    \/ key[1] \in ChapterWords
    \/ IsNumber(key)
    \/ Len(key) = 1 /\ key[1] \in FrontTitles \cup BackTitles \cup LogueTitles

ClassifyMatterType(title) ==
    CASE Len(title) = 1 /\ title[1].w \in FrontTitles -> "FRONT_MATTER"
      [] Len(title) = 1 /\ title[1].w \in BackTitles -> "BACK_MATTER"
      [] OTHER -> "BODY"

\* A heading's text is its only line.
Title(block) == FlattenSeq(block.lines)

(* A chapter starts at the first block, at a new spine item of an EPUB,    *)
(* and at a heading that names one; the heading becomes its title.         *)
SplitIntoChapters(blocks, isEpub) ==
    LET starts(i) ==
            LET block == blocks[i] IN
            \/ i = 1
            \/ isEpub /\ block.spine # blocks[i - 1].spine
            \/ block.type = "HEADING" /\ ~isEpub /\ IsChapterHeading(Title(block))
            \/ block.type = "HEADING" /\ isEpub /\ block.level = 1
        runs == Cut(blocks, {i \in DOMAIN blocks : starts(i)})
    IN [c \in DOMAIN runs |->
           IF runs[c][1].type = "HEADING"
           THEN [title |-> Title(runs[c][1]), blocks |-> Pick(runs[c], DOMAIN runs[c] \ {1})]
           ELSE [title |-> <<>>, blocks |-> runs[c]]]

(* Headings open sections (0: before any heading).  A paragraph that ends  *)
(* in a broken word continues in the next one of its section, over a page  *)
(* break too; a paragraph that is only a page number is dropped.           *)
SplitChapterIntoSections(blocks) ==
    LET headings == {i \in DOMAIN blocks : blocks[i].type = "HEADING"}
        titles == Pick(blocks, headings)
        rows == [i \in DOMAIN blocks |->
                    [text |-> NormalizeText(blocks[i].lines), section |-> Upto(headings, i),
                     page |-> blocks[i].page]]
        kept == Pick(rows, {i \in DOMAIN blocks \ headings :
                    rows[i].text # <<>> /\ ~IsPageNumberLike(FlattenSeq(blocks[i].lines))})
        merges(i) == /\ kept[i].section = kept[i - 1].section
                     /\ EndsHyphenated(kept[i - 1].text) /\ StartsLowercase(kept[i].text)
        runs == Cut(kept, {i \in DOMAIN kept : i = 1 \/ ~merges(i)})
    IN [sections |-> [s \in DOMAIN titles |-> Title(titles[s])],
        paragraphs |-> [n \in DOMAIN runs |->
            [text |-> NormalizeText([i \in DOMAIN runs[n] |-> runs[n][i].text]),
             section |-> runs[n][1].section,
             page |-> runs[n][1].page, pageEnd |-> Last(runs[n]).page]]]

\* Mutation of SpineBefore: the counter starts again in every chapter.
SpineRestarts(split, c) == 0

\* The spine counter when chapter c is reached.
SpineBefore(split, c) ==
    LET upTo[n \in 0..Len(split)] ==
            IF n = 0 THEN 0 ELSE upTo[n - 1] + Len(split[n].paragraphs)
    IN upTo[c - 1]

(* Paragraphs are numbered through the whole book.  A chapter without any  *)
(* takes the number of the paragraph that follows it, and a section        *)
(* without any the whole range of its chapter.                             *)
NumberParagraphs(paragraphs, before) ==
    [i \in DOMAIN paragraphs |->
        [text |-> paragraphs[i].text, section |-> paragraphs[i].section,
         page |-> paragraphs[i].page, pageEnd |-> paragraphs[i].pageEnd,
         orderIndex |-> i - 1, spinePosition |-> before + i - 1]]

Positions(paragraphs) == {p.spinePosition : p \in paragraphs}

NumberSections(titles, paragraphs, start, end) ==
    LET of(s) == Positions({p \in ToSet(paragraphs) : p.section = s})
    IN [s \in DOMAIN titles |->
           [title |-> titles[s], orderIndex |-> s - 1,
            spineStart |-> Lowest(of(s), start), spineEnd |-> Highest(of(s), end)]]

NumberChapter(c, title, titles, paragraphs, start, end) ==
    [orderIndex |-> c - 1, title |-> title, spineStart |-> start, spineEnd |-> end,
     matterType |-> ClassifyMatterType(title), paragraphs |-> paragraphs,
     sections |-> NumberSections(titles, paragraphs, start, end)]

NumberChapters(raw, split) ==
    LET chapter(c, paragraphs, before) ==
            NumberChapter(c, raw[c].title, split[c].sections, paragraphs,
                          Lowest(Positions(ToSet(paragraphs)), before),
                          Highest(Positions(ToSet(paragraphs)), before))
        from(c, before) == chapter(c, NumberParagraphs(split[c].paragraphs, before), before)
    IN [c \in DOMAIN raw |-> from(c, SpineBefore(split, c))]

SplitChapters(raw) ==
    NumberChapters(raw, [c \in DOMAIN raw |-> SplitChapterIntoSections(raw[c].blocks)])

DetectStructure(document) ==
    SplitChapters(SplitIntoChapters(document.blocks, document.sourceKind = "EPUB"))

----------------------------------------------------------------------------
(* The review artifact and the quality report *)

\* Titles and paragraphs in reading order; a section without paragraphs
\* leaves no trace.  An untitled chapter prints its number instead.
RenderMarkdown(chapters) ==
    LET body(chapter) ==
            FoldLeft(LAMBDA acc, p :
                IF p.section # acc.section
                THEN [out |-> acc.out \o chapter.sections[p.section].title \o p.text,
                      section |-> p.section]
                ELSE [acc EXCEPT !.out = @ \o p.text],
                [out |-> <<>>, section |-> 0], chapter.paragraphs).out
    IN FlattenSeq([c \in DOMAIN chapters |-> chapters[c].title \o body(chapters[c])])

Rank == [PASS |-> 0, WARN |-> 1, NEEDS_REVIEW |-> 2]

CheckContentLossRatio(rawCount, normalizedCount) ==
    CASE rawCount > 0 /\ 10 * normalizedCount < 4 * rawCount -> "NEEDS_REVIEW"
      [] rawCount > 0 /\ 10 * normalizedCount \in (4 * rawCount)..(7 * rawCount - 1) -> "WARN"
      [] OTHER -> "PASS"

CheckEmptyChapters(chapters) ==
    IF \E c \in DOMAIN chapters : chapters[c].paragraphs = <<>>
    THEN "NEEDS_REVIEW" ELSE "PASS"

CheckDuplicateParagraphs(chapters) ==
    LET all == FlattenSeq([c \in DOMAIN chapters |->
                   SelectSeq(chapters[c].paragraphs,
                             LAMBDA p : Len(p.text) >= MinDuplicate)])
    IN IF \E i, j \in DOMAIN all : i # j /\ NormalizeForComparison(all[i].text)
                                            = NormalizeForComparison(all[j].text)
       THEN "WARN" ELSE "PASS"

CheckPageCoverage(pages) ==
    LET numbers == {pages[i].pageNumber : i \in DOMAIN pages} IN
    CASE \E n \in 1..Highest(numbers, 0) : n \notin numbers -> "NEEDS_REVIEW"
      [] \E i \in DOMAIN pages : pages[i].status # "OK" -> "WARN"
      [] OTHER -> "PASS"

BuildQualityReport(chapters, rawCount, normalizedCount, pages) ==
    LET checks == {CheckContentLossRatio(rawCount, normalizedCount),
                   CheckEmptyChapters(chapters), CheckDuplicateParagraphs(chapters),
                   CheckPageCoverage(pages)}
    IN CHOOSE worst \in checks : \A c \in checks : Rank[c] <= Rank[worst]

DeriveBookVersionStatus(pages, quality) ==
    LET some(status) == \E i \in DOMAIN pages : pages[i].status = status IN
    CASE quality = "NEEDS_REVIEW" \/ some("FAILED") -> "NEEDS_REVIEW"
      [] ~(quality = "NEEDS_REVIEW" \/ some("FAILED")) /\ some("NEEDS_REVIEW") -> "PARTIAL_OCR"
      [] OTHER -> "READY"

----------------------------------------------------------------------------
(* The pipeline *)

\* By the bytes, never by the name: a plain archive is an EPUB only when the
\* uploader said so.
DetectFormat(file) ==
    CASE file.sniffed = "empty" -> "INVALID_FILE"
      [] file.sniffed \in {"PDF", "EPUB", "IMAGE_SET"} -> file.sniffed
      [] file.sniffed = "zip" /\ file.declared = "EPUB" -> "EPUB"
      [] OTHER -> "UNSUPPORTED_FORMAT"

SumBlockChars(blocks) ==
    FoldLeft(LAMBDA n, b : n + Len(FlattenSeq(b.lines)), 0, blocks)

Parse(file, available) ==
    LET format == DetectFormat(file) IN
    CASE format = "PDF" -> PdfParse(file, available)
      [] format = "EPUB" -> EpubParse(file)
      [] format = "IMAGE_SET" -> ImageParse(file, available)
      [] OTHER -> Refused(format)

Assess(document, chapters, quality) ==
    [error |-> "none", chapters |-> chapters, pages |-> document.pages,
     markdown |-> RenderMarkdown(chapters), quality |-> quality,
     status |-> DeriveBookVersionStatus(document.pages, quality)]

CharCount(chapters) ==
    FoldLeft(LAMBDA n, c : n + FoldLeft(LAMBDA m, p : m + Len(p.text), 0, c.paragraphs),
             0, chapters)

Report(document, chapters) ==
    Assess(document, chapters,
           BuildQualityReport(chapters, SumBlockChars(document.blocks), CharCount(chapters),
                              document.pages))

Finish(document) ==
    IF document.error # "none" THEN document
    ELSE Report(document, DetectStructure(document))

RunIngestionPipeline(file, available) ==
    IF ~file.small THEN Refused("FILE_TOO_LARGE") ELSE Finish(Parse(file, available))

(* What is stored: a row per chapter, section and paragraph, the paragraph *)
(* pointing at its chapter, its section and its page.                      *)
PersistStructure(result) ==
    LET chapters == result.chapters
        row(c, p) == [chapter |-> c, section |-> p.section, orderIndex |-> p.orderIndex,
                      spinePosition |-> p.spinePosition, text |-> p.text,
                      parsedPage |-> IF p.page \in DOMAIN result.pages THEN p.page ELSE 0]
    IN [chapter |-> [c \in DOMAIN chapters |->
            [orderIndex |-> chapters[c].orderIndex, spineStart |-> chapters[c].spineStart,
             spineEnd |-> chapters[c].spineEnd, title |-> chapters[c].title]],
        section |-> FlattenSeq([c \in DOMAIN chapters |->
            [s \in DOMAIN chapters[c].sections |->
                [chapter |-> c, section |-> s, title |-> chapters[c].sections[s].title,
                 spineStart |-> chapters[c].sections[s].spineStart,
                 spineEnd |-> chapters[c].sections[s].spineEnd]]]),
        paragraph |-> FlattenSeq([c \in DOMAIN chapters |->
            [i \in DOMAIN chapters[c].paragraphs |-> row(c, chapters[c].paragraphs[i])]])]
=============================================================================
