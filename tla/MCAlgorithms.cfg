\* Every algorithm on every input up to the bounds.
CONSTANTS
    Numbers = {"12"}
    ChapterWords = {"chapter"}
    FrontTitles = {"preface"}
    BackTitles = {"appendix"}
    LogueTitles = {"prologue"}
    Commas = {"tale,"}
    Hyphenated = {"extra-"}
    Lowercase = {"dog", "extra-"}
    MaxChars = 2
    AttributionWindow = 4
    Nobody = "nobody"
    Narrator = "narrator"
    Unknown = "unknown"
    MaxItems = 4
    MaxElements = 3
    MaxSpine = 2
    Stopwords = {"he"}
    LocationNouns = {"manor"}
    MaxChapters = 3
    MaxProse = 3
    MaxText = 5
    MaxCover = 3
    MaxSpans = 4
    MaxCues = 3
    MaxSamples = 5
    MaxFrames = 9
    MaxJoined = 3
    FramesPerMs = 3
    MaxFacts = 3
SPECIFICATION InputSpec
INVARIANT TextKept
INVARIANT SpineNumbered
INVARIANT EvidenceKept
INVARIANT ChunksPartition
INVARIANT SpeechAccounted
INVARIANT SynthesisAccounted
INVARIANT StagesTold
CHECK_DEADLOCK FALSE
