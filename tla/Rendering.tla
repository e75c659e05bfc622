------------------------------ MODULE Rendering ------------------------------
(***************************************************************************)
(* From the samples an engine returns to the chapter markers of the book:  *)
(* encoding and measuring a chunk and the checks that accept it (audio.py  *)
(* of the GPU worker), trimming and joining chunks into a chapter and      *)
(* chapters into a book (assembly-chapter.ts, assembly-audiobook.ts), and  *)
(* the markers of the delivered file.                                      *)
(*                                                                         *)
(* A sample is its magnitude on a coarse scale.  Time is counted in sample *)
(* frames; what the code stores is rounded to milliseconds.  The limits of *)
(* ValidationThresholds and the trim policy are scaled to a few frames.    *)
(***************************************************************************)
EXTENDS Integers, FiniteSets, FiniteSetsExt, SequencesExt

CONSTANT FramesPerMs   \* odd: no duration is half way between milliseconds

ASSUME FramesPerMsOdd == FramesPerMs \in Nat /\ FramesPerMs % 2 = 1

NotANumber == -1
SilenceFloor == 1   \* -60 dBFS, what the worker calls silent is below it
TrimFloor == 3      \* -50 dBFS, what assembly trims is below it
FullScale == 6

ToMs(frames) == (2 * frames + FramesPerMs) \div (2 * FramesPerMs)

\* Sums(numbers)[k] is the sum of the first k.
Sums(numbers) ==
    LET sum[k \in 0..Len(numbers)] == IF k = 0 THEN 0 ELSE sum[k - 1] + numbers[k] IN sum

Total(numbers) == Sums(numbers)[Len(numbers)]

----------------------------------------------------------------------------
(* The worker's own checks *)

Corrupted == [decodable |-> FALSE]

\* Samples beyond full scale are clipped; one that is no number, or no sample
\* at all, is refused.  A frame that lacks a channel is not counted.
EncodeWav(samples, format) ==
    LET channels == format.channels
    IN IF samples = <<>> \/ NotANumber \in ToSet(samples) \/ Len(samples) < channels
       THEN Corrupted
       ELSE [decodable |-> TRUE, format |-> format,
             frames |-> [f \in 1..(Len(samples) \div channels) |->
                 [c \in 1..channels |-> Min({FullScale, samples[(f - 1) * channels + c]})]]]

\* A frame is as loud as its loudest channel.
FrameMagnitudes(frames) == [f \in DOMAIN frames |-> Max(ToSet(frames[f]))]

\* An entirely silent file has a lead and no gap.
SilenceSpans(magnitudes) ==
    LET total == Len(magnitudes)
        sounding == {i \in 1..total : magnitudes[i] >= SilenceFloor}
        next(i) == {j \in sounding : i < j /\ \A k \in (i + 1)..(j - 1) : k \notin sounding}
        gaps == UNION {{j - i - 1 : j \in next(i)} : i \in sounding}
    IN IF sounding = {} THEN [leading |-> ToMs(total), trailing |-> 0, internal |-> 0]
       ELSE [leading |-> ToMs(Min(sounding) - 1), trailing |-> ToMs(total - Max(sounding)),
             internal |-> ToMs(Max(gaps \cup {0}))]

\* The power of the signal is the sum of the squares of its samples.
Power(samples) == Total([k \in DOMAIN samples |-> samples[k] * samples[k]])

\* The samples of the frames, one frame after the other.
Interleaved(frames, channels) ==
    [k \in 1..(Len(frames) * channels) |->
        frames[((k - 1) \div channels) + 1][((k - 1) % channels) + 1]]

MeasureWav(wav) ==
    LET samples == Interleaved(wav.frames, wav.format.channels)
    IN [duration |-> ToMs(Len(wav.frames)), format |-> wav.format, samples |-> Len(samples),
        power |-> Power(samples),
        clipped |-> Cardinality({k \in DOMAIN samples : samples[k] = FullScale}),
        silence |-> SilenceSpans(FrameMagnitudes(wav.frames))]

Limits == [minDuration |-> 1, maxDuration |-> 1, silence |-> 0, clippedOneIn |-> 3,
           minRate |-> 1, maxRate |-> 2]

\* The verdict names the first check that fails.  The pace is judged in
\* characters for each millisecond, of which there is at least one.
RunWorkerChecks(wav, expected, chars) ==
    LET m == MeasureWav(wav)
        time == Max({m.duration, 1})
        checks == << <<"duration_within_bounds",
                         m.duration \in Limits.minDuration..Limits.maxDuration>>,
                     <<"sample_rate_matches_expected", m.format.rate = expected.rate>>,
                     <<"channels_match_expected", m.format.channels = expected.channels>>,
                     <<"not_silent", m.power > SilenceFloor * SilenceFloor * m.samples>>,
                     <<"true_peak_clipping", Limits.clippedOneIn * m.clipped <= m.samples>>,
                     <<"leading_silence_within_bounds", m.silence.leading <= Limits.silence>>,
                     <<"trailing_silence_within_bounds", m.silence.trailing <= Limits.silence>>,
                     <<"internal_silence_within_bounds", m.silence.internal <= Limits.silence>>,
                     <<"duration_plausible_for_text",
                         \/ chars = 0
                         \/ chars \in (Limits.minRate * time)..(Limits.maxRate * time)>> >>
        failing == {i \in DOMAIN checks : ~checks[i][2]}
    IN IF failing = {} THEN "PASS" ELSE checks[Min(failing)][1]

\* What becomes of the samples an engine returned (the provider encodes them).
Verdict(samples, format, expected, chars) ==
    LET wav == EncodeWav(samples, format)
    IN IF wav.decodable THEN RunWorkerChecks(wav, expected, chars) ELSE "AUDIO_CORRUPTED"

----------------------------------------------------------------------------
(* Trimming a chunk *)

MinSilence == 2   \* frames a silence must last to be detected
Epsilon == 1      \* frames by which a silence may miss the edge
Unset == -1

\* The silences of at least MinSilence frames as ffmpeg reports them, by their
\* first frame: whether one that lasts to the end is closed depends on its
\* version.
DetectSilence(levels, flushed) ==
    LET n == Len(levels)
        quiet(i) == i \in 1..n /\ levels[i] < TrimFloor
        starts == {i \in 1..n : /\ ~quiet(i - 1)
                                /\ \A k \in i..(i + MinSilence - 1) : quiet(k)}
        end(i) == Max({j \in i..n : \A k \in i..j : quiet(k)})
        interval(i) == [start |-> i - 1, end |-> IF end(i) = n /\ ~flushed THEN Unset ELSE end(i)]
    IN [i \in starts |-> interval(i)]

\* The lead is cut only if something follows it, the tail only if something
\* stays between the two.
ComputeLeadTrailTrim(intervals, total) ==
    LET first == intervals[Min(DOMAIN intervals)]
        last == intervals[Max(DOMAIN intervals)]
        leads(i) == i.start <= Epsilon /\ i.end # Unset /\ i.end < total
        start == IF DOMAIN intervals # {} /\ leads(first) THEN first.end ELSE Unset
        trails(i) == /\ (IF i.end = Unset THEN total ELSE i.end) >= total - Epsilon
                     /\ i.start > Max({start, 0}) + Epsilon
    IN [start |-> start,
        end |-> IF DOMAIN intervals # {} /\ trails(last) THEN last.start ELSE Unset,
        leadTrimmed |-> ToMs(Max({start, 0}))]

\* The frames that stay.  The length that silences are compared with is the
\* probed one, rounded to milliseconds.
KeptFrames(levels, flushed) ==
    LET trim == ComputeLeadTrailTrim(DetectSilence(levels, flushed),
                                     FramesPerMs * ToMs(Len(levels)))
    IN (Max({trim.start, 0}) + 1)..(IF trim.end = Unset THEN Len(levels) ELSE trim.end)

----------------------------------------------------------------------------
(* Joining *)

SumPauseMs(pauses, position) ==
    Total([i \in DOMAIN pauses |-> IF pauses[i].position = position THEN pauses[i].ms ELSE 0])

PauseFrames(ms) == FramesPerMs * ms

\* Frames of a chunk once trimmed and given its pauses; pauses inside the
\* text are not applied.
ChunkFrames(chunk) ==
    Cardinality(KeptFrames(chunk.levels, TRUE))
    + PauseFrames(SumPauseMs(chunk.pauses, "LEADING"))
    + PauseFrames(SumPauseMs(chunk.pauses, "TRAILING"))

\* Pieces laid end to end: each starts where the probed durations before it
\* end.
Placed(frames) ==
    LET durations == [i \in DOMAIN frames |-> ToMs(frames[i])]
    IN [i \in DOMAIN frames |-> [start |-> Sums(durations)[i - 1], duration |-> durations[i]]]

\* Joining copies: the whole is as long as its parts.
AssembleChapterAudio(chunks) ==
    LET frames == [i \in DOMAIN chunks |-> ChunkFrames(chunks[i])]
    IN [members |-> Placed(frames), frames |-> Total(frames)]

Tolerance == 1   \* LU

\* The chapters further than Tolerance from the mean loudness are brought to
\* it; the others are left as they are.  In n-ths of a LU for n chapters.
MatchLoudness(loudness) ==
    LET n == Len(loudness)
        sum == Total(loudness)
        outlier(l) == n * l - sum > n * Tolerance \/ sum - n * l > n * Tolerance
    IN [i \in DOMAIN loudness |-> IF outlier(loudness[i]) THEN sum ELSE n * loudness[i]]

AssembleAudiobookMaster(chapters) ==
    LET frames == [i \in DOMAIN chapters |-> AssembleChapterAudio(chapters[i].chunks).frames]
    IN [chapters |-> Placed(frames), frames |-> Total(frames),
        loudness |-> MatchLoudness([i \in DOMAIN chapters |-> chapters[i].loudness])]

BuildFfmetadataChapters(placed) ==
    [i \in DOMAIN placed |-> [start |-> placed[i].start,
                              end |-> placed[i].start + placed[i].duration]]
=============================================================================
