---------------------------- MODULE StyleProfile ----------------------------
(***************************************************************************)
(* The voice profile of one label: the approved text of all its packages,  *)
(* the coverage aggregated over them, and what a comparison of a document  *)
(* with the profile reports.  Nothing of it is kept: each command of       *)
(* style profile, coverage, invariants and compare builds the profile from *)
(* the packages as they are reviewed at that time.                         *)
(*                                                                         *)
(* A text is a sequence of tokens: a word, the punctuation mark behind it  *)
(* ("" for none), and the white space before the next word: one space, a   *)
(* blank line, or any other - a tab, two spaces, the end of a line.        *)
(***************************************************************************)
EXTENDS Integers, Sequences, FiniteSets, SequencesExt

CONSTANTS
    Labels,         \* package sequences that a label may have when imported
    OtherTexts,     \* documents to compare, beside the voice text itself
    MinWords        \* min_words_for_sufficiency

Words == {"plain", "prose", "do", "don't", "I", "it"}
Marks == {"", ",", ".", "?", "dash", "hyphen", "quote"}
Classes == {"unknown", "authentic_user_prose", "quotation"}

Gaps == {"space", "wrap", "blank line"}

Tokens == [word : Words, mark : Marks, gap : Gaps]
TextIn == Seq(Tokens)

\* A package as the profile sees it: its spans in document order, and whether
\* its import lost a feature.
Sampled == [spans : Seq([text : TextIn, class : Classes]), unsupported : BOOLEAN]

ASSUME ProfileAssumption ==
    /\ MinWords \in Nat
    /\ OtherTexts \subseteq TextIn
    /\ Labels \subseteq Seq(Sampled)

VARIABLES
    samples,        \* the packages of the label, in the order of their ids
    profile,        \* what the last command built; no packages: nothing
    report          \* what the last comparison said

profileVars == <<samples, profile, report>>

-----------------------------------------------------------------------------
(* Voice *)

\* "\n\n".join of the parts that are not empty: a blank line between two.
Join(parts) ==
    LET Behind(text, part) ==
            IF part = <<>> THEN text
            ELSE IF text = <<>> THEN part
            ELSE [text EXCEPT ![Len(text)].gap = "blank line"] \o part
    IN FoldLeft(Behind, <<>>, parts)

Resolved(span) == span.class # "unknown"

Eligible(span) == span.class = "authentic_user_prose"

ApprovedVoiceText(package) ==
    Join([s \in DOMAIN package.spans |->
             IF Eligible(package.spans[s]) THEN package.spans[s].text ELSE <<>>])

VoiceText(packages) ==
    Join([k \in DOMAIN packages |-> ApprovedVoiceText(packages[k])])

Unresolved(package) == {s \in DOMAIN package.spans : ~Resolved(package.spans[s])}

-----------------------------------------------------------------------------
(* Coverage *)

Sufficient(words) == IF words >= MinWords THEN "sufficient" ELSE "insufficient"

\* build_coverage_report, of one package.  A package without spans has no
\* visible text.
CoverageReport(package) ==
    LET words == MapThenSumSet(LAMBDA s : Len(package.spans[s].text),
                     {s \in DOMAIN package.spans : Eligible(package.spans[s])})
        visible == package.spans # <<>>
        open == Cardinality(Unresolved(package))
    IN [visible |-> visible, unresolved |-> open,
        unsupported |-> package.unsupported, sufficiency |-> Sufficient(words),
        status |->
            IF open > 0 \/ package.unsupported THEN "human_review_required"
            ELSE IF words >= MinWords /\ visible THEN "complete" ELSE "partial"]

\* Ratios at their minimum, counts summed, features united.
AggregateCoverage(reports) ==
    LET all == DOMAIN reports
        open == MapThenSumSet(LAMBDA k : reports[k].unresolved, all)
        unsupported == \E k \in all : reports[k].unsupported
    IN [visible |-> \A k \in all : reports[k].visible, unresolved |-> open,
        unsupported |-> unsupported,
        sufficiency |-> IF \E k \in all : reports[k].sufficiency = "insufficient"
                        THEN "insufficient" ELSE "sufficient",
        status |->
            IF open > 0 \/ unsupported THEN "human_review_required"
            ELSE IF \E k \in all : reports[k].status = "partial" THEN "partial"
            ELSE IF \A k \in all : reports[k].status = "complete" THEN "complete"
            ELSE "human_review_required"]

\* Mutant: the aggregate's status stays when its sufficiency is corrected.
ReconcileSufficiencyOnly(coverage, words) ==
    [coverage EXCEPT !.sufficiency = Sufficient(words)]

\* The words of all packages together may suffice where each alone does not.
ReconcileSufficiency(coverage, words) ==
    IF coverage.sufficiency = Sufficient(words) THEN coverage
    ELSE [coverage EXCEPT !.sufficiency = Sufficient(words),
              !.status =
                  IF words < MinWords
                  THEN IF @ = "complete" THEN "partial" ELSE @
                  ELSE IF coverage.unresolved > 0 \/ coverage.unsupported
                       THEN "human_review_required"
                  ELSE IF coverage.visible THEN "complete" ELSE "partial"]

-----------------------------------------------------------------------------
(* Metrics and invariants of a text *)

\* A ratio, zero for want of anything to count.
Ratio(n, d) == IF d = 0 THEN <<0, 1>> ELSE <<n, d>>
Same(a, b) == a[1] * b[2] = b[1] * a[2]

\* Where the pieces of a text end, the last piece at the last token.
PieceEnds(text, Cuts(_)) ==
    SetToSortSeq({i \in DOMAIN text : Cuts(text[i]) \/ i = Len(text)},
                 LAMBDA i, j : i < j)

\* The splitter cuts behind a stop only: a blank line alone ends no sentence.
Stops(token) == token.mark \in {".", "?"}

SentenceLengths(text) ==
    LET ends == PieceEnds(text, Stops)
    IN [k \in DOMAIN ends |-> ends[k] - (IF k = 1 THEN 0 ELSE ends[k - 1])]

\* Sentences of each paragraph.
ParagraphLengths(text) ==
    LET ends == PieceEnds(text, LAMBDA token : token.gap = "blank line")
        Piece(k) == SubSeq(text, (IF k = 1 THEN 0 ELSE ends[k - 1]) + 1, ends[k])
    IN [k \in DOMAIN ends |-> Len(PieceEnds(Piece(k), Stops))]

Total(lengths) == FoldLeft(LAMBDA sum, n : sum + n, 0, lengths)

\* Mutant: two lengths are thought too few for a deviation.
DistributionOfThree(lengths) ==
    LET n == Len(lengths)
        squares == Total([k \in DOMAIN lengths |-> lengths[k] * lengths[k]])
        sum == Total(lengths)
    IN [count |-> n, mean |-> Ratio(sum, n),
        variance |-> IF n < 3 THEN <<0, 1>>
                     ELSE <<n * squares - sum * sum, n * (n - 1)>>]

\* Count, mean and the variance under the standard deviation.
Distribution(lengths) ==
    LET n == Len(lengths)
        squares == Total([k \in DOMAIN lengths |-> lengths[k] * lengths[k]])
        sum == Total(lengths)
    IN [count |-> n, mean |-> Ratio(sum, n),
        variance |-> IF n < 2 THEN <<0, 1>>
                     ELSE <<n * squares - sum * sum, n * (n - 1)>>]

CountOf(text, Is(_)) == Cardinality({i \in DOMAIN text : Is(text[i])})

WordsOf(text) == {text[i].word : i \in DOMAIN text}

LexicalMetrics(text) ==
    [type_token |-> Ratio(Cardinality(WordsOf(text)), Len(text)),
     function_word |-> Ratio(CountOf(text, LAMBDA t : t.word \in {"do", "I", "it"}),
                             Len(text)),
     contraction |-> Ratio(CountOf(text, LAMBDA t : t.word = "don't"), Len(text))]

\* The seven numbers that a comparison sets side by side.
MetricValue(text, key) ==
    LET sentences == Distribution(SentenceLengths(text))
        lexical == LexicalMetrics(text)
    IN CASE key = "sentence_mean" -> sentences.mean
         [] key = "sentence_stdev" -> sentences.variance
         [] key = "type_token_ratio" -> lexical.type_token
         [] key = "function_word_ratio" -> lexical.function_word
         [] key = "contraction_frequency" -> lexical.contraction
         [] key = "punctuation" ->
                Ratio(CountOf(text, LAMBDA t : t.mark # ""), Len(text))
         [] key = "question_frequency" ->
                Ratio(CountOf(text, LAMBDA t : t.mark = "?"), sentences.count)

MetricKeys == {"sentence_mean", "sentence_stdev", "type_token_ratio",
               "function_word_ratio", "contraction_frequency", "punctuation",
               "question_frequency"}

Convention(text, marks) ==
    LET present == {mark \in marks : \E i \in DOMAIN text : text[i].mark = mark}
    IN IF present = {} THEN "none"
       ELSE IF Cardinality(present) = 1 THEN CHOOSE mark \in present : TRUE
       ELSE "mixed"

\* The pairs of adjacent words, whatever stands between them: the three most
\* frequent ones, the first seen of equals.
PreferredTerminology(text) ==
    LET pair(i) == <<text[i].word, text[i + 1].word>>
        at == 1 .. Len(text) - 1
        Seen(b) == {i \in at : pair(i) = b}
        Before(b, c) ==
            \/ Cardinality(Seen(b)) > Cardinality(Seen(c))
            \/ /\ Cardinality(Seen(b)) = Cardinality(Seen(c))
               /\ Min(Seen(b)) < Min(Seen(c))
        pairs == {pair(i) : i \in at}
    IN {b \in pairs : Cardinality({c \in pairs : Before(c, b)}) < 3}

\* The invariants that can differ between two texts, and the terminology.
Invariants(text) ==
    [dash |-> Convention(text, {"dash", "hyphen"}),
     quotation |-> Convention(text, {"quote"}),
     contractions |-> "don't" \in WordsOf(text),
     person |-> [first_singular |-> "I" \in WordsOf(text),
                 third_person |-> "it" \in WordsOf(text)]]

-----------------------------------------------------------------------------
(* Profile and comparison *)

BuildProfile(packages) ==
    LET voice == VoiceText(packages)
        reports == [k \in DOMAIN packages |-> CoverageReport(packages[k])]
        coverage == ReconcileSufficiency(AggregateCoverage(reports), Len(voice))
    IN [packages |-> packages, voice |-> voice, coverage |-> coverage,
        status |-> coverage.status]

NoProfile == [packages |-> <<>>, voice |-> <<>>, status |-> "none",
              coverage |-> [visible |-> FALSE, unresolved |-> 0, unsupported |-> FALSE,
                            sufficiency |-> "insufficient", status |-> "none"]]

\* The substring search of a pair with one space between its words; the second
\* may be the beginning of a word.
Shows(text, pair) == \E i \in 1 .. Len(text) - 1 :
    /\ text[i].word = pair[1] /\ text[i].mark = "" /\ text[i].gap = "space"
    /\ text[i + 1].word = pair[2] \/ (pair[2] = "do" /\ text[i + 1].word = "don't")

\* The metrics whose distance is not zero.
Distances(voice, text) ==
    {key \in MetricKeys : ~Same(MetricValue(voice, key), MetricValue(text, key))}

\* |z| > 2 on the profile's mean and deviation.
Far(n, scale) ==
    LET m == scale.mean
        v == scale.variance
    IN (n * m[2] - m[1]) * (n * m[2] - m[1]) * v[2] > 4 * v[1] * m[2] * m[2]

\* A profile without a deviation has no outliers.
Outliers(lengths, scale) ==
    IF scale.variance[1] = 0 THEN {} ELSE {k \in DOMAIN lengths : Far(lengths[k], scale)}

Compare(built, text) ==
    LET ours == Invariants(built.voice)
        theirs == Invariants(text)
    IN [document |-> text,
        violations |-> {kind \in DOMAIN ours : ours[kind] # theirs[kind]},
        distances |-> Distances(built.voice, text),
        sentences |-> Outliers(SentenceLengths(text),
                               Distribution(SentenceLengths(built.voice))),
        paragraphs |-> Outliers(ParagraphLengths(text),
                                Distribution(ParagraphLengths(built.voice))),
        conflicts |-> {pair \in PreferredTerminology(built.voice) : ~Shows(text, pair)},
        sufficiency |-> Sufficient(Len(text)),
        authorship |-> IF built.coverage.unresolved = 0
                       THEN "resolved" ELSE "unresolved"]

NoReport == [document |-> <<>>, violations |-> {}, distances |-> {}, sentences |-> {},
             paragraphs |-> {}, conflicts |-> {}, sufficiency |-> "insufficient",
             authorship |-> "none"]

\* profile_from_json: what must agree inside a profile that is read back.
Loads(built) ==
    /\ built.status = built.coverage.status
    /\ built.coverage.sufficiency = "sufficient" => Len(built.voice) >= MinWords

-----------------------------------------------------------------------------
(* Commands *)

ProfileInit ==
    /\ samples \in Labels
    /\ profile = NoProfile
    /\ report = NoReport

\* style review, seen from the profile: the class of one span changes.
Review(k, s, class) ==
    /\ samples[k].spans[s].class # class
    /\ samples' = [samples EXCEPT ![k].spans[s].class = class]
    /\ profile' = NoProfile
    /\ report' = NoReport

\* style profile, coverage and invariants: a label without packages is refused.
ShowProfile ==
    /\ samples # <<>>
    /\ profile' = BuildProfile(samples)
    /\ report' = NoReport
    /\ UNCHANGED samples

CompareDocument(text) ==
    /\ samples # <<>>
    /\ profile' = BuildProfile(samples)
    /\ report' = Compare(BuildProfile(samples), text)
    /\ UNCHANGED samples

ProfileNext ==
    \/ \E k \in DOMAIN samples : \E s \in DOMAIN samples[k].spans :
           \E class \in Classes \ {"unknown"} : Review(k, s, class)
    \/ ShowProfile
    \/ \E text \in OtherTexts \cup {VoiceText(samples)} : CompareDocument(text)

ProfileSpec == ProfileInit /\ [][ProfileNext]_profileVars

-----------------------------------------------------------------------------
(* Properties *)

ProfileTypeOK ==
    /\ samples \in Seq(Sampled)
    /\ profile.status \in {"none", "complete", "partial", "human_review_required"}
    /\ report.distances \subseteq MetricKeys

\* A profile is complete exactly when every span of every package is reviewed,
\* no import lost a feature or came out empty, and the approved text of all
\* packages together has enough words; and what was built can be read back
\* (build_profile, profile_from_json).
CompleteIsEarned == profile # NoProfile =>
    /\ profile.status = "complete" <=>
           /\ \A k \in DOMAIN samples :
                  /\ Unresolved(samples[k]) = {} /\ samples[k].spans # <<>>
                  /\ ~samples[k].unsupported
           /\ Len(VoiceText(samples)) >= MinWords
    /\ Loads(profile)

\* The outlier rule is switched off where the profile has no deviation: a voice
\* of one sentence, or of sentences of one length.  What it keeps quiet about is
\* not lost: a report with no outlier sentence and no distance in the mean and the
\* deviation of the sentences is about a document all of whose sentences are
\* within two deviations of the profile's mean (_outlier_counts, _metric_distances).
SilenceMeansUsual ==
    LET usual == Distribution(SentenceLengths(profile.voice))
        lengths == SentenceLengths(report.document)
    IN report.authorship # "none" /\ report.sentences = {}
           /\ report.distances \cap {"sentence_mean", "sentence_stdev"} = {}
       => \A k \in DOMAIN lengths : ~Far(lengths[k], usual)

=============================================================================
