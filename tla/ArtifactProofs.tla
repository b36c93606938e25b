--------------------------- MODULE ArtifactProofs ---------------------------
(***************************************************************************)
(* What is proved of the commands that make something for the user: style  *)
(* profiles, context capsules, public artifacts and vault notes.  Each of  *)
(* the four is a module of its own with a specification of its own.        *)
(***************************************************************************)
EXTENDS StyleProfile, ContextCapsules, ExportAudit, ObsidianProjection,
        RecursionLemmas

-----------------------------------------------------------------------------
(* StyleProfile: the voice text *)

JoinStep(text, part) ==
    IF part = <<>> THEN text
    ELSE IF text = <<>> THEN part
    ELSE [text EXCEPT ![Len(text)].gap = "blank line"] \o part

LEMMA JoinStepTyped ==
    ASSUME NEW text \in TextIn, NEW part \in TextIn
    PROVE  JoinStep(text, part) \in TextIn
<1> DEFINE closed == [text EXCEPT ![Len(text)].gap = "blank line"]
<1>1. ASSUME text # <<>> PROVE closed \in TextIn
  <2>1. Len(text) \in 1 .. Len(text) /\ text[Len(text)] \in Tokens
    BY <1>1 DEF TextIn
  <2>2. [text[Len(text)] EXCEPT !.gap = "blank line"] \in Tokens
    BY <2>1 DEF Tokens, Gaps
  <2>3. closed = [text EXCEPT ![Len(text)] = [text[Len(text)] EXCEPT !.gap = "blank line"]]
    OBVIOUS
  <2>4. PICK last \in Tokens : closed = [text EXCEPT ![Len(text)] = last]
    BY <2>2, <2>3
  <2> HIDE DEF closed
  <2> QED
    BY <2>1, <2>4 DEF TextIn
<1> HIDE DEF closed
<1>2. text # <<>> => closed \o part \in TextIn
  BY <1>1 DEF TextIn
<1> QED
  BY <1>2 DEF JoinStep, closed

LEMMA JoinTyped ==
    ASSUME NEW parts \in Seq(TextIn)
    PROVE  Join(parts) \in TextIn
<1> DEFINE N == Len(parts)
           IsJoin(f) ==
               f = [s \in SUBSET (1 .. N) |->
                       IF s = {} THEN <<>>
                       ELSE JoinStep(f[s \ {LastOf(s)}], parts[LastOf(s)])]
           join == CHOOSE f : IsJoin(f)
<1>1. N \in Nat /\ DOMAIN parts = 1 .. N /\ \A n \in 1 .. N : parts[n] \in TextIn
  OBVIOUS
<1>2. Join(parts) = join[1 .. N]
  BY <1>1 DEF Join, FoldLeft, MapThenFoldSet, Max, LastOf, JoinStep
<1>3. <<>> \in TextIn
  BY DEF TextIn
<1>4. \E f : IsJoin(f)
  <2> DEFINE step == [c \in TextIn \X (1 .. N) |-> JoinStep(c[1], parts[c[2]])]
  <2>1. step \in [TextIn \X (1 .. N) -> TextIn]
    BY <1>1, JoinStepTyped
  <2> HIDE DEF step, N
  <2>2. PICK f : FoldsPrefixes(f, TextIn, N, <<>>, step)
    BY <1>1, <1>3, <2>1, PrefixFold
  <2>3. f = [s \in SUBSET (1 .. N) |-> f[s]] /\ f[{}] = <<>>
    BY <2>2 DEF FoldsPrefixes
  <2>4. \A s \in SUBSET (1 .. N) : s # {} =>
           f[s] = JoinStep(f[s \ {LastOf(s)}], parts[LastOf(s)])
    BY <2>2 DEF step, FoldsPrefixes
  <2>5. IsJoin(f)
    BY <2>3, <2>4
  <2> HIDE DEF IsJoin
  <2> QED
    BY <2>5
<1>5. IsJoin(join)
  <2> HIDE DEF IsJoin
  <2> QED
    BY <1>4
<1>6. \A s \in SUBSET (1 .. N) :
         join[s] = IF s = {} THEN <<>>
                   ELSE JoinStep(join[s \ {LastOf(s)}], parts[LastOf(s)])
  BY <1>5
<1> HIDE DEF join, N
<1>7. join[{}] \in TextIn
  BY <1>3, <1>6
<1>8. ASSUME NEW s \in SUBSET (1 .. N), s # {}, LastOf(s) \in 1 .. N,
             join[s \ {LastOf(s)}] \in TextIn
      PROVE  join[s] \in TextIn
  BY <1>1, <1>6, <1>8, JoinStepTyped
<1> QED
  BY <1>1, <1>2, <1>7, <1>8, PrefixInduction

LEMMA VoiceTyped ==
    ASSUME NEW packages \in Seq(Sampled)
    PROVE  VoiceText(packages) \in TextIn /\ Len(VoiceText(packages)) \in Nat
<1>1. ASSUME NEW k \in DOMAIN packages
      PROVE  ApprovedVoiceText(packages[k]) \in TextIn
  <2> DEFINE spans == packages[k].spans
             parts == [s \in DOMAIN spans |->
                          IF Eligible(spans[s]) THEN spans[s].text ELSE <<>>]
  <2>1. packages[k] \in Sampled
    OBVIOUS
  <2>2. spans \in Seq([text : TextIn, class : Classes])
    BY <2>1 DEF Sampled
  <2> HIDE DEF spans
  <2>3. \A s \in DOMAIN spans : spans[s].text \in TextIn
    <3> DEFINE Span == [text : TextIn, class : Classes]
    <3>1. \A s \in Span : s.text \in TextIn
      OBVIOUS
    <3>2. spans \in Seq(Span)
      BY <2>2
    <3> HIDE DEF Span
    <3> QED
      BY <3>1, <3>2
  <2>6. <<>> \in TextIn
    BY DEF TextIn
  <2>4. parts \in Seq(TextIn)
    BY <2>2, <2>3, <2>6
  <2>5. ApprovedVoiceText(packages[k]) = Join(parts)
    BY DEF ApprovedVoiceText, spans
  <2> QED
    BY <2>4, <2>5, JoinTyped
<1> DEFINE parts == [k \in DOMAIN packages |-> ApprovedVoiceText(packages[k])]
<1>2. parts \in Seq(TextIn)
  BY <1>1
<1>3. VoiceText(packages) = Join(parts)
  BY DEF VoiceText
<1> HIDE DEF parts
<1> QED
  BY <1>2, <1>3, JoinTyped DEF TextIn

-----------------------------------------------------------------------------
(* StyleProfile: the coverage *)

\* The open spans of all packages together are none exactly when none has any.
LEMMA OpenSpans ==
    ASSUME NEW packages \in Seq(Sampled), NEW reports,
           reports = [k \in DOMAIN packages |-> CoverageReport(packages[k])]
    PROVE  /\ AggregateCoverage(reports).unresolved \in Nat
           /\ AggregateCoverage(reports).unresolved = 0
                 <=> \A k \in DOMAIN packages : Unresolved(packages[k]) = {}
<1> DEFINE all == DOMAIN packages
           term == [k \in all |-> reports[k].unresolved]
           IsSum(f) ==
               f = [s \in SUBSET all |->
                       IF s = {} THEN 0
                       ELSE LET x == CHOOSE x \in s : TRUE
                            IN reports[x].unresolved + f[s \ {x}]]
           sum == CHOOSE f : IsSum(f)
<1>1. DOMAIN reports = all /\ all = 1 .. Len(packages) /\ IsFiniteSet(all)
  BY FS_Interval
<1>2. ASSUME NEW k \in all
      PROVE  /\ reports[k].unresolved = Cardinality(Unresolved(packages[k]))
             /\ reports[k].unresolved \in Nat
             /\ reports[k].unresolved = 0 <=> Unresolved(packages[k]) = {}
  <2>0. packages[k] \in Sampled
    OBVIOUS
  <2>1. packages[k].spans \in Seq([text : TextIn, class : Classes])
    BY <2>0 DEF Sampled
  <2>2. DOMAIN packages[k].spans = 1 .. Len(packages[k].spans)
        /\ Len(packages[k].spans) \in Nat
    BY <2>1
  <2>3. IsFiniteSet(Unresolved(packages[k]))
    <3>1. Unresolved(packages[k]) \in SUBSET (1 .. Len(packages[k].spans))
      BY <2>2 DEF Unresolved
    <3>2. IsFiniteSet(1 .. Len(packages[k].spans))
      <4> DEFINE n == Len(packages[k].spans)
      <4>1. n \in Nat
        BY <2>2
      <4> HIDE DEF n
      <4>2. IsFiniteSet(1 .. n)
        BY <4>1, FS_Interval
      <4> QED
        BY <4>2 DEF n
    <3> QED
      BY <3>1, <3>2, FS_Subset
  <2>4. reports[k].unresolved = Cardinality(Unresolved(packages[k]))
    BY DEF CoverageReport
  <2> QED
    BY <2>3, <2>4, FS_CardinalityType, FS_EmptySet
<1>3. AggregateCoverage(reports).unresolved = sum[all]
  BY <1>1 DEF AggregateCoverage, MapThenSumSet, MapThenFoldSet
<1>4. term \in [all -> Nat]
  BY <1>2
<1>5. \A f : IsSum(f) <=> Sums(f, all, term)
  <2> SUFFICES ASSUME NEW f PROVE IsSum(f) <=> Sums(f, all, term)
    OBVIOUS
  <2>1. \A s \in SUBSET all : s # {} =>
           LET x == CHOOSE x \in s : TRUE IN reports[x].unresolved = term[x]
    OBVIOUS
  <2>2. [s \in SUBSET all |->
            IF s = {} THEN 0
            ELSE LET x == CHOOSE x \in s : TRUE IN reports[x].unresolved + f[s \ {x}]]
        = [s \in SUBSET all |->
              IF s = {} THEN 0
              ELSE LET x == CHOOSE x \in s : TRUE IN term[x] + f[s \ {x}]]
    <3>1. ASSUME NEW s \in SUBSET all
          PROVE  (IF s = {} THEN 0
                  ELSE LET x == CHOOSE x \in s : TRUE
                       IN reports[x].unresolved + f[s \ {x}])
                 = (IF s = {} THEN 0
                    ELSE LET x == CHOOSE x \in s : TRUE IN term[x] + f[s \ {x}])
      BY <2>1
    <3> HIDE DEF term
    <3> QED
      BY <3>1
  <2> HIDE DEF term
  <2> QED
    BY <2>2 DEF Sums
<1> HIDE DEF IsSum, term, all
<1>6. IsSum(sum)
  <2>1. \E f : IsSum(f)
    BY <1>1, <1>4, <1>5, SumExists
  <2> QED
    BY <2>1
<1>7. sum[all] \in Nat /\ (sum[all] > 0 <=> \E k \in all : term[k] > 0)
  <2> HIDE DEF sum
  <2> QED
    BY <1>1, <1>4, <1>5, <1>6, SumOfNats
<1>8. \A k \in all : term[k] > 0 <=> Unresolved(packages[k]) # {}
  <2> SUFFICES ASSUME NEW k \in all PROVE term[k] > 0 <=> Unresolved(packages[k]) # {}
    OBVIOUS
  <2>1. term[k] = reports[k].unresolved
    BY DEF term
  <2>2. term[k] \in Nat /\ (term[k] = 0 <=> Unresolved(packages[k]) = {})
    BY <1>2, <2>1
  <2> QED
    BY <2>2
<1> QED
  BY <1>3, <1>7, <1>8 DEF all

\* What one package adds, as the aggregate sees it.
LEMMA ReportIs ==
    ASSUME NEW package \in Sampled
    PROVE  LET r == CoverageReport(package)
           IN /\ r.visible <=> package.spans # <<>>
              /\ r.unsupported = package.unsupported
              /\ r.unsupported \in BOOLEAN
              /\ r.sufficiency \in {"sufficient", "insufficient"}
              /\ r.unresolved = Cardinality(Unresolved(package))
              /\ r.status =
                    IF r.unresolved > 0 \/ r.unsupported THEN "human_review_required"
                    ELSE IF r.sufficiency = "sufficient" /\ r.visible
                         THEN "complete" ELSE "partial"
BY DEF CoverageReport, Sufficient, Sampled

\* A profile is complete exactly when it has earned it, and can be read back.
LEMMA BuiltIsEarned ==
    ASSUME NEW packages \in Seq(Sampled)
    PROVE  LET built == BuildProfile(packages)
           IN /\ built.status = "complete" <=>
                     /\ \A k \in DOMAIN packages :
                            /\ Unresolved(packages[k]) = {} /\ packages[k].spans # <<>>
                            /\ ~packages[k].unsupported
                     /\ Len(VoiceText(packages)) >= MinWords
              /\ Loads(built)
              /\ built.status \in {"complete", "partial", "human_review_required"}
<1> DEFINE voice == VoiceText(packages)
           reports == [k \in DOMAIN packages |-> CoverageReport(packages[k])]
           all == AggregateCoverage(reports)
           final == ReconcileSufficiency(all, Len(voice))
           built == BuildProfile(packages)
           enough == Len(voice) >= MinWords
           clean == \A k \in DOMAIN packages :
                       Unresolved(packages[k]) = {} /\ ~packages[k].unsupported
           shown == \A k \in DOMAIN packages : packages[k].spans # <<>>
<1>1. Len(voice) \in Nat /\ MinWords \in Nat
  BY VoiceTyped, ProfileAssumption
<1>2. /\ built.voice = voice /\ built.coverage = final /\ built.status = final.status
      /\ built.packages = packages
  BY DEF BuildProfile
<1>3. DOMAIN reports = DOMAIN packages
      /\ \A k \in DOMAIN packages : reports[k] = CoverageReport(packages[k])
  OBVIOUS
<1>4. \A k \in DOMAIN packages : packages[k] \in Sampled
  OBVIOUS
<1>5. all.unresolved \in Nat
      /\ (all.unresolved = 0 <=> \A k \in DOMAIN packages : Unresolved(packages[k]) = {})
  BY OpenSpans
<1> HIDE DEF reports
<1>6. /\ all.visible <=> shown
      /\ all.unsupported \in BOOLEAN
      /\ all.unsupported <=> \E k \in DOMAIN packages : packages[k].unsupported
  BY <1>3, <1>4, ReportIs DEF AggregateCoverage
<1>7. ~(all.unresolved > 0 \/ all.unsupported) <=> clean
  BY <1>5, <1>6
<1>8. all.sufficiency = IF \E k \in DOMAIN packages : reports[k].sufficiency = "insufficient"
                        THEN "insufficient" ELSE "sufficient"
  BY <1>3 DEF AggregateCoverage
<1>9. all.status =
         IF ~ clean THEN "human_review_required"
         ELSE IF all.sufficiency = "sufficient" /\ shown THEN "complete" ELSE "partial"
  <2>1. all.status =
           IF ~ clean THEN "human_review_required"
           ELSE IF \E k \in DOMAIN packages : reports[k].status = "partial" THEN "partial"
           ELSE IF \A k \in DOMAIN packages : reports[k].status = "complete"
                THEN "complete" ELSE "human_review_required"
    BY <1>3, <1>7 DEF AggregateCoverage
  <2>2. ASSUME clean, NEW k \in DOMAIN packages
        PROVE  reports[k].status =
                  IF reports[k].sufficiency = "sufficient" /\ packages[k].spans # <<>>
                  THEN "complete" ELSE "partial"
    <3>1. Cardinality(Unresolved(packages[k])) = 0
      BY <2>2, FS_EmptySet
    <3> QED
      BY <1>3, <1>4, <2>2, <3>1, ReportIs
  <2>3. \A k \in DOMAIN packages : reports[k].sufficiency \in {"sufficient", "insufficient"}
    BY <1>3, <1>4, ReportIs
  <2> QED
    BY <1>8, <2>1, <2>2, <2>3
<1>10. /\ final.sufficiency = Sufficient(Len(voice))
       /\ final.status = IF ~ clean THEN "human_review_required"
                         ELSE IF enough /\ shown THEN "complete" ELSE "partial"
  <2>1. Sufficient(Len(voice)) = IF enough THEN "sufficient" ELSE "insufficient"
    BY DEF Sufficient
  <2>2. all = [visible |-> all.visible, unresolved |-> all.unresolved,
               unsupported |-> all.unsupported, sufficiency |-> all.sufficiency,
               status |-> all.status]
    BY DEF AggregateCoverage
  <2>3. CASE all.sufficiency = Sufficient(Len(voice))
    <3>1. final = all
      BY <2>3 DEF ReconcileSufficiency
    <3> QED
      BY <1>9, <2>1, <2>3, <3>1
  <2>4. CASE all.sufficiency # Sufficient(Len(voice))
    <3>1. final.sufficiency = Sufficient(Len(voice))
          /\ final.status =
                IF Len(voice) < MinWords
                THEN IF all.status = "complete" THEN "partial" ELSE all.status
                ELSE IF all.unresolved > 0 \/ all.unsupported
                     THEN "human_review_required"
                ELSE IF all.visible THEN "complete" ELSE "partial"
      BY <2>2, <2>4 DEF ReconcileSufficiency
    <3>2. Len(voice) < MinWords <=> ~ enough
      BY <1>1
    <3> HIDE DEF all, enough, clean, shown, final, voice
    <3> QED
      BY <1>6, <1>7, <1>9, <3>1, <3>2
  <2> QED
    BY <2>3, <2>4
<1>11. Loads(built)
  BY <1>2, <1>10 DEF Loads, Sufficient
<1> QED
  BY <1>2, <1>10, <1>11

-----------------------------------------------------------------------------
(* StyleProfile: the commands *)

ProfileInv ==
    /\ samples \in Seq(Sampled)
    /\ profile = NoProfile \/ profile = BuildProfile(samples)
    /\ \/ report = NoReport
       \/ /\ profile = BuildProfile(samples)
          /\ \E text : report = Compare(profile, text)

LEMMA ProfileInitial == ProfileInit => ProfileInv
BY ProfileAssumption DEF ProfileInit, ProfileInv

LEMMA ReviewTyped ==
    ASSUME NEW list \in Seq(Sampled), NEW k \in DOMAIN list,
           NEW s \in DOMAIN list[k].spans, NEW class \in Classes
    PROVE  [list EXCEPT ![k].spans[s].class = class] \in Seq(Sampled)
<1> DEFINE Span == [text : TextIn, class : Classes]
           old == list[k].spans
           span == [old[s] EXCEPT !.class = class]
           spans == [old EXCEPT ![s] = span]
           package == [list[k] EXCEPT !.spans = spans]
<1>1. list[k] \in Sampled
  OBVIOUS
<1>2. old \in Seq(Span)
  BY <1>1 DEF Sampled
<1>3. span \in Span
  <2>1. old[s] \in Span
    <3> HIDE DEF Span, old
    <3>1. s \in DOMAIN old
      BY DEF old
    <3> QED
      BY <1>2, <3>1
  <2> HIDE DEF old
  <2> QED
    BY <2>1
<1>4. spans \in Seq(Span)
  <2> HIDE DEF Span, span
  <2> QED
    BY <1>2, <1>3
<1>5. package \in Sampled
  <2> HIDE DEF spans
  <2> QED
    BY <1>1, <1>4 DEF Sampled
<1>6. [list EXCEPT ![k].spans[s].class = class] = [list EXCEPT ![k] = package]
  OBVIOUS
<1> HIDE DEF package
<1>7. [list EXCEPT ![k] = package] \in Seq(Sampled)
  BY <1>5
<1> QED
  BY <1>6, <1>7

LEMMA ProfileStep == ProfileInv /\ [ProfileNext]_profileVars => ProfileInv'
<1> SUFFICES ASSUME ProfileInv, [ProfileNext]_profileVars PROVE ProfileInv'
  OBVIOUS
<1>1. ASSUME NEW k \in DOMAIN samples, NEW s \in DOMAIN samples[k].spans,
             NEW class \in Classes \ {"unknown"}, Review(k, s, class)
      PROVE  ProfileInv'
  <2>1. samples' = [samples EXCEPT ![k].spans[s].class = class]
        /\ profile' = NoProfile /\ report' = NoReport
    BY <1>1 DEF Review
  <2>2. samples' \in Seq(Sampled)
    BY <2>1, ReviewTyped DEF ProfileInv
  <2> QED
    BY <2>1, <2>2 DEF ProfileInv
<1>2. CASE ShowProfile
  BY <1>2 DEF ShowProfile, ProfileInv
<1>3. ASSUME NEW text, CompareDocument(text) PROVE ProfileInv'
  BY <1>3 DEF CompareDocument, ProfileInv
<1>4. CASE UNCHANGED profileVars
  BY <1>4 DEF profileVars, ProfileInv
<1> QED
  BY <1>1, <1>2, <1>3, <1>4 DEF ProfileNext

\* A profile is built from the packages as they are reviewed, a report from the
\* profile: nothing older is shown.
THEOREM ProfileInvHolds == ProfileSpec => []ProfileInv
BY ProfileInitial, ProfileStep, PTL DEF ProfileSpec

\* A profile counts as complete exactly when every package earned it, and what
\* is built can be read back (build_profile, profile_from_json).
THEOREM ProfilesAreEarned == ProfileSpec => []CompleteIsEarned
<1>1. ProfileInv => CompleteIsEarned
  BY BuiltIsEarned DEF ProfileInv, CompleteIsEarned
<1> QED
  BY <1>1, ProfileInvHolds, PTL

-----------------------------------------------------------------------------
(* ContextCapsules: the lists of a capsule *)

\* What is kept of a list are elements of the list.
LEMMA KeepTyped ==
    ASSUME NEW T, NEW list \in Seq(T), NEW at
    PROVE  Keep(list, at) \in Seq(T)
<1> DEFINE N == Len(list)
           Add(kept, n) == IF n \in at THEN Append(kept, list[n]) ELSE kept
           IsKeep(f) ==
               f = [s \in SUBSET (1 .. N) |->
                       IF s = {} THEN <<>>
                       ELSE Add(f[s \ {LastOf(s)}], LastOf(s))]
           keep == CHOOSE f : IsKeep(f)
           step == [c \in Seq(T) \X (1 .. N) |-> Add(c[1], c[2])]
           places == [i \in DOMAIN list |-> i]
<1>1. N \in Nat /\ DOMAIN list = 1 .. N /\ \A n \in 1 .. N : list[n] \in T
  OBVIOUS
<1>2. <<>> \in Seq(T) /\ \A kept \in Seq(T), n \in 1 .. N : Add(kept, n) \in Seq(T)
  OBVIOUS
<1>3. Keep(list, at) = keep[1 .. N]
  <2>1. DOMAIN places = 1 .. N /\ \A n \in 1 .. N : places[n] = n
    BY <1>1
  <2>2. \A s \in SUBSET (1 .. N) : s # {} => LastOf(s) \in 1 .. N
    BY <1>1, LastOfPart
  <2> DEFINE Raw(f) ==
                 f = [s \in SUBSET (1 .. N) |->
                         IF s = {} THEN <<>>
                         ELSE Add(f[s \ {LastOf(s)}], places[LastOf(s)])]
             raw == CHOOSE f : Raw(f)
  <2>3. Keep(list, at) = raw[1 .. N]
    <3> HIDE DEF N
    <3> QED
      BY <1>1, <2>1 DEF Keep, FoldLeftDomain, FoldLeft, MapThenFoldSet, Max, LastOf
  <2>4. ASSUME NEW f PROVE Raw(f) <=> IsKeep(f)
    <3>1. \A s \in SUBSET (1 .. N) : s # {} =>
             Add(f[s \ {LastOf(s)}], places[LastOf(s)])
                = Add(f[s \ {LastOf(s)}], LastOf(s))
      BY <2>1, <2>2
    <3> HIDE DEF Add, places, N
    <3>2. [s \in SUBSET (1 .. N) |->
              IF s = {} THEN <<>> ELSE Add(f[s \ {LastOf(s)}], places[LastOf(s)])]
          = [s \in SUBSET (1 .. N) |->
                IF s = {} THEN <<>> ELSE Add(f[s \ {LastOf(s)}], LastOf(s))]
      BY <3>1
    <3> QED
      BY <3>2
  <2> HIDE DEF Raw, IsKeep
  <2> QED
    BY <2>3, <2>4
<1> HIDE DEF Add, N
<1>4. \E f : IsKeep(f)
  <2>1. step \in [Seq(T) \X (1 .. N) -> Seq(T)]
    BY <1>2
  <2> HIDE DEF step
  <2>2. PICK f : FoldsPrefixes(f, Seq(T), N, <<>>, step)
    BY <1>1, <1>2, <2>1, PrefixFold
  <2>3. f = [s \in SUBSET (1 .. N) |-> f[s]] /\ f[{}] = <<>>
    BY <2>2 DEF FoldsPrefixes
  <2>4. \A s \in SUBSET (1 .. N) : s # {} =>
           f[s] = Add(f[s \ {LastOf(s)}], LastOf(s))
    BY <2>2 DEF step, FoldsPrefixes
  <2>5. IsKeep(f)
    BY <2>3, <2>4
  <2> HIDE DEF IsKeep
  <2> QED
    BY <2>5
<1>5. IsKeep(keep)
  <2> HIDE DEF IsKeep
  <2> QED
    BY <1>4
<1>6. \A s \in SUBSET (1 .. N) :
         keep[s] = IF s = {} THEN <<>> ELSE Add(keep[s \ {LastOf(s)}], LastOf(s))
  BY <1>5
<1> HIDE DEF keep, IsKeep
<1>7. keep[{}] \in Seq(T)
  BY <1>2, <1>6
<1>8. ASSUME NEW s \in SUBSET (1 .. N), s # {}, LastOf(s) \in 1 .. N,
             keep[s \ {LastOf(s)}] \in Seq(T)
      PROVE  keep[s] \in Seq(T)
  BY <1>2, <1>6, <1>8
<1> QED
  BY <1>1, <1>3, <1>7, <1>8, PrefixInduction

LEMMA ClaimsTyped ==
    ASSUME NEW package \in Packages
    PROVE  /\ ClaimsOf(package) \in
                 Seq([kind : SpanKinds, text : STRING, name : STRING,
                      excluded : BOOLEAN])
           /\ package.spans \in
                 Seq([kind : SpanKinds, text : STRING, name : STRING,
                      excluded : BOOLEAN])
           /\ package.authors \in Seq(STRING)
BY KeepTyped, CapsuleAssumption DEF ClaimsOf

LEMMA EntitiesTyped ==
    ASSUME NEW package \in Packages
    PROVE  EntitiesOf(package) \in Seq(STRING)
<1> DEFINE claims == ClaimsOf(package)
           names == [c \in DOMAIN claims |-> claims[c].name] \o package.authors
           N == Len(names)
           Add(known, name) ==
               IF name = "" \/ Contains(known, name) THEN known
               ELSE Append(known, name)
           IsFold(f) ==
               f = [s \in SUBSET (1 .. N) |->
                       IF s = {} THEN <<>>
                       ELSE Add(f[s \ {LastOf(s)}], names[LastOf(s)])]
           fold == CHOOSE f : IsFold(f)
           step == [c \in Seq(STRING) \X (1 .. N) |-> Add(c[1], names[c[2]])]
<1>1. names \in Seq(STRING)
  <2> DEFINE Span == [kind : SpanKinds, text : STRING, name : STRING,
                      excluded : BOOLEAN]
  <2>1. claims \in Seq(Span) /\ package.authors \in Seq(STRING)
    BY ClaimsTyped
  <2>2. \A s \in Span : s.name \in STRING
    OBVIOUS
  <2> HIDE DEF Span, claims
  <2>3. [c \in DOMAIN claims |-> claims[c].name] \in Seq(STRING)
    BY <2>1, <2>2
  <2> QED
    BY <2>1, <2>3
<1>2. EntitiesOf(package) = fold[1 .. N]
  <2>1. EntitiesOf(package) = FoldLeft(Add, <<>>, names)
    BY DEF EntitiesOf
  <2>2. DOMAIN names = 1 .. N
    BY <1>1
  <2> HIDE DEF names, N
  <2> QED
    BY <2>1, <2>2 DEF FoldLeft, MapThenFoldSet, Max, LastOf
<1> HIDE DEF names
<1>3. N \in Nat /\ \A n \in 1 .. N : names[n] \in STRING
  BY <1>1
<1>4. <<>> \in Seq(STRING)
      /\ \A known \in Seq(STRING), name \in STRING : Add(known, name) \in Seq(STRING)
  <2>1. \A known \in Seq(STRING), name \in STRING :
           Add(known, name) = known \/ Add(known, name) = Append(known, name)
    <3> HIDE DEF names
    <3> QED
      OBVIOUS
  <2> HIDE DEF Add
  <2>2. \A known \in Seq(STRING), name \in STRING : Append(known, name) \in Seq(STRING)
    BY AppendTyped
  <2>3. <<>> \in Seq(STRING)
    OBVIOUS
  <2> QED
    BY <2>1, <2>2, <2>3
<1> HIDE DEF Add, N
<1>5. \E f : IsFold(f)
  <2>1. step \in [Seq(STRING) \X (1 .. N) -> Seq(STRING)]
    BY <1>3, <1>4
  <2> HIDE DEF step
  <2>2. PICK f : FoldsPrefixes(f, Seq(STRING), N, <<>>, step)
    BY <1>3, <1>4, <2>1, PrefixFold
  <2>3. f = [s \in SUBSET (1 .. N) |-> f[s]] /\ f[{}] = <<>>
    BY <2>2 DEF FoldsPrefixes
  <2>4. \A s \in SUBSET (1 .. N) : s # {} =>
           f[s] = Add(f[s \ {LastOf(s)}], names[LastOf(s)])
    BY <2>2 DEF step, FoldsPrefixes
  <2>5. IsFold(f)
    BY <2>3, <2>4
  <2> HIDE DEF IsFold
  <2> QED
    BY <2>5
<1>6. IsFold(fold)
  <2> HIDE DEF IsFold
  <2> QED
    BY <1>5
<1>7. \A s \in SUBSET (1 .. N) :
         fold[s] = IF s = {} THEN <<>>
                   ELSE Add(fold[s \ {LastOf(s)}], names[LastOf(s)])
  BY <1>6
<1> HIDE DEF fold, IsFold
<1>8. fold[{}] \in Seq(STRING)
  BY <1>4, <1>7
<1>9. ASSUME NEW s \in SUBSET (1 .. N), s # {}, LastOf(s) \in 1 .. N,
             fold[s \ {LastOf(s)}] \in Seq(STRING)
      PROVE  fold[s] \in Seq(STRING)
  BY <1>3, <1>4, <1>7, <1>9
<1> QED
  BY <1>2, <1>3, <1>8, <1>9, PrefixInduction

LEMMA CutShort ==
    ASSUME NEW T, NEW list \in Seq(T)
    PROVE  Len(Cut(list)) <= MaxListed
BY CapsuleAssumption DEF Cut

LEMMA AdjacentShort ==
    ASSUME NEW package \in Packages, NEW block
    PROVE  /\ Adjacent(package.nodes, block) \in Seq(Int)
           /\ Len(Adjacent(package.nodes, block)) <= 2 * BlockWindow
<1> DEFINE nodes == package.nodes
           before == Bearing(nodes, 1 .. block - 1)
           after == Bearing(nodes, block + 1 .. Len(nodes))
           from == IF Len(before) > BlockWindow THEN Len(before) - BlockWindow + 1 ELSE 1
           to == IF Len(after) < BlockWindow THEN Len(after) ELSE BlockWindow
<1>1. nodes \in Seq([type : NodeTypes, text : STRING, assisted : BOOLEAN])
      /\ BlockWindow \in Nat \ {0}
  BY CapsuleAssumption
<1>2. [n \in DOMAIN nodes |-> n] \in Seq(Int)
  BY <1>1
<1>3. before \in Seq(Int) /\ after \in Seq(Int)
  BY <1>2, KeepTyped DEF Bearing
<1>4. Adjacent(nodes, block)
         = SubSeq(before, from, Len(before)) \o SubSeq(after, 1, to)
  BY DEF Adjacent
<1> HIDE DEF before, after, nodes
<1>5. /\ SubSeq(before, from, Len(before)) \in Seq(Int)
      /\ Len(SubSeq(before, from, Len(before))) <= BlockWindow
  BY <1>1, <1>3
<1>6. SubSeq(after, 1, to) \in Seq(Int) /\ Len(SubSeq(after, 1, to)) <= BlockWindow
  BY <1>1, <1>3
<1> HIDE DEF from, to
<1> QED
  BY <1>1, <1>4, <1>5, <1>6 DEF nodes

\* What preview cuts is within what validate allows.
LEMMA PayloadWithinPolicy ==
    ASSUME NEW package \in Packages, NEW block, NEW revision
    PROVE  WithinPolicy(Payload(package, block, revision))
<1> DEFINE payload == Payload(package, block, revision)
           near == Adjacent(package.nodes, block)
           Span == [kind : SpanKinds, text : STRING, name : STRING,
                    excluded : BOOLEAN]
<1>1. /\ payload.adjacent = [k \in DOMAIN near |-> package.nodes[near[k]].text]
      /\ payload.claims = Cut(ClaimsOf(package))
      /\ payload.spans = Cut(package.spans)
      /\ payload.entities = Cut(EntitiesOf(package))
  BY DEF Payload
<1>2. Len(payload.adjacent) <= 2 * BlockWindow
  <2>1. near \in Seq(Int) /\ Len(near) <= 2 * BlockWindow
    BY AdjacentShort
  <2> HIDE DEF near, payload
  <2>2. Len(payload.adjacent) = Len(near)
    BY <1>1, <2>1
  <2> QED
    BY <2>1, <2>2
<1>3. Len(payload.claims) <= MaxListed /\ Len(payload.spans) <= MaxListed
  BY <1>1, ClaimsTyped, CutShort
<1>4. Len(payload.entities) <= MaxListed
  BY <1>1, EntitiesTyped, CutShort
<1> QED
  BY <1>2, <1>3, <1>4 DEF WithinPolicy

-----------------------------------------------------------------------------
(* ContextCapsules: the commands *)

CapsuleInv ==
    /\ capsule = [id |-> printed.id, payload |-> capsule.payload]
    /\ printed = [id |-> printed.id, payload |-> printed.payload]
    /\ printed = NoCapsule => capsule = NoCapsule
    /\ printed # NoCapsule =>
           printed.id = printed.payload /\ WithinPolicy(printed.payload)
    /\ PrintedValidates

LEMMA CapsuleInitial == CapsuleInit => CapsuleInv
BY DEF CapsuleInit, CapsuleInv, NoCapsule, PrintedValidates

LEMMA CapsuleStep == CapsuleInv /\ [CapsuleNext]_capsuleVars => CapsuleInv'
<1> SUFFICES ASSUME CapsuleInv, [CapsuleNext]_capsuleVars PROVE CapsuleInv'
  OBVIOUS
<1>1. ASSUME NEW id \in Ids, NewRevision(id) PROVE CapsuleInv'
  BY <1>1 DEF NewRevision, CapsuleInv, NoCapsule, PrintedValidates
<1>2. ASSUME NEW package \in Packages, NEW block, Preview(package, block)
      PROVE  CapsuleInv'
  <2> DEFINE payload == Payload(package, block, ingested[package.id])
             made == [id |-> Digest(payload), payload |-> payload]
  <2>1. CASE capsule' = made /\ printed' = made /\ verdict' = "printed"
    <3>1. made.id = payload /\ made.payload = payload
          /\ made = [id |-> payload, payload |-> payload]
      BY DEF Digest
    <3>2. WithinPolicy(payload)
      BY PayloadWithinPolicy
    <3> HIDE DEF made, payload
    <3> QED
      BY <2>1, <3>1, <3>2 DEF CapsuleInv, NoCapsule, PrintedValidates, WithinPolicy
  <2>2. CASE verdict' = "refused" /\ UNCHANGED <<ingested, capsule, printed>>
    BY <2>2 DEF CapsuleInv, NoCapsule, PrintedValidates, WithinPolicy
  <2> QED
    BY <1>2, <2>1, <2>2 DEF Preview
<1>3. CASE EditFile
  <2>1. /\ capsule # NoCapsule /\ printed' = printed /\ verdict' = "none"
        /\ \E payload : capsule' = [capsule EXCEPT !.payload = payload]
    BY <1>3 DEF EditFile
  <2>2. capsule' = [id |-> printed.id, payload |-> capsule'.payload]
    BY <2>1 DEF CapsuleInv
  <2> QED
    BY <2>1, <2>2 DEF CapsuleInv, NoCapsule, PrintedValidates, WithinPolicy
<1>4. CASE Validate
  <2>1. /\ printed # NoCapsule /\ printed' = printed /\ capsule' = capsule
        /\ verdict' \in {"malformed", "valid", "invalid"}
        /\ verdict' = "valid" <=> Intact(capsule) /\ WithinPolicy(capsule.payload)
    BY <1>4 DEF Validate, CapsuleInv
  <2>2. Intact(capsule) <=> capsule = printed
    BY <2>1 DEF Intact, Digest, CapsuleInv
  <2>3. PrintedValidates'
    BY <2>1, <2>2 DEF PrintedValidates, CapsuleInv
  <2> QED
    BY <2>1, <2>3 DEF CapsuleInv, NoCapsule, WithinPolicy
<1>5. CASE UNCHANGED capsuleVars
  BY <1>5 DEF capsuleVars, CapsuleInv, NoCapsule, PrintedValidates, WithinPolicy
<1> QED
  BY <1>1, <1>2, <1>3, <1>4, <1>5 DEF CapsuleNext

\* The inductive invariant of the capsules: the id that was printed is the digest
\* of a payload within the limits, and the file has that id.
THEOREM CapsuleInvHolds == CapsuleSpec => []CapsuleInv
BY CapsuleInitial, CapsuleStep, PTL DEF CapsuleSpec

\* A capsule file validates exactly when it still is the capsule that preview
\* printed (build_context_capsule, capsule_from_json, validate_capsule).
THEOREM PrintedIsValid == CapsuleSpec => []PrintedValidates
<1>1. CapsuleInv => PrintedValidates
  BY DEF CapsuleInv
<1> QED
  BY <1>1, CapsuleInvHolds, PTL

-----------------------------------------------------------------------------
(* ExportAudit: the search for the sections *)

\* Where the search for the sections stands, section after section.
Found(lines, sections, at) ==
    /\ MissingSections(lines, sections) =
          {k \in 1 .. Len(sections) :
              {i \in at[k - 1] + 1 .. Len(lines) : Within(sections[k], lines[i])} = {}}
    /\ at[0] = 0
    /\ \A k \in 1 .. Len(sections) :
          LET behind == {i \in at[k - 1] + 1 .. Len(lines) : Within(sections[k], lines[i])}
          IN /\ at[k - 1] \in Nat /\ at[k] \in Nat
             /\ behind = {} => at[k] = at[k - 1]
             /\ behind # {} => at[k] \in behind /\ \A i \in behind : at[k] <= i

LEMMA SearchFinds ==
    ASSUME NEW T, NEW lines \in Seq(T), NEW sections \in Seq(T)
    PROVE  \E at : Found(lines, sections, at)
<1> DEFINE N == Len(sections)
           Behind(from, text) == {i \in from + 1 .. Len(lines) : Within(text, lines[i])}
           First(S) == CHOOSE i \in S : \A j \in S : i <= j
           Next1(from, text) == IF Behind(from, text) = {} THEN from
                                ELSE First(Behind(from, text))
           IsAt(f) == f = [k \in 0 .. N |->
                              IF k = 0 THEN 0
                              ELSE IF Behind(f[k - 1], sections[k]) = {} THEN f[k - 1]
                              ELSE First(Behind(f[k - 1], sections[k]))]
           at == CHOOSE f : IsAt(f)
           step == [c \in Nat \X (1 .. N) |-> Next1(c[1], sections[c[2]])]
<1>1. N \in Nat /\ DOMAIN sections = 1 .. N /\ Len(lines) \in Nat
  OBVIOUS
<1>2. MissingSections(lines, sections)
         = {k \in 1 .. N : Behind(at[k - 1], sections[k]) = {}}
  BY <1>1 DEF MissingSections
<1>3. ASSUME NEW from \in Nat, NEW text
      PROVE  /\ Next1(from, text) \in Nat
             /\ Behind(from, text) # {} =>
                   /\ Next1(from, text) \in Behind(from, text)
                   /\ \A i \in Behind(from, text) : Next1(from, text) <= i
  <2>1. CASE Behind(from, text) = {}
    BY <2>1
  <2>2. CASE Behind(from, text) # {}
    <3>1. Behind(from, text) \in SUBSET Nat
      BY <1>1
    <3> HIDE DEF Behind
    <3>2. \E i \in Behind(from, text) : \A j \in Behind(from, text) : i <= j
      BY <2>2, <3>1, LeastElement
    <3> QED
      BY <2>2, <3>1, <3>2
  <2> QED
    BY <2>1, <2>2
<1>4. \E f : IsAt(f)
  <2>1. step \in [Nat \X (1 .. N) -> Nat]
    <3> HIDE DEF Next1, N
    <3> QED
      BY <1>3
  <2> HIDE DEF step
  <2>2. PICK f : Recurses(f, Nat, N, 0, step)
    <3>1. 0 \in Nat
      OBVIOUS
    <3> HIDE DEF N
    <3> QED
      BY <1>1, <2>1, <3>1, FiniteRecursion
  <2>3. \A k \in 1 .. N : f[k] = Next1(f[k - 1], sections[k])
    <3> SUFFICES ASSUME NEW k \in 1 .. N PROVE f[k] = Next1(f[k - 1], sections[k])
      OBVIOUS
    <3>1. <<f[k - 1], k>> \in Nat \X (1 .. N)
      BY <2>2 DEF Recurses
    <3> HIDE DEF Next1, N
    <3> QED
      BY <2>2, <3>1 DEF step, Recurses
  <2>4. IsAt(f)
    <3> HIDE DEF Behind, First, N
    <3>1. f = [k \in 0 .. N |-> f[k]] /\ f[0] = 0
      BY <2>2 DEF Recurses
    <3>2. \A k \in 0 .. N : k # 0 => k \in 1 .. N
      BY <1>1
    <3> QED
      BY <2>3, <3>1, <3>2
  <2> HIDE DEF IsAt
  <2> QED
    BY <2>4
<1>5. IsAt(at)
  <2> HIDE DEF IsAt
  <2> QED
    BY <1>4
<1>6. at[0] = 0 /\ \A k \in 1 .. N : at[k] = Next1(at[k - 1], sections[k])
  <2> HIDE DEF Behind, First, at
  <2>1. 0 \in 0 .. N /\ \A k \in 1 .. N : k \in 0 .. N /\ k # 0
    BY <1>1
  <2> QED
    BY <1>5, <2>1
<1> HIDE DEF at, IsAt, N
<1>7. \A k \in 0 .. N : at[k] \in Nat
  <2> DEFINE S == {k \in 0 .. N : at[k] \in Nat}
  <2>1. 0 \in S
    BY <1>1, <1>6
  <2>2. ASSUME NEW k \in 0 .. N - 1, k \in S PROVE k + 1 \in S
    <3> DEFINE m == k + 1
    <3>1. m \in 1 .. N /\ m \in 0 .. N /\ m - 1 = k
      BY <1>1
    <3> HIDE DEF m, Next1
    <3>2. at[m] \in Nat
      BY <1>3, <1>6, <2>2, <3>1
    <3> QED
      BY <3>1, <3>2 DEF m
  <2> HIDE DEF S
  <2>3. 0 .. N \subseteq S
    BY <1>1, <2>1, <2>2, BoundedInduction
  <2> QED
    BY <2>3 DEF S
<1>8. \A k \in 1 .. N : k \in 0 .. N /\ k - 1 \in 0 .. N
  BY <1>1
<1>9. ASSUME NEW k \in 1 .. N
      PROVE  /\ at[k - 1] \in Nat /\ at[k] \in Nat
             /\ Behind(at[k - 1], sections[k]) = {} => at[k] = at[k - 1]
             /\ Behind(at[k - 1], sections[k]) # {} =>
                   /\ at[k] \in Behind(at[k - 1], sections[k])
                   /\ \A i \in Behind(at[k - 1], sections[k]) : at[k] <= i
  <2>1. at[k - 1] \in Nat /\ at[k] \in Nat
    BY <1>7, <1>8
  <2>2. at[k] = Next1(at[k - 1], sections[k])
    BY <1>6
  <2>3. Behind(at[k - 1], sections[k]) = {} => at[k] = at[k - 1]
    BY <2>2
  <2> HIDE DEF Next1, Behind
  <2> QED
    BY <1>3, <2>1, <2>2, <2>3
<1>10. Found(lines, sections, at)
  BY <1>2, <1>6, <1>9 DEF Found, N
<1> QED
  BY <1>10

\* Sections that stand in the lines, one behind the other.
Stand(sections, lines) ==
    \E at \in [DOMAIN sections -> DOMAIN lines] :
       /\ \A i, j \in DOMAIN sections : i < j => at[i] < at[j]
       /\ \A i \in DOMAIN sections : Within(sections[i], lines[at[i]])

LEMMA NoneMissing ==
    ASSUME NEW T, NEW lines \in Seq(T), NEW sections \in Seq(T),
           MissingSections(lines, sections) = {}
    PROVE  Stand(sections, lines)
<1> DEFINE N == Len(sections)
<1>1. N \in Nat /\ DOMAIN sections = 1 .. N /\ DOMAIN lines = 1 .. Len(lines)
      /\ Len(lines) \in Nat
  OBVIOUS
<1>2. PICK f : Found(lines, sections, f)
  BY SearchFinds
<1>9. \A k \in 1 .. N :
         {i \in f[k - 1] + 1 .. Len(lines) : Within(sections[k], lines[i])} # {}
  BY <1>2 DEF Found
<1> HIDE DEF N
<1>3. \A k \in 1 .. N : /\ f[k - 1] \in Nat /\ f[k] \in Nat /\ f[k - 1] < f[k]
                        /\ f[k] \in DOMAIN lines /\ Within(sections[k], lines[f[k]])
  <2> SUFFICES ASSUME NEW k \in 1 .. N
               PROVE  /\ f[k - 1] \in Nat /\ f[k] \in Nat /\ f[k - 1] < f[k]
                      /\ f[k] \in DOMAIN lines /\ Within(sections[k], lines[f[k]])
    OBVIOUS
  <2> DEFINE behind == {i \in f[k - 1] + 1 .. Len(lines) : Within(sections[k], lines[i])}
  <2>1. f[k - 1] \in Nat /\ f[k] \in Nat /\ f[k] \in behind
    BY <1>2, <1>9 DEF Found, N
  <2> QED
    BY <1>1, <2>1
<1>4. \A j \in 0 .. N : \A i \in 1 .. N : i < j => f[i] < f[j]
  <2> DEFINE S == {j \in 0 .. N : \A i \in 1 .. N : i < j => f[i] < f[j]}
  <2>1. 0 \in S
    BY <1>1
  <2>2. ASSUME NEW j \in 0 .. N - 1, j \in S PROVE j + 1 \in S
    <3> DEFINE m == j + 1
    <3>1. m \in 1 .. N /\ m \in 0 .. N /\ m - 1 = j
      BY <1>1
    <3>2. \A i \in 1 .. N : i < m => i = j \/ i < j
      BY <1>1
    <3> HIDE DEF m
    <3>3. f[j] < f[m] /\ f[j] \in Nat /\ f[m] \in Nat
      BY <1>3, <3>1
    <3>4. ASSUME NEW i \in 1 .. N, i < m PROVE f[i] < f[m]
      <4>1. i = j \/ f[i] < f[j]
        BY <2>2, <3>2, <3>4
      <4>2. f[i] \in Nat
        BY <1>3
      <4> QED
        BY <3>3, <4>1, <4>2
    <3> QED
      BY <3>1, <3>4 DEF m
  <2> HIDE DEF S
  <2>3. 0 .. N \subseteq S
    BY <1>1, <2>1, <2>2, BoundedInduction
  <2> QED
    BY <2>3 DEF S
<1>5. 1 .. N \subseteq 0 .. N
  BY <1>1
<1> DEFINE at == [k \in DOMAIN sections |-> f[k]]
<1>6. at \in [DOMAIN sections -> DOMAIN lines]
  BY <1>1, <1>3
<1>7. \A i, j \in DOMAIN sections : i < j => at[i] < at[j]
  BY <1>1, <1>4, <1>5
<1>8. \A i \in DOMAIN sections : Within(sections[i], lines[at[i]])
  BY <1>1, <1>3
<1> HIDE DEF at
<1> QED
  BY <1>6, <1>7, <1>8 DEF Stand

\* Sections that end the lines, one after the other, are all found.
LEMMA LastSectionsFound ==
    ASSUME NEW T, NEW lines \in Seq(T), NEW sections \in Seq(T), NEW head \in Nat,
           Len(lines) = head + Len(sections),
           \A k \in 1 .. Len(sections) : lines[head + k] = sections[k]
    PROVE  MissingSections(lines, sections) = {}
<1> DEFINE N == Len(sections)
           Behind(from, k) == {i \in from + 1 .. Len(lines) : Within(sections[k], lines[i])}
<1>1. N \in Nat
  OBVIOUS
<1>2. PICK at : Found(lines, sections, at)
  BY SearchFinds
<1>3. /\ MissingSections(lines, sections) = {k \in 1 .. N : Behind(at[k - 1], k) = {}}
      /\ at[0] = 0
      /\ \A k \in 1 .. N : at[k - 1] \in Nat /\ at[k] \in Nat
      /\ \A k \in 1 .. N : \A i \in Behind(at[k - 1], k) : at[k] <= i
  BY <1>2 DEF Found
<1>4. ASSUME NEW k \in 1 .. N, at[k - 1] <= head + (k - 1)
      PROVE  head + k \in Behind(at[k - 1], k)
  BY <1>1, <1>3, <1>4 DEF Within
<1> HIDE DEF Behind, N
<1>5. \A k \in 0 .. N : at[k] <= head + k
  <2> DEFINE S == {k \in 0 .. N : at[k] <= head + k}
  <2>1. 0 \in S
    BY <1>1, <1>3
  <2>2. ASSUME NEW k \in 0 .. N - 1, k \in S PROVE k + 1 \in S
    <3> DEFINE m == k + 1
    <3>1. m \in 1 .. N /\ m \in 0 .. N /\ m - 1 = k
      BY <1>1
    <3> HIDE DEF m
    <3>2. at[m] <= head + m
      BY <1>3, <1>4, <2>2, <3>1
    <3> QED
      BY <3>1, <3>2 DEF m
  <2> HIDE DEF S
  <2>3. 0 .. N \subseteq S
    BY <1>1, <2>1, <2>2, BoundedInduction
  <2> QED
    BY <2>3 DEF S
<1>6. \A k \in 1 .. N : k - 1 \in 0 .. N
  BY <1>1
<1>7. \A k \in 1 .. N : Behind(at[k - 1], k) # {}
  BY <1>4, <1>5, <1>6
<1> QED
  BY <1>3, <1>7

-----------------------------------------------------------------------------
(* ExportAudit: what the auditors find *)

Line == Texts \cup {"broken", "missing"}

AuditFindings(format, file, d) ==
    ArtifactFindings(format, file) \cup ContentFindings(format, file, d)

LEMMA DocumentTyped ==
    ASSUME NEW d \in Documents
    PROVE  /\ d.title \in Texts
           /\ d.sections \in Seq(Texts) /\ d.sections \in Seq(Line)
           /\ Shown(d) \in Seq(Texts) /\ Shown(d) \in Seq(Line)
<1>1. d.title \in Texts /\ d.sections \in Seq(Texts)
  BY ExportAssumption
<1>2. Texts \subseteq Line
  BY DEF Line
<1>3. Shown(d) \in Seq(Texts)
  BY <1>1 DEF Shown
<1> QED
  BY <1>1, <1>2, <1>3

\* What is shown of a document: its sections last, and a title that is not blank
\* in front of them.
LEMMA ShownInOrder ==
    ASSUME NEW d \in Documents
    PROVE  \E head \in Nat :
              /\ head = IF d.title = "blank" THEN 0 ELSE 1
              /\ Len(Shown(d)) = head + Len(d.sections)
              /\ \A k \in 1 .. Len(d.sections) : Shown(d)[head + k] = d.sections[k]
              /\ head = 1 => Shown(d)[1] = d.title
<1> DEFINE sections == d.sections
<1>1. sections \in Seq(Texts)
  BY DocumentTyped
<1>2. CASE d.title # "blank"
  <2>1. Shown(d) = <<d.title>> \o sections
    BY <1>2 DEF Shown
  <2> HIDE DEF sections
  <2>2. /\ 1 \in Nat
        /\ Len(Shown(d)) = 1 + Len(sections)
        /\ \A k \in 1 .. Len(sections) : Shown(d)[1 + k] = sections[k]
        /\ Shown(d)[1] = d.title
    BY <1>1, <2>1
  <2> QED
    BY <1>2, <2>2 DEF sections
<1>3. CASE d.title = "blank"
  <2>1. Shown(d) = <<>> \o sections
    BY <1>3 DEF Shown
  <2> HIDE DEF sections
  <2>2. /\ 0 \in Nat
        /\ Len(Shown(d)) = 0 + Len(sections)
        /\ \A k \in 1 .. Len(sections) : Shown(d)[0 + k] = sections[k]
    BY <1>1, <2>1
  <2> QED
    BY <1>3, <2>2 DEF sections
<1> QED
  BY <1>2, <1>3

\* Of a document that has something to show, a text is shown first and one last,
\* and what is shown is its title or one of its sections.
LEMMA SomethingShown ==
    ASSUME NEW d \in Documents, ~EmptyDocument(d)
    PROVE  /\ Shown(d) # <<>> /\ Len(Shown(d)) \in Nat /\ DOMAIN Shown(d) = 1 .. Len(Shown(d))
           /\ 1 \in DOMAIN Shown(d) /\ Len(Shown(d)) \in DOMAIN Shown(d)
           /\ d.title # "blank" => Holds(Shown(d), d.title) /\ Shown(d)[1] = d.title
           /\ \A text : Holds(d.sections, text) => Holds(Shown(d), text)
           /\ \A text : Holds(Shown(d), text) => text = d.title \/ Holds(d.sections, text)
<1> DEFINE lines == Shown(d)
           sections == d.sections
<1>1. PICK head \in Nat :
         /\ head = IF d.title = "blank" THEN 0 ELSE 1
         /\ Len(lines) = head + Len(sections)
         /\ \A k \in 1 .. Len(sections) : lines[head + k] = sections[k]
         /\ head = 1 => lines[1] = d.title
  BY ShownInOrder
<1>2. lines \in Seq(Texts) /\ sections \in Seq(Texts)
  BY DocumentTyped
<1>3. /\ Len(lines) \in Nat /\ DOMAIN lines = 1 .. Len(lines)
      /\ Len(sections) \in Nat /\ DOMAIN sections = 1 .. Len(sections)
  BY <1>2
<1>4. d.title = "blank" => Len(sections) # 0
  <2> SUFFICES ASSUME d.title = "blank", Len(sections) = 0 PROVE FALSE
    OBVIOUS
  <2>1. EmptyDocument(d)
    BY <1>3 DEF EmptyDocument
  <2> QED
    BY <2>1
<1> HIDE DEF lines, sections
<1>5. /\ head \in {0, 1} /\ (head = 0 <=> d.title = "blank")
       /\ Len(lines) = head + Len(sections)
       /\ \A k \in 1 .. Len(sections) : lines[head + k] = sections[k]
  BY <1>1
<1>6. Len(lines) # 0
  BY <1>3, <1>4, <1>5
<1>7. lines # <<>> /\ 1 \in DOMAIN lines /\ Len(lines) \in DOMAIN lines
  BY <1>3, <1>6
<1>8. d.title # "blank" => Holds(lines, d.title) /\ lines[1] = d.title
  BY <1>1, <1>7 DEF Holds
<1>9. \A k \in 1 .. Len(sections) : head + k \in DOMAIN lines
  BY <1>3, <1>5
<1>10. \A text : Holds(sections, text) => Holds(lines, text)
  BY <1>1, <1>3, <1>9 DEF Holds
<1>11. ASSUME NEW i \in DOMAIN lines
       PROVE  \/ i = 1 /\ lines[1] = d.title
              \/ i - head \in 1 .. Len(sections) /\ lines[i] = sections[i - head]
  <2>1. i \in 1 .. Len(lines)
    BY <1>3
  <2>2. CASE i <= head
    BY <1>1, <2>1, <2>2
  <2>3. CASE i > head
    <3>1. i - head \in 1 .. Len(sections) /\ head + (i - head) = i
      BY <1>3, <1>5, <2>1, <2>3
    <3>2. lines[head + (i - head)] = sections[i - head]
      BY <1>1, <3>1
    <3> QED
      BY <3>1, <3>2
  <2> QED
    BY <1>1, <2>1, <2>2, <2>3
<1>12. \A text : Holds(lines, text) => text = d.title \/ Holds(sections, text)
  BY <1>3, <1>11 DEF Holds
<1> QED
  BY <1>3, <1>7, <1>8, <1>10, <1>12 DEF lines, sections

LEMMA TextIsTyped ==
    ASSUME NEW format, NEW lines \in Seq(Line)
    PROVE  /\ TextOf(format, lines) \in Seq(Line \cup {"character"})
           /\ Len(TextOf(format, lines)) = Len(lines)
           /\ DOMAIN TextOf(format, lines) = DOMAIN lines
           /\ \A i \in DOMAIN lines :
                 TextOf(format, lines)[i] =
                    IF format = "docx" /\ lines[i] \in {"entity", "return"}
                    THEN "character" ELSE lines[i]
<1>1. TextOf(format, lines) = [i \in 1 .. Len(lines) |->
         IF format = "docx" /\ lines[i] \in {"entity", "return"}
         THEN "character" ELSE lines[i]]
  BY DEF TextOf
<1> QED
  BY <1>1

\* The sections of what was shown are found, unless one is read as another text
\* by the DOCX auditor.
LEMMA ContentOfShown ==
    ASSUME NEW d \in Documents, NEW format
    PROVE  MissingSections(TextOf(format, Shown(d)), d.sections) # {}
              <=> /\ format = "docx"
                  /\ Holds(d.sections, "entity") \/ Holds(d.sections, "return")
<1> DEFINE lines == Shown(d)
           sections == d.sections
           read == TextOf(format, lines)
           T == Line \cup {"character"}
           Changed == Holds(sections, "entity") \/ Holds(sections, "return")
<1>1. PICK head \in Nat :
         /\ Len(lines) = head + Len(sections)
         /\ \A k \in 1 .. Len(sections) : lines[head + k] = sections[k]
  BY ShownInOrder
<1>2. lines \in Seq(Line) /\ sections \in Seq(Line)
  BY DocumentTyped
<1>3. /\ read \in Seq(T) /\ Len(read) = Len(lines) /\ DOMAIN read = DOMAIN lines
      /\ \A i \in DOMAIN lines :
            read[i] = IF format = "docx" /\ lines[i] \in {"entity", "return"}
                      THEN "character" ELSE lines[i]
  BY <1>2, TextIsTyped
<1>4. sections \in Seq(T)
  BY <1>2
<1>5. /\ Len(sections) \in Nat /\ DOMAIN sections = 1 .. Len(sections)
      /\ DOMAIN lines = 1 .. Len(lines)
  BY <1>2
<1> HIDE DEF lines, sections, read, T
<1>6. \A k \in 1 .. Len(sections) : head + k \in DOMAIN lines
  BY <1>1, <1>5
<1>7. CASE ~(format = "docx" /\ Changed)
  <2>1. \A k \in 1 .. Len(sections) : read[head + k] = sections[k]
    BY <1>1, <1>3, <1>5, <1>6, <1>7 DEF Holds
  <2>2. Len(read) = head + Len(sections)
    BY <1>1, <1>3
  <2>3. MissingSections(read, sections) = {}
    BY <1>3, <1>4, <2>1, <2>2, LastSectionsFound
  <2> QED
    BY <1>7, <2>3 DEF lines, sections, read
<1>8. CASE format = "docx" /\ Changed
  <2>1. PICK k \in 1 .. Len(sections) : sections[k] \in {"entity", "return"}
    BY <1>5, <1>8 DEF Holds
  <2>2. \A i \in DOMAIN read : ~Within(sections[k], read[i])
    BY <1>3, <1>8, <2>1 DEF Within
  <2>3. DOMAIN read = 1 .. Len(read) /\ Len(read) \in Nat
    BY <1>3
  <2>4. PICK at : Found(read, sections, at)
    BY <1>3, <1>4, SearchFinds
  <2>5. at[k - 1] \in Nat
    BY <2>4 DEF Found
  <2>6. {i \in at[k - 1] + 1 .. Len(read) : Within(sections[k], read[i])} = {}
    BY <2>2, <2>3, <2>5
  <2>7. k \in MissingSections(read, sections)
    BY <2>4, <2>6 DEF Found
  <2> QED
    BY <1>8, <2>7 DEF lines, sections, read
<1> QED
  BY <1>7, <1>8

\* A text with nothing fragile is not broken by any layout.
LEMMA WhatBreaks ==
    ASSUME NEW lines \in Seq(Line), NEW heading \in BOOLEAN, NEW texts \in SUBSET Fragile,
           NEW file, file = Broken([heading |-> heading, lines |-> lines], texts)
    PROVE  /\ file \in Artifacts /\ file.heading = heading
           /\ DOMAIN file.lines = DOMAIN lines /\ Len(file.lines) = Len(lines)
           /\ \A i \in DOMAIN lines :
                 file.lines[i] = IF lines[i] \in texts THEN "broken" ELSE lines[i]
           /\ (\A text \in Fragile : ~Holds(lines, text)) => file.lines = lines
<1> DEFINE broken == [i \in DOMAIN lines |->
                         IF lines[i] \in texts THEN "broken" ELSE lines[i]]
<1>1. file = [heading |-> heading, lines |-> broken]
  BY DEF Broken
<1>2. DOMAIN lines = 1 .. Len(lines) /\ Len(lines) \in Nat
      /\ \A i \in DOMAIN lines : lines[i] \in Line
  OBVIOUS
<1>3. "broken" \in Line
  BY DEF Line
<1>4. broken \in [1 .. Len(lines) -> Line]
  BY <1>2, <1>3
<1>5. broken \in Seq(Line) /\ Len(broken) = Len(lines)
  BY <1>2, <1>4
<1>6. file \in Artifacts
  <2> HIDE DEF broken
  <2> QED
    BY <1>1, <1>5 DEF Artifacts, Line
<1>7. ASSUME \A text \in Fragile : ~Holds(lines, text) PROVE broken = lines
  <2>1. \A i \in DOMAIN lines : lines[i] \notin texts
    BY <1>7 DEF Holds
  <2>2. \A i \in DOMAIN lines : broken[i] = lines[i]
    BY <2>1
  <2>3. broken \in Seq(Line) /\ Len(broken) = Len(lines)
    BY <1>5
  <2> HIDE DEF broken
  <2> QED
    BY <1>2, <2>2, <2>3
<1> QED
  BY <1>1, <1>5, <1>6, <1>7

\* The files that an export may write are artifacts, and none is a missing one.
LEMMA RenderingsTyped ==
    ASSUME NEW format, NEW d \in Documents \cup {NoDocument},
           NEW file \in Renderings(format, d)
    PROVE  file \in Artifacts /\ file # Missing
<1> DEFINE heading == format = "md" /\ d.title # "blank"
           lines == Shown(d)
<1>1. lines \in Seq(Texts)
  <2>1. CASE d \in Documents
    BY <2>1, DocumentTyped
  <2>2. CASE d = NoDocument
    BY <2>2 DEF NoDocument, Shown
  <2> QED
    BY <2>1, <2>2
<1>2. /\ lines \in Seq(Line) /\ heading \in BOOLEAN
      /\ \A i \in DOMAIN lines : lines[i] \in Texts
  <2>1. Texts \subseteq Line
    BY DEF Line
  <2> HIDE DEF lines
  <2> QED
    BY <1>1, <2>1
<1>3. Render(format, d) = [heading |-> heading, lines |-> lines]
  BY DEF Render
<1> HIDE DEF heading, lines
<1>4. CASE format = "pdf"
  <2>1. PICK texts \in SUBSET Fragile :
           file = Broken([heading |-> heading, lines |-> lines], texts)
    BY <1>3, <1>4 DEF Renderings
  <2>2. /\ file \in Artifacts /\ DOMAIN file.lines = DOMAIN lines
        /\ \A i \in DOMAIN lines :
              file.lines[i] = IF lines[i] \in texts THEN "broken" ELSE lines[i]
    BY <1>2, <2>1, WhatBreaks
  <2>3. \A i \in DOMAIN file.lines : file.lines[i] # "missing"
    BY <1>2, <2>2 DEF Texts
  <2> QED
    BY <2>2, <2>3 DEF Missing
<1>5. CASE format # "pdf"
  <2>1. file = [heading |-> heading, lines |-> lines]
    BY <1>3, <1>5 DEF Renderings
  <2>2. file \in Artifacts
    BY <1>2, <2>1 DEF Artifacts, Line
  <2>3. \A i \in DOMAIN file.lines : file.lines[i] # "missing"
    BY <1>2, <2>1 DEF Texts
  <2> QED
    BY <2>2, <2>3 DEF Missing
<1> QED
  BY <1>4, <1>5

\* An audit that fails, format by format, for what an export wrote itself.
LEMMA TextFails ==
    ASSUME NEW d \in Documents, ~EmptyDocument(d), NEW file, file = Render("txt", d)
    PROVE  AuditFindings("txt", file, d) # {} <=> Unexportable("txt", d)
<1> DEFINE lines == Shown(d)
<1>1. file.heading = FALSE /\ file.lines = lines
  BY DEF Render
<1>2. lines # <<>>
  BY SomethingShown
<1>3. MissingSections(TextOf("txt", lines), d.sections) = {}
  BY ContentOfShown
<1> HIDE DEF lines
<1>4. ContentFindings("txt", file, d) = {}
  BY <1>1, <1>3 DEF ContentFindings, Finding, TitleMissing
<1>5. AuditFindings("txt", file, d) = TextFindings(file)
  BY <1>4 DEF AuditFindings, ArtifactFindings
<1>6. TextFindings(file) # {} <=> \/ Holds(lines, "term") \/ Holds(lines, "return")
                                  \/ lines[1] = "bom" \/ lines[Len(lines)] = "newline"
  BY <1>1, <1>2 DEF TextFindings, Finding
<1> QED
  BY <1>5, <1>6 DEF Unexportable, lines

LEMMA MarkdownFails ==
    ASSUME NEW d \in Documents, ~EmptyDocument(d), NEW file, file = Render("md", d)
    PROVE  AuditFindings("md", file, d) # {} <=> Unexportable("md", d)
<1> DEFINE lines == Shown(d)
           Bad == \/ Holds(lines, "term") \/ Holds(lines, "return")
                  \/ lines[Len(lines)] = "newline"
                  \/ Holds(lines, "claims") \/ Holds(lines, "active")
<1>1. file.heading = (d.title # "blank") /\ file.lines = lines
  BY DEF Render
<1>2. lines # <<>> /\ (d.title # "blank" => Holds(lines, d.title) /\ lines[1] = d.title)
  BY SomethingShown
<1>3. MissingSections(TextOf("md", lines), d.sections) = {}
  BY ContentOfShown
<1> HIDE DEF lines
<1>4. ContentFindings("md", file, d)
         = Finding(d.title \in {"blank", "newline", "return"}, "title")
  <2>1. TitleMissing("md", file, d.title) <=> d.title \in {"blank", "newline", "return"}
    BY <1>1, <1>2 DEF TitleMissing
  <2> QED
    BY <1>1, <1>3, <2>1 DEF ContentFindings, Finding
<1>5. AuditFindings("md", file, d)
         = MarkdownFindings(file) \cup ContentFindings("md", file, d)
  BY DEF AuditFindings, ArtifactFindings
<1>6. CASE d.title = "blank"
  <2>1. AuditFindings("md", file, d) # {}
    BY <1>4, <1>5, <1>6 DEF Finding
  <2> QED
    BY <1>6, <2>1 DEF Unexportable
<1>7. CASE d.title # "blank"
  <2>1. MarkdownFindings(file) # {} <=> Bad
    BY <1>1, <1>2, <1>7 DEF MarkdownFindings, TextFindings, Finding
  <2>2. d.title = "return" => Holds(lines, "return")
    BY <1>2, <1>7
  <2>3. AuditFindings("md", file, d) # {} <=> Bad \/ d.title \in {"newline", "return"}
    BY <1>4, <1>5, <1>7, <2>1 DEF Finding
  <2>4. Unexportable("md", d) <=> Bad \/ d.title = "newline"
    BY <1>7 DEF Unexportable, lines
  <2> QED
    BY <2>2, <2>3, <2>4
<1> QED
  BY <1>6, <1>7

LEMMA DocxFails ==
    ASSUME NEW d \in Documents, ~EmptyDocument(d), NEW file, file = Render("docx", d)
    PROVE  AuditFindings("docx", file, d) # {} <=> Unexportable("docx", d)
<1> DEFINE lines == Shown(d)
           read == TextOf("docx", lines)
           Bad == Holds(lines, "term") \/ Holds(lines, "hidden") \/ Holds(lines, "control")
           Changed == Holds(lines, "entity") \/ Holds(lines, "return")
           Untitled == d.title = "blank" /\ ~Holds(lines, "blank") /\ ~Holds(lines, "spaced")
           missing == MissingSections(read, d.sections) # {}
           untitled == TitleMissing("docx", file, d.title)
<1>1. file.lines = lines
  BY DEF Render
<1>2. /\ d.title # "blank" => Holds(lines, d.title)
      /\ \A text : Holds(d.sections, text) => Holds(lines, text)
      /\ \A text : Holds(lines, text) => text = d.title \/ Holds(d.sections, text)
  BY SomethingShown
<1>3. missing <=> Holds(d.sections, "entity") \/ Holds(d.sections, "return")
  BY ContentOfShown
<1>4. DOMAIN read = DOMAIN lines
      /\ \A i \in DOMAIN lines :
            read[i] = IF lines[i] \in {"entity", "return"} THEN "character" ELSE lines[i]
  BY DocumentTyped, TextIsTyped
<1>5. d.title \in Texts /\ d.title # "character"
  BY DocumentTyped DEF Texts
<1>6. untitled <=> \A i \in DOMAIN lines : ~Within(d.title, read[i])
  BY <1>1 DEF TitleMissing
<1> HIDE DEF lines, read
<1>7. untitled <=> d.title \in {"entity", "return"} \/ Untitled
  <2>1. CASE d.title = "blank"
    <3>1. untitled => Untitled
      BY <1>4, <1>6, <2>1 DEF Holds, Within
    <3>2. Untitled => untitled
      BY <1>4, <1>6, <2>1 DEF Holds, Within
    <3> QED
      BY <2>1, <3>1, <3>2
  <2>2. CASE d.title \in {"entity", "return"}
    BY <1>4, <1>6, <2>2 DEF Within
  <2>3. CASE d.title \notin {"blank", "entity", "return"}
    <3>1. PICK i \in DOMAIN lines : lines[i] = d.title
      BY <1>2, <2>3 DEF Holds
    <3>2. Within(d.title, read[i])
      BY <1>4, <2>3, <3>1 DEF Within
    <3> QED
      BY <1>6, <2>3, <3>2
  <2> QED
    BY <2>1, <2>2, <2>3
<1>8. ArtifactFindings("docx", file) # {} <=> Bad
  BY <1>1 DEF ArtifactFindings, DocxFindings, Finding
<1>9. ~Holds(lines, "control") => (ContentFindings("docx", file, d) # {} <=> missing \/ untitled)
  <2> HIDE DEF missing, untitled
  <2> QED
    BY <1>1 DEF ContentFindings, Finding, missing, untitled, read
<1>10. missing \/ untitled <=> Changed \/ Untitled
  BY <1>2, <1>3, <1>7
<1>11. AuditFindings("docx", file, d) # {} <=> Bad \/ Changed \/ Untitled
  <2> HIDE DEF missing, untitled, Changed, Untitled
  <2>1. AuditFindings("docx", file, d)
           = ArtifactFindings("docx", file) \cup ContentFindings("docx", file, d)
    BY DEF AuditFindings
  <2>2. CASE Holds(lines, "control")
    BY <1>8, <2>1, <2>2
  <2>3. CASE ~Holds(lines, "control")
    BY <1>8, <1>9, <1>10, <2>1, <2>3
  <2> QED
    BY <2>2, <2>3
<1>12. Unexportable("docx", d) <=> Bad \/ Changed \/ Untitled
  BY DEF Unexportable, lines
<1> QED
  BY <1>11, <1>12

\* A PDF that an export wrote fails for the documents that have no clean one, and
\* for others only when they have a text that the layout may not give back.
LEMMA PdfFails ==
    ASSUME NEW d \in Documents, ~EmptyDocument(d), NEW texts \in SUBSET Fragile,
           NEW file, file = Broken(Render("pdf", d), texts)
    PROVE  /\ Unexportable("pdf", d) => AuditFindings("pdf", file, d) # {}
           /\ AuditFindings("pdf", file, d) # {} =>
                 \/ Unexportable("pdf", d)
                 \/ \E text \in Fragile : Holds(Shown(d), text)
<1> DEFINE lines == Shown(d)
           Lonely == d.title = "blank" /\ lines = <<"word">>
<1>1. lines \in Seq(Line) /\ lines \in Seq(Texts)
  BY DocumentTyped
<1>2. file = Broken([heading |-> FALSE, lines |-> lines], texts)
  BY DEF Render
<1>3. /\ lines # <<>> /\ DOMAIN lines = 1 .. Len(lines)
      /\ d.title # "blank" => Holds(lines, d.title)
  BY SomethingShown
<1>4. MissingSections(TextOf("pdf", lines), d.sections) = {}
  BY ContentOfShown
<1> HIDE DEF lines
<1>5. /\ DOMAIN file.lines = DOMAIN lines
      /\ \A i \in DOMAIN lines :
            file.lines[i] = IF lines[i] \in texts THEN "broken" ELSE lines[i]
      /\ (\A text \in Fragile : ~Holds(lines, text)) => file.lines = lines
  <2> HIDE DEF Lonely
  <2>1. PICK heading \in BOOLEAN : heading = FALSE
    OBVIOUS
  <2>2. file = Broken([heading |-> heading, lines |-> lines], texts)
    BY <1>2, <2>1
  <2> QED
    BY <1>1, <2>2, WhatBreaks
<1>6. Unexportable("pdf", d) <=> Holds(lines, "term") \/ Lonely
  BY DEF Unexportable, lines
<1>7. AuditFindings("pdf", file, d) = PdfFindings(file) \cup ContentFindings("pdf", file, d)
  BY DEF AuditFindings, ArtifactFindings
<1>8. Holds(file.lines, "term") <=> Holds(lines, "term")
  BY <1>5 DEF Holds, Fragile
<1>9. TitleMissing("pdf", file, d.title)
         <=> IF d.title = "blank" THEN file.lines \in {<<>>, <<"word">>}
             ELSE ~Holds(file.lines, d.title)
  BY DEF TitleMissing
<1>10. ASSUME Lonely PROVE AuditFindings("pdf", file, d) # {}
  <2>1. \A text \in Fragile : ~Holds(lines, text)
    BY <1>10 DEF Fragile, Holds
  <2>2. TitleMissing("pdf", file, d.title)
    BY <1>5, <1>9, <1>10, <2>1
  <2> QED
    BY <1>7, <2>2 DEF ContentFindings, Finding
<1>11. ASSUME Holds(lines, "term") PROVE AuditFindings("pdf", file, d) # {}
  BY <1>7, <1>8, <1>11 DEF PdfFindings, Finding
<1>12. ASSUME ~Holds(lines, "term"), ~Lonely, \A text \in Fragile : ~Holds(lines, text)
       PROVE  AuditFindings("pdf", file, d) = {}
  <2>1. file.lines = lines
    BY <1>5, <1>12
  <2>2. PdfFindings(file) = {}
    BY <1>12, <2>1 DEF PdfFindings, Finding
  <2>3. ~TitleMissing("pdf", file, d.title)
    BY <1>3, <1>9, <1>12, <2>1
  <2>4. ContentFindings("pdf", file, d) = {}
    BY <1>4, <2>1, <2>3 DEF ContentFindings, Finding
  <2> QED
    BY <1>7, <2>2, <2>4
<1> QED
  BY <1>6, <1>10, <1>11, <1>12 DEF lines

\* The audit of what an export wrote itself.
LEMMA RenderedFails ==
    ASSUME NEW d \in Documents, ~EmptyDocument(d), NEW format \in Formats,
           NEW file \in Renderings(format, d)
    PROVE  /\ Unexportable(format, d) => AuditFindings(format, file, d) # {}
           /\ AuditFindings(format, file, d) # {} =>
                 \/ Unexportable(format, d)
                 \/ format = "pdf" /\ \E text \in Fragile : Holds(Shown(d), text)
<1>1. CASE format = "pdf"
  <2>1. PICK texts \in SUBSET Fragile : file = Broken(Render("pdf", d), texts)
    BY <1>1 DEF Renderings
  <2> QED
    BY <1>1, <2>1, PdfFails
<1>2. ASSUME format # "pdf" PROVE file = Render(format, d)
  BY <1>2 DEF Renderings
<1>3. CASE format = "txt"
  BY <1>2, <1>3, TextFails
<1>4. CASE format = "md"
  BY <1>2, <1>4, MarkdownFails
<1>5. CASE format = "docx"
  BY <1>2, <1>5, DocxFails
<1> QED
  BY <1>1, <1>3, <1>4, <1>5 DEF Formats

\* A file in which an audit finds nothing holds the sections of the document in
\* their order, and no prohibited term.
LEMMA CleanHasContent ==
    ASSUME NEW d \in Documents, NEW format \in Formats, NEW file \in Artifacts,
           AuditFindings(format, file, d) = {}
    PROVE  /\ ~Holds(file.lines, "term")
           /\ Stand(d.sections, file.lines)
<1> DEFINE sections == d.sections
           lines == file.lines
           read == TextOf(format, lines)
           T == Line \cup {"character"}
<1>0. lines \in Seq(Line)
  BY DEF Artifacts, Line
<1>1. ArtifactFindings(format, file) = {} /\ ContentFindings(format, file, d) = {}
  BY DEF AuditFindings
<1>2. ArtifactFindings(format, file) \in
         {TextFindings(file), MarkdownFindings(file), DocxFindings(file), PdfFindings(file)}
  BY DEF ArtifactFindings, Formats
<1>3. ~Holds(lines, "term")
  <2>1. \/ TextFindings(file) = {} \/ DocxFindings(file) = {} \/ PdfFindings(file) = {}
    BY <1>1, <1>2 DEF MarkdownFindings
  <2>2. Finding(Holds(lines, "term"), "prohibited") = {}
    BY <2>1 DEF TextFindings, DocxFindings, PdfFindings
  <2> QED
    BY <2>2 DEF Finding
<1>4. ~(format = "docx" /\ Holds(lines, "control"))
  <2>1. format = "docx" => ArtifactFindings(format, file) = DocxFindings(file)
    BY DEF ArtifactFindings
  <2> QED
    BY <1>1, <2>1 DEF DocxFindings, Finding
<1>5. MissingSections(read, sections) = {}
  BY <1>1, <1>4 DEF ContentFindings, Finding
<1>6. /\ read \in Seq(T) /\ DOMAIN read = DOMAIN lines
      /\ \A i \in DOMAIN lines :
            read[i] = IF format = "docx" /\ lines[i] \in {"entity", "return"}
                      THEN "character" ELSE lines[i]
  BY <1>0, TextIsTyped
<1>7. sections \in Seq(Texts) /\ sections \in Seq(Line)
  BY DocumentTyped
<1>8. sections \in Seq(T)
  <2> HIDE DEF sections
  <2> QED
    BY <1>7
<1>9. \A k \in DOMAIN sections : sections[k] # "character"
  <2>1. \A k \in DOMAIN sections : sections[k] \in Texts
    BY <1>7
  <2> QED
    BY <2>1 DEF Texts
<1> HIDE DEF read, sections, T, lines
<1>10. PICK at \in [DOMAIN sections -> DOMAIN read] :
          /\ \A i, j \in DOMAIN sections : i < j => at[i] < at[j]
          /\ \A i \in DOMAIN sections : Within(sections[i], read[at[i]])
  <2>1. Stand(sections, read)
    BY <1>5, <1>6, <1>8, NoneMissing
  <2> QED
    BY <2>1 DEF Stand
<1>11. \A i \in DOMAIN sections : Within(sections[i], lines[at[i]])
  BY <1>6, <1>9, <1>10 DEF Within
<1> QED
  BY <1>3, <1>6, <1>10, <1>11 DEF sections, Stand, lines

-----------------------------------------------------------------------------
(* ExportAudit: the commands *)

\* What the record of a command is made of, given its documents and its files.
Exporter(documents, files) ==
    [pc : {"idle", "render", "write", "replace", "audit", "done"},
     command : Commands, document : documents, temp : BOOLEAN, audited : files,
     answer : {"none", "ok", "pass", "fail", "refused", "error"}]

Loaded == Documents \cup {NoDocument}

\* A command that exports has a document - from its rendering on, one that has
\* something to show - and has audited nothing; one that has
\* audited gave its answer for what it read of its own document.
Fits(new) ==
    /\ new \in Exporter(Loaded, Artifacts)
    /\ new.pc \in {"render", "write", "replace", "audit"} =>
           new.document \in Documents /\ new.audited = Missing
    /\ new.pc \in {"write", "replace", "audit"} => ~EmptyDocument(new.document)
    /\ new.audited # Missing =>
           /\ new.document \in Documents /\ ~EmptyDocument(new.document)
           /\ new.answer = IF AuditFindings(path.format, new.audited, new.document) = {}
                           THEN "ok" ELSE "refused"

ExportInv ==
    /\ path \in [format : Formats, file : Artifacts]
    /\ exporter \in [Exporters -> Exporter(Loaded, Artifacts)]
    /\ \A e \in Exporters : Fits(exporter[e])

LEMMA IdleTyped ==
    ASSUME NEW documents, NEW files, NoDocument \in documents, Missing \in files
    PROVE  IdleExporter \in Exporter(documents, files)
BY DEF IdleExporter, Exporter, Commands

LEMMA MissingTyped == Missing \in Artifacts /\ NoDocument \in Loaded
BY DEF Missing, Artifacts, Loaded

LEMMA ExportInitial == ExportInit => ExportInv
<1> SUFFICES ASSUME ExportInit PROVE ExportInv
  OBVIOUS
<1>1. path \in [format : Formats, file : {Missing}]
      /\ exporter = [e \in Exporters |-> IdleExporter]
  BY DEF ExportInit
<1>2. Missing \in Artifacts
  BY MissingTyped
<1>3. IdleExporter \in Exporter(Loaded, Artifacts)
  BY MissingTyped, IdleTyped
<1>4. Fits(IdleExporter)
  BY <1>3 DEF Fits, IdleExporter
<1> HIDE DEF Missing
<1> QED
  BY <1>1, <1>2, <1>3, <1>4 DEF ExportInv

LEMMA AnswerFits ==
    ASSUME ExportInv, NEW e \in Exporters,
           NEW answer \in {"none", "ok", "pass", "fail", "refused", "error"}
    PROVE  Fits(Answers(e, answer)) /\ Fits([Answers(e, answer) EXCEPT !.temp = FALSE])
<1>1. IdleExporter \in Exporter(Loaded, Artifacts)
  BY MissingTyped, IdleTyped
<1>2. IdleExporter.document = NoDocument /\ IdleExporter.audited = Missing
      /\ exporter[e] \in Exporter(Loaded, Artifacts)
  BY DEF IdleExporter, ExportInv
<1>3. /\ Answers(e, answer) \in Exporter(Loaded, Artifacts)
      /\ [Answers(e, answer) EXCEPT !.temp = FALSE] \in Exporter(Loaded, Artifacts)
      /\ Answers(e, answer).pc = "done" /\ Answers(e, answer).audited = Missing
      /\ [Answers(e, answer) EXCEPT !.temp = FALSE].pc = "done"
      /\ [Answers(e, answer) EXCEPT !.temp = FALSE].audited = Missing
  BY <1>1, <1>2 DEF Answers, Exporter
<1> QED
  BY <1>3 DEF Fits

\* A step of one command that leaves the path's format.
LEMMA OneSteps ==
    ASSUME ExportInv, NEW e \in Exporters, NEW new, Fits(new),
           exporter' = [exporter EXCEPT ![e] = new],
           path'.format = path.format,
           path' \in [format : Formats, file : Artifacts]
    PROVE  ExportInv'
<1> HIDE DEF Missing
<1>1. exporter' \in [Exporters -> Exporter(Loaded, Artifacts)] /\ exporter'[e] = new
      /\ \A f \in Exporters \ {e} : exporter'[f] = exporter[f]
  <2>1. new \in Exporter(Loaded, Artifacts)
    BY DEF Fits
  <2> QED
    BY <2>1 DEF ExportInv
<1>2. Fits(exporter[e])'
  BY <1>1 DEF Fits, AuditFindings
<1>3. \A f \in Exporters \ {e} : Fits(exporter[f])'
  BY <1>1 DEF ExportInv, Fits, AuditFindings
<1> QED
  BY <1>1, <1>2, <1>3 DEF ExportInv

LEMMA ExportStep == ExportInv /\ [ExportNext]_exportVars => ExportInv'
<1> SUFFICES ASSUME ExportInv, [ExportNext]_exportVars PROVE ExportInv'
  OBVIOUS
<1>0. path \in [format : Formats, file : Artifacts]
  BY DEF ExportInv
<1>1. ASSUME NEW e \in Exporters,
             NEW answer \in {"none", "ok", "pass", "fail", "refused", "error"}
      PROVE  Fits(Answers(e, answer)) /\ Fits([Answers(e, answer) EXCEPT !.temp = FALSE])
  BY AnswerFits
<1>2. ASSUME NEW e \in Exporters,
             exporter[e].pc \in {"render", "write", "replace", "audit"}
      PROVE  /\ exporter[e] \in Exporter(Loaded, Artifacts)
             /\ exporter[e].document \in Documents /\ exporter[e].audited = Missing
             /\ exporter[e].pc # "render" => ~EmptyDocument(exporter[e].document)
  BY <1>2 DEF ExportInv, Fits
<1>3. ASSUME NEW e \in Exporters, NEW new, Fits(new), path' = path,
             exporter' = [exporter EXCEPT ![e] = new]
      PROVE  ExportInv'
  BY <1>0, <1>3, OneSteps
<1>4. ASSUME NEW e \in Exporters, NEW command \in {"workflow", "document"},
             NEW d \in Documents, NEW accepted, NEW format,
             StartExport(e, command, d, accepted, format)
      PROVE  ExportInv'
  <2> DEFINE new == [IdleExporter EXCEPT !.pc = "render", !.command = command,
                                         !.document = d]
  <2>1. Fits(new)
    <3>1. IdleExporter \in Exporter(Loaded, Artifacts) /\ IdleExporter.audited = Missing
      BY MissingTyped, IdleTyped DEF IdleExporter
    <3>2. d \in Loaded /\ command \in Commands
      BY DEF Loaded, Commands
    <3>3. /\ new \in Exporter(Loaded, Artifacts)
          /\ new.pc = "render" /\ new.document = d /\ new.audited = Missing
      BY <3>1, <3>2 DEF Exporter
    <3> HIDE DEF new
    <3> QED
      BY <3>3 DEF Fits
  <2>2. path' = path /\ \/ exporter' = [exporter EXCEPT ![e] = new]
                        \/ exporter' = [exporter EXCEPT ![e] = Answers(e, "refused")]
    BY <1>4 DEF StartExport, Exporting
  <2> HIDE DEF new
  <2> QED
    BY <1>1, <1>3, <2>1, <2>2
<1>5. ASSUME NEW e \in Exporters, RenderDocument(e) PROVE ExportInv'
  <2> DEFINE new == [exporter[e] EXCEPT !.pc = "write", !.temp = TRUE]
  <2>1. exporter[e].pc = "render" /\ path' = path
        /\ \/ ~EmptyDocument(exporter[e].document) /\ exporter' = [exporter EXCEPT ![e] = new]
           \/ exporter' = [exporter EXCEPT ![e] = Answers(e, "error")]
    BY <1>5 DEF RenderDocument, Exporting
  <2>2. ~EmptyDocument(exporter[e].document) => Fits(new)
    <3>1. /\ new \in Exporter(Loaded, Artifacts) /\ new.document \in Documents
          /\ new.audited = Missing /\ new.document = exporter[e].document
      BY <1>2, <2>1 DEF Exporter
    <3> HIDE DEF new
    <3> QED
      BY <3>1 DEF Fits
  <2> HIDE DEF new
  <2> QED
    BY <1>1, <1>3, <2>1, <2>2
<1>6. ASSUME NEW e \in Exporters, CannotPrepare(e) PROVE ExportInv'
  BY <1>1, <1>3, <1>6 DEF CannotPrepare, Exporting
<1>7. ASSUME NEW e \in Exporters, WriteTemporary(e) PROVE ExportInv'
  <2> DEFINE new == [exporter[e] EXCEPT !.pc = "replace"]
  <2>1. exporter[e].pc = "write" /\ path' = path
        /\ exporter' = [exporter EXCEPT ![e] = new]
    BY <1>7 DEF WriteTemporary, Exporting
  <2>2. Fits(new)
    <3>1. /\ new \in Exporter(Loaded, Artifacts) /\ new.document \in Documents
          /\ new.audited = Missing /\ ~EmptyDocument(new.document)
      BY <1>2, <2>1 DEF Exporter
    <3> HIDE DEF new
    <3> QED
      BY <3>1 DEF Fits
  <2> HIDE DEF new
  <2> QED
    BY <1>3, <2>1, <2>2
<1>8. ASSUME NEW e \in Exporters, CannotWrite(e) PROVE ExportInv'
  BY <1>1, <1>3, <1>8 DEF CannotWrite, Exporting
<1>9. ASSUME NEW e \in Exporters, ReplaceOutput(e) PROVE ExportInv'
  <2> DEFINE new == [exporter[e] EXCEPT !.pc = "audit", !.temp = FALSE]
  <2>1. /\ exporter[e].pc = "replace"
        /\ \E file \in Renderings(path.format, exporter[e].document) :
              path' = [path EXCEPT !.file = file]
        /\ \/ exporter' = [exporter EXCEPT ![e] = new]
           \/ exporter' = [exporter EXCEPT ![e] = [Answers(e, "ok") EXCEPT !.temp = FALSE]]
    BY <1>9 DEF ReplaceOutput, Exporting
  <2>2. Fits(new)
    <3>1. /\ new \in Exporter(Loaded, Artifacts) /\ new.document \in Documents
          /\ new.audited = Missing /\ ~EmptyDocument(new.document)
      BY <1>2, <2>1 DEF Exporter
    <3> HIDE DEF new
    <3> QED
      BY <3>1 DEF Fits
  <2>3. PICK some : Fits(some) /\ exporter' = [exporter EXCEPT ![e] = some]
    <3> HIDE DEF new
    <3> QED
      BY <1>1, <2>1, <2>2
  <2>4. PICK file \in Artifacts : path' = [path EXCEPT !.file = file]
    BY <1>2, <2>1, RenderingsTyped
  <2>5. path'.format = path.format /\ path' \in [format : Formats, file : Artifacts]
    BY <1>0, <2>4
  <2> QED
    BY <2>3, <2>5, OneSteps
<1>10. ASSUME NEW e \in Exporters, AuditExport(e) PROVE ExportInv'
  <2> DEFINE found == AuditFindings(path.format, path.file, exporter[e].document)
             answer == IF found = {} THEN "ok" ELSE "refused"
             new == [exporter[e] EXCEPT !.pc = "done", !.audited = path.file,
                                        !.answer = answer]
  <2>1. exporter[e].pc = "audit" /\ path' = path
        /\ exporter' = [exporter EXCEPT ![e] = new]
    BY <1>10 DEF AuditExport, Exporting, AuditFindings
  <2>2. Fits(new)
    <3>1. answer \in {"ok", "refused"} /\ path.file \in Artifacts
      BY <1>0
    <3> HIDE DEF answer
    <3>2. /\ new \in Exporter(Loaded, Artifacts) /\ new.document \in Documents
          /\ ~EmptyDocument(new.document) /\ new.document = exporter[e].document
          /\ new.pc = "done" /\ new.audited = path.file /\ new.answer = answer
      BY <1>2, <2>1, <3>1 DEF Exporter
    <3> HIDE DEF new
    <3> QED
      BY <3>2 DEF Fits, answer
  <2> HIDE DEF new
  <2> QED
    BY <1>3, <2>1, <2>2
<1>11. ASSUME NEW e \in Exporters, NEW command, AuditFile(e, command) PROVE ExportInv'
  <2>1. path' = path /\ \E answer \in {"error", "pass", "fail"} :
           exporter' = [exporter EXCEPT ![e] = Answers(e, answer)]
    BY <1>11 DEF AuditFile, Exporting
  <2> QED
    BY <1>1, <1>3, <2>1
<1>12. ASSUME NEW e \in Exporters, KillExport(e) PROVE ExportInv'
  BY <1>1, <1>3, <1>12 DEF KillExport
<1>13. CASE UNCHANGED exportVars
  BY <1>13 DEF exportVars, ExportInv, Fits, AuditFindings
<1> QED
  BY <1>4, <1>5, <1>6, <1>7, <1>8, <1>9, <1>10, <1>11, <1>12, <1>13 DEF ExportNext

\* The inductive invariant of the exports: a command in progress has a document,
\* and one that audited gave its answer for the bytes it read back.
THEOREM ExportInvHolds == ExportSpec => []ExportInv
BY ExportInitial, ExportStep, PTL DEF ExportSpec

\* Type correctness.
THEOREM ExportIsTyped == ExportSpec => []ExportTypeOK
<1>1. ExportInv => ExportTypeOK
  BY DEF ExportInv, ExportTypeOK, Exporter, Loaded
<1> QED
  BY <1>1, ExportInvHolds, PTL

\* A workflow export answers "ok" only when the bytes that its audit read back
\* held its own sections in their order, beside no prohibited term - whoever else
\* wrote the output path in between (workflow export_cmd).
THEOREM OkIsTheContent == ExportSpec => []OkHasContent
<1>1. ExportInv => OkHasContent
  <2> SUFFICES ASSUME ExportInv, NEW e \in Exporters,
                      exporter[e].audited # Missing, exporter[e].answer = "ok"
               PROVE  /\ ~Holds(exporter[e].audited.lines, "term")
                      /\ Stand(exporter[e].document.sections, exporter[e].audited.lines)
    BY DEF OkHasContent, Stand
  <2>1. exporter[e].document \in Documents
        /\ AuditFindings(path.format, exporter[e].audited, exporter[e].document) = {}
    BY DEF ExportInv, Fits
  <2>2. path.format \in Formats /\ exporter[e] \in Exporter(Loaded, Artifacts)
    BY DEF ExportInv
  <2>3. exporter[e].audited \in Artifacts
    BY <2>2 DEF Exporter
  <2> QED
    BY <2>1, <2>2, <2>3, CleanHasContent
<1> QED
  BY <1>1, ExportInvHolds, PTL

\* Exporter and auditor agree: the audit of what an export wrote itself refuses
\* every document that its format has no clean artifact for, and another one only
\* for a text that a PDF page may not give back (audit_artifact).
THEOREM FailureHasCause == ExportSpec => []FailsForCause
<1>1. ExportInv => FailsForCause
  <2> SUFFICES ASSUME ExportInv, NEW e \in Exporters,
                      NEW d, d = exporter[e].document, NEW file, file = exporter[e].audited,
                      file \in Renderings(path.format, d)
               PROVE  /\ Unexportable(path.format, d) => exporter[e].answer = "refused"
                      /\ exporter[e].answer = "refused" =>
                            \/ Unexportable(path.format, d)
                            \/ /\ path.format = "pdf"
                               /\ \E text \in Fragile : Holds(Shown(d), text)
    BY DEF FailsForCause
  <2>1. path.format \in Formats /\ exporter[e] \in Exporter(Loaded, Artifacts)
    BY DEF ExportInv
  <2>2. d \in Documents \cup {NoDocument}
    BY <2>1 DEF Exporter, Loaded
  <2>3. file # Missing
    BY <2>2, RenderingsTyped
  <2>4. /\ d \in Documents /\ ~EmptyDocument(d)
        /\ exporter[e].answer =
              IF AuditFindings(path.format, file, d) = {} THEN "ok" ELSE "refused"
    BY <2>3 DEF ExportInv, Fits
  <2>5. exporter[e].answer = "refused" <=> AuditFindings(path.format, file, d) # {}
    BY <2>4
  <2> QED
    BY <2>1, <2>4, <2>5, RenderedFails
<1> QED
  BY <1>1, ExportInvHolds, PTL

-----------------------------------------------------------------------------
(* ObsidianProjection: names *)

\* The name that is found is not taken.
LEMMA FreeSlugIsFree ==
    ASSUME NEW T, NEW base \in Seq(T), NEW N \in Nat,
           \A i \in 1 .. N : ToString(i) \in T,
           \A i, j \in 1 .. N : ToString(i) = ToString(j) => i = j,
           NEW used, IsFiniteSet(used), Cardinality(used) <= N
    PROVE  FreeSlug(base, used) \notin used
<1> DEFINE Numbered(i) == IF i = 0 THEN base ELSE Append(base, ToString(i))
           c == Cardinality(used)
           Free(i) == /\ Numbered(i) \notin used
                      /\ \A j \in 0 .. i - 1 : Numbered(j) \in used
<1>1. c \in Nat /\ c <= N
  BY FS_CardinalityType
<1>2. \A i, j \in 0 .. c : Numbered(i) = Numbered(j) => i = j
  <2> SUFFICES ASSUME NEW i \in 0 .. c, NEW j \in 0 .. c, Numbered(i) = Numbered(j),
                      i # j
               PROVE  FALSE
    OBVIOUS
  <2>1. \A k \in 0 .. c : k # 0 => k \in 1 .. N
    BY <1>1
  <2>2. \A k \in 1 .. N : /\ Len(Append(base, ToString(k))) = Len(base) + 1
                          /\ Append(base, ToString(k))[Len(base) + 1] = ToString(k)
    OBVIOUS
  <2>3. Len(base) \in Nat
    OBVIOUS
  <2> HIDE DEF c
  <2>4. CASE i = 0
    BY <2>1, <2>2, <2>3, <2>4
  <2>5. CASE j = 0
    BY <2>1, <2>2, <2>3, <2>5
  <2>6. CASE i # 0 /\ j # 0
    <3>1. Append(base, ToString(i)) = Append(base, ToString(j))
      BY <2>6
    <3>2. ToString(i) = ToString(j)
      BY <2>1, <2>2, <2>6, <3>1
    <3> QED
      BY <2>1, <2>6, <3>2
  <2> QED
    BY <2>4, <2>5, <2>6
<1> HIDE DEF Numbered
<1>3. \E i \in 0 .. c : Numbered(i) \notin used
  <2> SUFFICES ASSUME \A i \in 0 .. c : Numbered(i) \in used PROVE FALSE
    OBVIOUS
  <2> DEFINE numbers == 0 .. c
             f == [i \in numbers |-> Numbered(i)]
  <2>1. f \in [numbers -> used]
    OBVIOUS
  <2>2. IsFiniteSet(numbers) /\ Cardinality(numbers) = c + 1
    <3> HIDE DEF c
    <3> QED
      BY <1>1, FS_Interval
  <2>3. Cardinality(used) < Cardinality(numbers)
    BY <1>1, <2>2
  <2> HIDE DEF f, numbers
  <2>4. PICK x, y \in numbers : x # y /\ f[x] = f[y]
    BY <2>1, <2>2, <2>3, FS_PigeonHole
  <2> QED
    BY <1>2, <2>4 DEF f, numbers
<1>4. \E i \in 0 .. c : Free(i)
  <2> DEFINE S == {i \in 0 .. c : Numbered(i) \notin used}
  <2>1. S # {} /\ S \in SUBSET Nat
    BY <1>1, <1>3
  <2> HIDE DEF S
  <2>2. PICK i \in S : \A m \in S : i <= m
    BY <2>1, LeastElement
  <2>3. i \in 0 .. c /\ Numbered(i) \notin used
    BY DEF S
  <2>4. ASSUME NEW j \in 0 .. i - 1 PROVE Numbered(j) \in used
    <3>1. j \in 0 .. c /\ ~(i <= j)
      BY <1>1, <2>3
    <3> QED
      BY <2>2, <3>1 DEF S
  <2> QED
    BY <2>3, <2>4
<1>5. FreeSlug(base, used) = Numbered(CHOOSE i \in 0 .. c : Free(i))
  BY DEF FreeSlug, Numbered
<1> DEFINE least == CHOOSE i \in 0 .. c : Free(i)
<1>6. Free(least)
  BY <1>4
<1> HIDE DEF least
<1> QED
  BY <1>5, <1>6 DEF least

\* The names of the sections, one after the other.
LEMMA SlugsAre ==
    ASSUME NEW package \in NotePackages
    PROVE  LET slugs == UniqueSlugs(package)
           IN /\ DOMAIN slugs = 1 .. Len(package.headings)
              /\ slugs = [k \in 1 .. Len(package.headings) |-> slugs[k]]
              /\ \A k \in 1 .. Len(package.headings) :
                    slugs[k] = FreeSlug(package.headings[k].slug,
                                        {slugs[j] : j \in 1 .. k - 1})
<1> DEFINE headings == package.headings
           N == Len(headings)
           Name(k, used) == FreeSlug(headings[k].slug, used)
           IsNames(n, f) ==
               f = [k \in 1 .. n |-> Name(k, {f[j] : j \in 1 .. k - 1})]
           S == {n \in 0 .. N : \E f : IsNames(n, f)}
           slugs == CHOOSE f : IsNames(N, f)
<1>1. headings \in Seq([slug : Seq(STRING), body : STRING])
  BY ProjectionAssumption
<1>2. N \in Nat /\ DOMAIN headings = 1 .. N
  BY <1>1
<1>3. UniqueSlugs(package) = slugs
  BY <1>2 DEF UniqueSlugs
<1> HIDE DEF Name, N, headings
<1>4. 0 \in S
  <2> DEFINE f == [k \in 1 .. 0 |-> 0]
  <2>1. \A k \in 1 .. 0 : FALSE
    OBVIOUS
  <2>2. f = [k \in 1 .. 0 |-> Name(k, {f[j] : j \in 1 .. k - 1})]
    BY <2>1
  <2>3. IsNames(0, f)
    BY <2>2
  <2> HIDE DEF f, IsNames
  <2> QED
    BY <1>2, <2>3
<1>5. ASSUME NEW n \in 0 .. N - 1, n \in S PROVE n + 1 \in S
  <2>1. PICK f : IsNames(n, f)
    BY <1>5
  <2> DEFINE g == [k \in 1 .. n + 1 |->
                      IF k = n + 1 THEN Name(n + 1, {f[j] : j \in 1 .. n}) ELSE f[k]]
  <2>2. n + 1 \in 0 .. N /\ n \in Nat
    BY <1>2
  <2>3. \A k \in 1 .. n : g[k] = f[k] /\ f[k] = Name(k, {f[j] : j \in 1 .. k - 1})
    <3>1. \A k \in 1 .. n : k \in 1 .. n + 1 /\ k # n + 1
      BY <2>2
    <3>2. \A k \in 1 .. n : f[k] = Name(k, {f[j] : j \in 1 .. k - 1})
      BY <2>1
    <3>3. \A k \in 1 .. n : g[k] = f[k]
      BY <3>1
    <3> QED
      BY <3>2, <3>3
  <2>4. ASSUME NEW k \in 1 .. n + 1 PROVE g[k] = Name(k, {g[j] : j \in 1 .. k - 1})
    <3>1. 1 .. k - 1 \subseteq 1 .. n
      BY <2>2
    <3> HIDE DEF g
    <3>2. {g[j] : j \in 1 .. k - 1} = {f[j] : j \in 1 .. k - 1}
      BY <2>3, <3>1
    <3>3. CASE k = n + 1
      <4>1. k - 1 = n
        BY <2>2, <3>3
      <4>2. g[k] = Name(k, {f[j] : j \in 1 .. n})
        BY <3>3 DEF g
      <4> QED
        BY <3>2, <4>1, <4>2
    <3>4. CASE k \in 1 .. n
      BY <2>3, <3>2, <3>4
    <3> QED
      BY <2>2, <3>3, <3>4
  <2>5. g = [k \in 1 .. n + 1 |-> g[k]]
    OBVIOUS
  <2> HIDE DEF g
  <2>6. IsNames(n + 1, g)
    BY <2>4, <2>5
  <2> HIDE DEF IsNames
  <2> QED
    BY <2>2, <2>6
<1>6. \E f : IsNames(N, f)
  <2> HIDE DEF S
  <2>1. 0 .. N \subseteq S
    BY <1>2, <1>4, <1>5, BoundedInduction
  <2>2. N \in S
    BY <1>2, <2>1
  <2> QED
    BY <2>2 DEF S
<1>7. IsNames(N, slugs)
  <2> HIDE DEF IsNames
  <2> QED
    BY <1>6
<1> HIDE DEF slugs
<1>8. DOMAIN slugs = 1 .. N /\ slugs = [k \in 1 .. N |-> slugs[k]]
      /\ \A k \in 1 .. N : slugs[k] = Name(k, {slugs[j] : j \in 1 .. k - 1})
  BY <1>7
<1> QED
  BY <1>3, <1>8 DEF N, headings, Name

\* No two headings have the same name.
LEMMA SlugsDiffer ==
    ASSUME NEW package \in NotePackages
    PROVE  \A j, k \in 1 .. Len(package.headings) :
              UniqueSlugs(package)[j] = UniqueSlugs(package)[k] => j = k
<1> DEFINE headings == package.headings
           N == Len(headings)
           slugs == UniqueSlugs(package)
           T == STRING \cup {ToString(i) : i \in 1 .. N}
           used(k) == {slugs[j] : j \in 1 .. k - 1}
           Heading == [slug : Seq(STRING), body : STRING]
<1>1. headings \in Seq(Heading)
      /\ \A i, j \in DOMAIN headings : ToString(i) = ToString(j) => i = j
  BY ProjectionAssumption
<1>2. N \in Nat /\ DOMAIN headings = 1 .. N
  BY <1>1
<1>3. \A k \in 1 .. N : headings[k].slug \in Seq(T)
  <2>1. \A h \in Heading : h.slug \in Seq(STRING)
    OBVIOUS
  <2> HIDE DEF Heading, headings
  <2>2. \A k \in 1 .. N : headings[k].slug \in Seq(STRING)
    BY <1>1, <1>2, <2>1
  <2>3. STRING \subseteq T
    OBVIOUS
  <2> HIDE DEF T
  <2> QED
    BY <2>2, <2>3, WiderSeq
<1>4. \A k \in 1 .. N : slugs[k] = FreeSlug(headings[k].slug, used(k))
  BY SlugsAre
<1> HIDE DEF slugs
<1>5. ASSUME NEW k \in 1 .. N
      PROVE  IsFiniteSet(used(k)) /\ Cardinality(used(k)) <= N
  <2> DEFINE before == [j \in 1 .. k - 1 |-> slugs[j]]
  <2>1. before \in Surjection(1 .. k - 1, used(k))
    BY DEF Surjection
  <2>2. k - 1 \in Nat /\ k - 1 <= N
    BY <1>2
  <2>3. IsFiniteSet(1 .. k - 1) /\ Cardinality(1 .. k - 1) = k - 1
    <3> DEFINE m == k - 1
    <3>1. m \in Nat
      BY <2>2
    <3> HIDE DEF m
    <3>2. IsFiniteSet(1 .. m) /\ Cardinality(1 .. m) = m
      BY <3>1, FS_Interval
    <3> QED
      BY <3>2 DEF m
  <2> HIDE DEF before, used
  <2>4. IsFiniteSet(used(k)) /\ Cardinality(used(k)) <= k - 1
    BY <2>1, <2>3, FS_Surjection
  <2>5. Cardinality(used(k)) \in Nat
    BY <2>4, FS_CardinalityType
  <2> QED
    BY <1>2, <2>2, <2>4, <2>5
<1>6. \A i \in 1 .. N : ToString(i) \in T
  OBVIOUS
<1>7. \A i, j \in 1 .. N : ToString(i) = ToString(j) => i = j
  BY <1>1, <1>2
<1> HIDE DEF headings, N, T
<1>8. ASSUME NEW k \in 1 .. N PROVE slugs[k] \notin used(k)
  <2>1. IsFiniteSet(used(k)) /\ Cardinality(used(k)) <= N
    BY <1>5
  <2>2. headings[k].slug \in Seq(T)
    BY <1>3
  <2> HIDE DEF used
  <2>3. FreeSlug(headings[k].slug, used(k)) \notin used(k)
    BY <1>2, <1>6, <1>7, <2>1, <2>2, FreeSlugIsFree
  <2> QED
    BY <1>4, <2>3
<1>9. ASSUME NEW j \in 1 .. N, NEW k \in 1 .. N, j < k PROVE slugs[j] # slugs[k]
  <2>1. j \in 1 .. k - 1
    BY <1>2, <1>9
  <2> QED
    BY <1>8, <2>1
<1>10. \A j, k \in 1 .. N : j < k \/ k < j \/ j = k
  BY <1>2
<1> QED
  BY <1>9, <1>10 DEF N, headings, slugs

-----------------------------------------------------------------------------
(* ObsidianProjection: files *)

NamesOf(package) == DOMAIN Files(package)

LEMMA FilesAre ==
    ASSUME NEW package \in NotePackages
    PROVE  LET slugs == UniqueSlugs(package)
               headings == package.headings
           IN /\ NamesOf(package) =
                    {OverviewName} \cup {slugs[k] : k \in 1 .. Len(headings)}
              /\ NamesOf(package) \subseteq NoteNames
              /\ \A k \in 1 .. Len(headings) :
                    Files(package)[slugs[k]] = Note("section", <<>>, headings[k].body)
              /\ (\A k \in 1 .. Len(headings) : slugs[k] # OverviewName) =>
                    Files(package)[OverviewName] = Overview(package)
<1> DEFINE slugs == UniqueSlugs(package)
           headings == package.headings
           N == Len(headings)
           names == {OverviewName} \cup {slugs[k] : k \in DOMAIN slugs}
           holder(name) == CHOOSE k \in DOMAIN slugs : slugs[k] = name
           Entry(name) == IF \E k \in DOMAIN slugs : slugs[k] = name
                          THEN Note("section", <<>>, headings[holder(name)].body)
                          ELSE Overview(package)
<1>1. DOMAIN slugs = 1 .. N
  BY SlugsAre
<1>2. \A j, k \in 1 .. N : slugs[j] = slugs[k] => j = k
  BY SlugsDiffer
<1>3. Files(package) = [name \in names |-> Entry(name)]
  BY DEF Files
<1> HIDE DEF slugs, headings, N
<1>4. NamesOf(package) = {OverviewName} \cup {slugs[k] : k \in 1 .. N}
  BY <1>1, <1>3 DEF NamesOf
<1>5. ASSUME NEW k \in 1 .. N
      PROVE  Files(package)[slugs[k]] = Note("section", <<>>, headings[k].body)
  <2>1. slugs[k] \in names
    BY <1>1
  <2>2. holder(slugs[k]) = k
    BY <1>1, <1>2
  <2>3. Entry(slugs[k]) = Note("section", <<>>, headings[k].body)
    BY <1>1, <2>2
  <2> HIDE DEF Entry, names
  <2> QED
    BY <1>3, <2>1, <2>3
<1>6. (\A k \in 1 .. N : slugs[k] # OverviewName) =>
         Files(package)[OverviewName] = Overview(package)
  BY <1>1, <1>3
<1>7. NamesOf(package) \subseteq NoteNames
  BY DEF NamesOf, NoteNames
<1> HIDE DEF Entry, names
<1> QED
  BY <1>4, <1>5, <1>6, <1>7 DEF slugs, headings, N

\* The entries in their order are the files: each of them, and no other.
LEMMA InOrderIs ==
    ASSUME NEW package \in NotePackages
    PROVE  /\ InOrder(package) \in Seq(NamesOf(package))
           /\ \A name \in NamesOf(package) : Contains(InOrder(package), name)
<1> DEFINE slugs == UniqueSlugs(package)
           N == Len(package.headings)
           V == Seq(NamesOf(package))
           Insert(names, slug) ==
               IF Contains(names, slug) THEN names ELSE Append(names, slug)
           IsFold(f) ==
               f = [s \in SUBSET (1 .. N) |->
                       IF s = {} THEN <<OverviewName>>
                       ELSE Insert(f[s \ {LastOf(s)}], slugs[LastOf(s)])]
           fold == CHOOSE f : IsFold(f)
           step == [c \in V \X (1 .. N) |-> Insert(c[1], slugs[c[2]])]
<1>1. DOMAIN slugs = 1 .. N
      /\ NamesOf(package) = {OverviewName} \cup {slugs[k] : k \in 1 .. N}
  BY SlugsAre, FilesAre
<1>2. N \in Nat
  BY ProjectionAssumption
<1>3. InOrder(package) = fold[1 .. N]
  <2>1. InOrder(package) = FoldLeft(Insert, <<OverviewName>>, slugs)
    BY DEF InOrder
  <2> HIDE DEF slugs, N
  <2> QED
    BY <1>1, <2>1 DEF FoldLeft, MapThenFoldSet, Max, LastOf
<1> HIDE DEF slugs, N
<1>4. <<OverviewName>> \in V
  BY <1>1
<1>5. \A names \in V, k \in 1 .. N :
         /\ Insert(names, slugs[k]) \in V
         /\ Contains(Insert(names, slugs[k]), slugs[k])
         /\ \A name : Contains(names, name) => Contains(Insert(names, slugs[k]), name)
  <2> SUFFICES ASSUME NEW names \in V, NEW k \in 1 .. N
               PROVE  /\ Insert(names, slugs[k]) \in V
                      /\ Contains(Insert(names, slugs[k]), slugs[k])
                      /\ \A name : Contains(names, name) =>
                                      Contains(Insert(names, slugs[k]), name)
    OBVIOUS
  <2>1. CASE Contains(names, slugs[k])
    BY <2>1
  <2>2. CASE ~Contains(names, slugs[k])
    <3> DEFINE more == Append(names, slugs[k])
    <3>1. Insert(names, slugs[k]) = more
      BY <2>2
    <3>2. slugs[k] \in NamesOf(package)
      BY <1>1
    <3>3. /\ more \in V /\ Len(more) = Len(names) + 1 /\ Len(names) \in Nat
          /\ more[Len(names) + 1] = slugs[k]
          /\ \A i \in 1 .. Len(names) : more[i] = names[i]
      BY <3>2
    <3> HIDE DEF more
    <3>4. Contains(more, slugs[k])
      BY <3>3 DEF Contains
    <3>5. \A name : Contains(names, name) => Contains(more, name)
      BY <3>3 DEF Contains
    <3> QED
      BY <3>1, <3>3, <3>4, <3>5
  <2> QED
    BY <2>1, <2>2
<1> HIDE DEF Insert, V
<1>6. \E f : IsFold(f)
  <2>1. step \in [V \X (1 .. N) -> V]
    BY <1>5
  <2> HIDE DEF step
  <2>2. PICK f : FoldsPrefixes(f, V, N, <<OverviewName>>, step)
    BY <1>2, <1>4, <2>1, PrefixFold
  <2>3. f = [s \in SUBSET (1 .. N) |-> f[s]] /\ f[{}] = <<OverviewName>>
    BY <2>2 DEF FoldsPrefixes
  <2>4. \A s \in SUBSET (1 .. N) : s # {} =>
           f[s] = Insert(f[s \ {LastOf(s)}], slugs[LastOf(s)])
    BY <2>2 DEF step, FoldsPrefixes
  <2>5. IsFold(f)
    BY <2>3, <2>4
  <2> HIDE DEF IsFold
  <2> QED
    BY <2>5
<1>7. IsFold(fold)
  <2> HIDE DEF IsFold
  <2> QED
    BY <1>6
<1>8. \A s \in SUBSET (1 .. N) :
         fold[s] = IF s = {} THEN <<OverviewName>>
                   ELSE Insert(fold[s \ {LastOf(s)}], slugs[LastOf(s)])
  BY <1>7
<1> HIDE DEF fold, IsFold
<1>9. \A n \in 0 .. N : /\ fold[1 .. n] \in V
                        /\ Contains(fold[1 .. n], OverviewName)
                        /\ \A k \in 1 .. n : Contains(fold[1 .. n], slugs[k])
  <2> DEFINE S == {n \in 0 .. N : /\ fold[1 .. n] \in V
                                  /\ Contains(fold[1 .. n], OverviewName)
                                  /\ \A k \in 1 .. n : Contains(fold[1 .. n], slugs[k])}
  <2>1. 0 \in S
    <3>1. 1 .. 0 = {}
      OBVIOUS
    <3>2. fold[{}] = <<OverviewName>>
      BY <1>8
    <3>3. Contains(<<OverviewName>>, OverviewName)
      BY DEF Contains
    <3>4. 0 \in 0 .. N
      BY <1>2
    <3> QED
      BY <1>4, <3>1, <3>2, <3>3, <3>4
  <2>2. ASSUME NEW n \in 0 .. N - 1, n \in S PROVE n + 1 \in S
    <3> DEFINE m == n + 1
    <3>1. /\ m \in Nat \ {0} /\ m \in 1 .. N /\ m \in 0 .. N /\ m - 1 = n
          /\ m \in 1 .. m /\ \A i \in 1 .. m : i \in 1 .. N /\ (i \in 1 .. n \/ i = m)
      BY <1>2
    <3> HIDE DEF m
    <3>2. LastOf(1 .. m) = m /\ (1 .. m) \ {LastOf(1 .. m)} = 1 .. m - 1
      BY <3>1, LastOfPrefix
    <3>3. 1 .. m \in SUBSET (1 .. N) /\ 1 .. m # {}
      BY <3>1
    <3>4. fold[1 .. m] = Insert(fold[1 .. n], slugs[m])
      BY <1>8, <3>1, <3>2, <3>3
    <3>5. /\ fold[1 .. n] \in V /\ Contains(fold[1 .. n], OverviewName)
          /\ \A k \in 1 .. n : Contains(fold[1 .. n], slugs[k])
      BY <2>2
    <3>6. /\ fold[1 .. m] \in V /\ Contains(fold[1 .. m], OverviewName)
          /\ \A k \in 1 .. m : Contains(fold[1 .. m], slugs[k])
      BY <1>5, <3>1, <3>4, <3>5
    <3> QED
      BY <3>1, <3>6 DEF m
  <2> HIDE DEF S
  <2>3. 0 .. N \subseteq S
    BY <1>2, <2>1, <2>2, BoundedInduction
  <2> QED
    BY <2>3 DEF S
<1>10. N \in 0 .. N
  BY <1>2
<1> QED
  BY <1>1, <1>3, <1>9, <1>10 DEF V

-----------------------------------------------------------------------------
(* ObsidianProjection: the commands *)

\* What the record of a projection is made of.
Projector(packages, rests, mets) ==
    [pc : {"idle", "check", "exists", "replace"}, package : packages, rest : rests,
     met : mets, answer : {"none", "ok", "conflict", "error"}]

AnyPackage == NotePackages \cup {NoPackage}

NotesMet ==
    (UNION {{Files(package)[name] : name \in DOMAIN Files(package)} :
               package \in NotePackages}) \cup {NoNote, UserNote}

\* A note is none, the user's, or one of that name of a package.
Explains(name, note) ==
    \/ note \in {NoNote, UserNote}
    \/ \E package \in NotePackages :
          name \in NamesOf(package) /\ note = Files(package)[name]

Formed(new) ==
    /\ new \in Projector(AnyPackage, Seq(NoteNames), NotesMet)
    /\ new.pc # "idle" =>
           /\ new.package \in NotePackages /\ new.answer = "none"
           /\ new.rest \in Seq(NamesOf(new.package))
    /\ new.pc = "replace" => new.rest # <<>>
    /\ new.answer = "conflict" =>
           \/ new.met = UserNote
           \/ \E package \in NotePackages \ {new.package} :
                  \E name \in NamesOf(package) : Files(package)[name] = new.met

\* What is checked is absent or as it will be written; from the second loop on
\* that is so of every file, and those behind are there.
Undisturbed(new, dir) ==
    LET files == Files(new.package)
    IN /\ new.pc = "check" => \A name \in NamesOf(new.package) :
              Contains(new.rest, name) \/ dir[name] \in {NoNote, files[name]}
       /\ new.pc \in {"exists", "replace"} => \A name \in NamesOf(new.package) :
              /\ dir[name] \in {NoNote, files[name]}
              /\ Contains(new.rest, name) \/ dir[name] = files[name]
       /\ new.answer = "ok" =>
              /\ new.package \in NotePackages
              /\ \A name \in NamesOf(new.package) : dir[name] = files[name]

ObsidianInv ==
    /\ DOMAIN notes = NoteNames
    /\ \A name \in NoteNames : Explains(name, notes[name])
    /\ raced \in [Projectors -> BOOLEAN]
    /\ DOMAIN projector = Projectors
    /\ \A p \in Projectors : Formed(projector[p])
    /\ \A p \in Projectors : ~raced[p] => Undisturbed(projector[p], notes)

LEMMA ExplainedIsMet ==
    ASSUME NEW name, NEW note, Explains(name, note)
    PROVE  note \in NotesMet
<1> DEFINE Of(package) == {Files(package)[n] : n \in DOMAIN Files(package)}
<1>1. NotesMet = (UNION {Of(package) : package \in NotePackages}) \cup {NoNote, UserNote}
  BY DEF NotesMet
<1>2. ASSUME NEW package \in NotePackages, name \in NamesOf(package),
             note = Files(package)[name]
      PROVE  note \in Of(package)
  BY <1>2 DEF NamesOf
<1> HIDE DEF Of
<1> QED
  BY <1>1, <1>2 DEF Explains

LEMMA FailFits ==
    ASSUME NEW answer \in {"none", "error"}, NEW dir
    PROVE  Formed(Fail(answer)) /\ Undisturbed(Fail(answer), dir)
<1> DEFINE rests == Seq(NoteNames)
<1>1. <<>> \in rests
  OBVIOUS
<1> HIDE DEF rests
<1>2. /\ Fail(answer) \in Projector(AnyPackage, rests, NotesMet)
      /\ Fail(answer).pc = "idle" /\ Fail(answer).answer = answer
  BY <1>1 DEF Fail, IdleProjector, Projector, AnyPackage, NotesMet
<1> QED
  BY <1>2 DEF Formed, Undisturbed, rests

LEMMA ObsidianInitial == ObsidianInit => ObsidianInv
<1> SUFFICES ASSUME ObsidianInit PROVE ObsidianInv
  OBVIOUS
<1>1. IdleProjector = Fail("none")
  BY DEF IdleProjector, Fail
<1>2. \A p \in Projectors : projector[p] = Fail("none")
  BY <1>1 DEF ObsidianInit
<1>3. \A name \in NoteNames : Explains(name, notes[name])
  BY DEF ObsidianInit, Explains
<1>4. \A p \in Projectors : Formed(projector[p]) /\ Undisturbed(projector[p], notes)
  BY <1>2, FailFits
<1> QED
  BY <1>3, <1>4 DEF ObsidianInv, ObsidianInit

\* One projection moves; the others see the directory as it was, or are told.
LEMMA OneMoves ==
    ASSUME ObsidianInv, NEW p \in Projectors, NEW new, Formed(new),
           projector' = [projector EXCEPT ![p] = new],
           DOMAIN notes' = NoteNames,
           \A name \in NoteNames : Explains(name, notes'[name]),
           raced' \in [Projectors -> BOOLEAN],
           ~raced'[p] => Undisturbed(new, notes'),
           \A q \in Projectors \ {p} :
              raced'[q] \/ (notes' = notes /\ raced'[q] = raced[q])
    PROVE  ObsidianInv'
<1>1. /\ DOMAIN projector' = Projectors /\ projector'[p] = new
      /\ \A q \in Projectors \ {p} : projector'[q] = projector[q]
  BY DEF ObsidianInv
<1>2. \A q \in Projectors : Formed(projector'[q])
  BY <1>1 DEF ObsidianInv
<1>3. \A q \in Projectors : ~raced'[q] => Undisturbed(projector'[q], notes')
  BY <1>1 DEF ObsidianInv
<1>4. \A q \in Projectors : Formed(projector[q])'
  BY <1>2 DEF Formed
<1>5. \A q \in Projectors : (~raced[q] => Undisturbed(projector[q], notes))'
  BY <1>3 DEF Undisturbed
<1>6. \A name \in NoteNames : Explains(name, notes[name])'
  BY DEF Explains
<1> QED
  BY <1>1, <1>4, <1>5, <1>6 DEF ObsidianInv

\* A step of a projection that leaves the directory.
LEMMA OnlyMoves ==
    ASSUME ObsidianInv, NEW p \in Projectors, NEW new, Formed(new),
           ~raced[p] => Undisturbed(new, notes),
           projector' = [projector EXCEPT ![p] = new], UNCHANGED <<notes, raced>>
    PROVE  ObsidianInv'
<1>1. /\ notes' = notes /\ raced' = raced /\ DOMAIN notes = NoteNames
      /\ \A name \in NoteNames : Explains(name, notes[name])
      /\ raced \in [Projectors -> BOOLEAN]
  BY DEF ObsidianInv
<1> QED
  BY <1>1, OneMoves

\* The files that are still ahead, but for the first of them.
LEMMA TailOf ==
    ASSUME NEW V, NEW list \in Seq(V), list # <<>>
    PROVE  /\ Head(list) \in V /\ Tail(list) \in Seq(V)
           /\ \A name : Contains(list, name) => name = Head(list) \/ Contains(Tail(list), name)
<1>1. /\ Head(list) = list[1] /\ Head(list) \in V
      /\ Len(Tail(list)) = Len(list) - 1 /\ Len(list) \in Nat \ {0}
      /\ Tail(list) \in Seq(V)
      /\ \A i \in 1 .. Len(list) - 1 : Tail(list)[i] = list[i + 1]
  OBVIOUS
<1>2. ASSUME NEW name, NEW i \in 1 .. Len(list), list[i] = name, i # 1
      PROVE  i - 1 \in 1 .. Len(list) - 1 /\ Tail(list)[i - 1] = name
  <2>1. i - 1 \in 1 .. Len(list) - 1 /\ (i - 1) + 1 = i
    BY <1>1, <1>2
  <2>2. Tail(list)[i - 1] = list[(i - 1) + 1]
    BY <1>1, <2>1
  <2> QED
    BY <1>2, <2>1, <2>2
<1> QED
  BY <1>1, <1>2 DEF Contains

LEMMA ObsidianStep == ObsidianInv /\ [ObsidianNext]_obsidianVars => ObsidianInv'
<1> SUFFICES ASSUME ObsidianInv, [ObsidianNext]_obsidianVars PROVE ObsidianInv'
  OBVIOUS
<1> DEFINE rests == Seq(NoteNames)
           Records == Projector(AnyPackage, rests, NotesMet)
<1>0. \A p \in Projectors : /\ projector[p] \in Records /\ Formed(projector[p])
                            /\ ~raced[p] => Undisturbed(projector[p], notes)
  BY DEF ObsidianInv, Formed
<1>00. \A package \in NotePackages : Seq(NamesOf(package)) \subseteq rests
  <2> SUFFICES ASSUME NEW package \in NotePackages
               PROVE  Seq(NamesOf(package)) \subseteq Seq(NoteNames)
    OBVIOUS
  <2>1. NamesOf(package) \subseteq NoteNames
    BY FilesAre
  <2> QED
    BY <2>1, WiderSeq
<1> HIDE DEF rests
<1>1. ASSUME NEW p \in Projectors, NEW package \in NotePackages, NEW stored,
             StartProjection(p, package, stored)
      PROVE  ObsidianInv'
  <2> DEFINE new == [IdleProjector EXCEPT !.pc = "check", !.package = package,
                                          !.rest = InOrder(package)]
  <2>1. /\ notes' = notes /\ raced' = [raced EXCEPT ![p] = FALSE]
        /\ \/ projector' = [projector EXCEPT ![p] = new]
           \/ projector' = [projector EXCEPT ![p] = Fail("error")]
    BY <1>1 DEF StartProjection, Projecting
  <2>2. Formed(new) /\ Undisturbed(new, notes)
    <3>1. /\ InOrder(package) \in Seq(NamesOf(package))
          /\ \A name \in NamesOf(package) : Contains(InOrder(package), name)
      BY InOrderIs
    <3>2. InOrder(package) \in rests
      BY <1>00, <3>1
    <3>3. Fail("none") \in Records /\ IdleProjector = Fail("none")
      BY FailFits DEF Formed, rests, Fail, IdleProjector
    <3>4. new \in Records /\ new.pc = "check" /\ new.package = package
          /\ new.rest = InOrder(package) /\ new.answer = "none"
      BY <3>2, <3>3 DEF Projector, AnyPackage, IdleProjector
    <3> HIDE DEF new
    <3> QED
      BY <3>1, <3>4 DEF Formed, Undisturbed, rests
  <2> HIDE DEF new
  <2>3. Formed(Fail("error")) /\ Undisturbed(Fail("error"), notes)
    BY FailFits
  <2>4. PICK some : /\ projector' = [projector EXCEPT ![p] = some]
                    /\ Formed(some) /\ Undisturbed(some, notes)
    BY <2>1, <2>2, <2>3
  <2>5. /\ raced' \in [Projectors -> BOOLEAN]
        /\ \A q \in Projectors \ {p} : raced'[q] = raced[q]
    BY <2>1 DEF ObsidianInv
  <2>6. DOMAIN notes' = NoteNames /\ \A name \in NoteNames : Explains(name, notes'[name])
    BY <2>1 DEF ObsidianInv
  <2> QED
    BY <2>1, <2>4, <2>5, <2>6, OneMoves
<1>2. ASSUME NEW p \in Projectors, CheckNote(p) PROVE ObsidianInv'
  <2> DEFINE old == projector[p]
             again == [old EXCEPT !.pc = "exists", !.rest = InOrder(old.package)]
             refused == [Finish(p, "conflict") EXCEPT !.met = notes[Target(p)]]
  <2>1. UNCHANGED <<notes, raced>> /\ old.pc = "check"
        /\ \/ /\ old.rest = <<>>
              /\ projector' = [projector EXCEPT ![p] = again]
           \/ /\ old.rest # <<>> /\ notes[Target(p)] \in {NoNote, Planned(p)}
              /\ projector' = [projector EXCEPT ![p] = Advance(p)]
           \/ /\ old.rest # <<>> /\ notes[Target(p)] \notin {NoNote, Planned(p)}
              /\ projector' = [projector EXCEPT ![p] = refused]
    BY <1>2 DEF CheckNote, Projecting
  <2>2. /\ old \in Records /\ old.package \in NotePackages /\ old.answer = "none"
        /\ old.rest \in Seq(NamesOf(old.package))
        /\ ~raced[p] => Undisturbed(old, notes)
    BY <1>0, <2>1 DEF Formed
  <2> HIDE DEF old
  <2>3. CASE old.rest = <<>> /\ projector' = [projector EXCEPT ![p] = again]
    <3>1. /\ InOrder(old.package) \in Seq(NamesOf(old.package))
          /\ \A name \in NamesOf(old.package) : Contains(InOrder(old.package), name)
      BY <2>2, InOrderIs
    <3>2. InOrder(old.package) \in rests
      BY <1>00, <2>2, <3>1
    <3>3. again \in Records /\ again.pc = "exists" /\ again.package = old.package
          /\ again.rest = InOrder(old.package) /\ again.answer = "none"
      BY <2>2, <3>2 DEF Projector
    <3>4. \A name : ~Contains(<<>>, name)
      BY DEF Contains
    <3> HIDE DEF again
    <3>5. Formed(again)
      BY <2>2, <3>1, <3>3 DEF Formed, rests
    <3>6. ~raced[p] => Undisturbed(again, notes)
      BY <2>1, <2>2, <2>3, <3>1, <3>3, <3>4 DEF Undisturbed
    <3> QED
      BY <2>1, <2>3, <3>5, <3>6, OnlyMoves
  <2>4. CASE old.rest # <<>> /\ notes[Target(p)] \in {NoNote, Planned(p)}
             /\ projector' = [projector EXCEPT ![p] = Advance(p)]
    <3> DEFINE new == Advance(p)
    <3>1. /\ Tail(old.rest) \in Seq(NamesOf(old.package))
          /\ \A name : Contains(old.rest, name) =>
                name = Head(old.rest) \/ Contains(Tail(old.rest), name)
      BY <2>2, <2>4, TailOf
    <3>2. Tail(old.rest) \in rests
      BY <1>00, <2>2, <3>1
    <3>3. new \in Records /\ new.pc = "check" /\ new.package = old.package
          /\ new.rest = Tail(old.rest) /\ new.answer = "none"
      BY <2>1, <2>2, <3>2 DEF Projector, Advance, old
    <3>4. notes[Head(old.rest)] \in {NoNote, Files(old.package)[Head(old.rest)]}
      BY <2>4 DEF Target, Planned, old
    <3> HIDE DEF new
    <3>5. Formed(new)
      BY <2>2, <3>1, <3>3 DEF Formed, rests
    <3>6. ~raced[p] => Undisturbed(new, notes)
      BY <2>1, <2>2, <3>1, <3>3, <3>4 DEF Undisturbed
    <3> QED
      BY <2>1, <2>4, <3>5, <3>6, OnlyMoves DEF new
  <2>5. CASE old.rest # <<>> /\ notes[Target(p)] \notin {NoNote, Planned(p)}
             /\ projector' = [projector EXCEPT ![p] = refused]
    <3> DEFINE name == Target(p)
    <3>1. name \in NamesOf(old.package) /\ name \in NoteNames
      <4>1. Head(old.rest) \in NamesOf(old.package)
        BY <2>2, <2>5, TailOf
      <4>2. NamesOf(old.package) \subseteq NoteNames
        BY <2>2, FilesAre
      <4> QED
        BY <4>1, <4>2 DEF Target, old
    <3>2. Explains(name, notes[name])
      BY <3>1 DEF ObsidianInv
    <3>3. notes[name] \in NotesMet
      BY <3>2, ExplainedIsMet
    <3>4. notes[name] # NoNote /\ notes[name] # Files(old.package)[name]
      BY <2>5 DEF Planned, old
    <3> HIDE DEF name
    <3>5. <<>> \in rests
      BY DEF rests
    <3>6. refused \in Records /\ refused.pc = "idle" /\ refused.package = old.package
          /\ refused.met = notes[name] /\ refused.answer = "conflict"
      BY <2>2, <3>3, <3>5 DEF Projector, Finish, name, old
    <3> HIDE DEF refused
    <3>7. \/ notes[name] = UserNote
          \/ \E package \in NotePackages \ {old.package} :
                \E n \in NamesOf(package) : Files(package)[n] = notes[name]
      BY <3>2, <3>4 DEF Explains
    <3>8. Formed(refused)
      BY <3>6, <3>7 DEF Formed, rests
    <3>9. Undisturbed(refused, notes)
      BY <3>6 DEF Undisturbed
    <3> QED
      BY <2>1, <2>5, <3>8, <3>9, OnlyMoves
  <2> QED
    BY <2>1, <2>3, <2>4, <2>5
<1>3. ASSUME NEW p \in Projectors, SkipNote(p) PROVE ObsidianInv'
  <2> DEFINE old == projector[p]
             ready == [old EXCEPT !.pc = "replace"]
  <2>1. UNCHANGED <<notes, raced>> /\ old.pc = "exists" /\ old.rest # <<>>
        /\ \/ /\ notes[Target(p)] # NoNote
              /\ projector' = [projector EXCEPT ![p] = Advance(p)]
           \/ projector' = [projector EXCEPT ![p] = ready]
    BY <1>3 DEF SkipNote, Projecting
  <2>2. /\ old \in Records /\ old.package \in NotePackages /\ old.answer = "none"
        /\ old.rest \in Seq(NamesOf(old.package))
        /\ ~raced[p] => Undisturbed(old, notes)
    BY <1>0, <2>1 DEF Formed
  <2> HIDE DEF old
  <2>3. CASE notes[Target(p)] # NoNote /\ projector' = [projector EXCEPT ![p] = Advance(p)]
    <3> DEFINE new == Advance(p)
    <3>1. /\ Tail(old.rest) \in Seq(NamesOf(old.package))
          /\ Head(old.rest) \in NamesOf(old.package)
          /\ \A name : Contains(old.rest, name) =>
                name = Head(old.rest) \/ Contains(Tail(old.rest), name)
      BY <2>1, <2>2, TailOf
    <3>2. Tail(old.rest) \in rests
      BY <1>00, <2>2, <3>1
    <3>3. new \in Records /\ new.pc = "exists" /\ new.package = old.package
          /\ new.rest = Tail(old.rest) /\ new.answer = "none"
      BY <2>1, <2>2, <3>2 DEF Projector, Advance, old
    <3>4. notes[Head(old.rest)] # NoNote
      BY <2>3 DEF Target, old
    <3> HIDE DEF new
    <3>5. Formed(new)
      BY <2>2, <3>1, <3>3 DEF Formed, rests
    <3>6. ~raced[p] => Undisturbed(new, notes)
      BY <2>1, <2>2, <3>1, <3>3, <3>4 DEF Undisturbed
    <3> QED
      BY <2>1, <2>3, <3>5, <3>6, OnlyMoves DEF new
  <2>4. CASE projector' = [projector EXCEPT ![p] = ready]
    <3>1. ready \in Records /\ ready.pc = "replace" /\ ready.package = old.package
          /\ ready.rest = old.rest /\ ready.answer = "none"
      BY <2>2 DEF Projector
    <3> HIDE DEF ready
    <3>2. Formed(ready)
      BY <2>1, <2>2, <3>1 DEF Formed, rests
    <3>3. ~raced[p] => Undisturbed(ready, notes)
      BY <2>1, <2>2, <3>1 DEF Undisturbed
    <3> QED
      BY <2>1, <2>4, <3>2, <3>3, OnlyMoves
  <2> QED
    BY <2>1, <2>3, <2>4
<1>4. ASSUME NEW p \in Projectors, WriteNote(p) PROVE ObsidianInv'
  <2> DEFINE old == projector[p]
             new == [Advance(p) EXCEPT !.pc = "exists"]
             name == Head(old.rest)
             note == Files(old.package)[name]
  <2>1. /\ old.pc = "replace" /\ projector' = [projector EXCEPT ![p] = new]
        /\ notes' = [notes EXCEPT ![name] = note]
        /\ raced' = [q \in Projectors |-> raced[q] \/ q # p]
    BY <1>4 DEF WriteNote, Projecting, Changes, Target, Planned
  <2>2. /\ old \in Records /\ old.package \in NotePackages /\ old.answer = "none"
        /\ old.rest \in Seq(NamesOf(old.package)) /\ old.rest # <<>>
        /\ ~raced[p] => Undisturbed(old, notes)
    BY <1>0, <2>1 DEF Formed
  <2>3. Advance(p) = [old EXCEPT !.rest = Tail(old.rest)]
    BY DEF Advance
  <2> HIDE DEF old
  <2>4. /\ Tail(old.rest) \in Seq(NamesOf(old.package)) /\ name \in NamesOf(old.package)
        /\ \A n : Contains(old.rest, n) => n = name \/ Contains(Tail(old.rest), n)
    BY <2>2, TailOf
  <2>5. Tail(old.rest) \in rests
    BY <1>00, <2>2, <2>4
  <2>6. new \in Records /\ new.pc = "exists" /\ new.package = old.package
        /\ new.rest = Tail(old.rest) /\ new.answer = "none"
    BY <2>2, <2>3, <2>5 DEF Projector
  <2>7. name \in NoteNames /\ NamesOf(old.package) \subseteq NoteNames
    BY <2>2, <2>4, FilesAre
  <2> HIDE DEF name, note, new
  <2>8. /\ DOMAIN notes' = NoteNames /\ notes'[name] = note
        /\ \A n \in NoteNames \ {name} : notes'[n] = notes[n]
    BY <2>1, <2>7 DEF ObsidianInv
  <2>9. Explains(name, note)
    BY <2>2, <2>4 DEF Explains, note
  <2>10. \A n \in NoteNames : Explains(n, notes'[n])
    BY <2>8, <2>9 DEF ObsidianInv
  <2>11. Formed(new)
    BY <2>2, <2>4, <2>6 DEF Formed, rests
  <2>12. ~raced'[p] => Undisturbed(new, notes')
    <3> SUFFICES ASSUME ~raced'[p] PROVE Undisturbed(new, notes')
      OBVIOUS
    <3>1. Undisturbed(old, notes)
      BY <2>1, <2>2
    <3>2. \A n \in NamesOf(old.package) :
             notes'[n] = IF n = name THEN Files(old.package)[n] ELSE notes[n]
      BY <2>7, <2>8 DEF note
    <3>3. \A n \in NamesOf(old.package) :
             /\ notes[n] \in {NoNote, Files(old.package)[n]}
             /\ Contains(old.rest, n) \/ notes[n] = Files(old.package)[n]
      BY <2>1, <3>1 DEF Undisturbed
    <3> QED
      BY <2>4, <2>6, <3>2, <3>3 DEF Undisturbed
  <2>13. raced' \in [Projectors -> BOOLEAN] /\ \A q \in Projectors \ {p} : raced'[q]
    BY <2>1 DEF ObsidianInv
  <2>14. \A q \in Projectors \ {p} :
            raced'[q] \/ (notes' = notes /\ raced'[q] = raced[q])
    BY <2>13
  <2>15. projector' = [projector EXCEPT ![p] = new] /\ DOMAIN notes' = NoteNames
         /\ raced' \in [Projectors -> BOOLEAN]
    BY <2>1, <2>8, <2>13
  <2> HIDE DEF Records
  <2> QED
    BY <2>10, <2>11, <2>12, <2>14, <2>15, OneMoves
<1>5. ASSUME NEW p \in Projectors, FinishProjection(p) PROVE ObsidianInv'
  <2> DEFINE old == projector[p]
             new == Finish(p, "ok")
  <2>1. UNCHANGED <<notes, raced>> /\ old.pc = "exists" /\ old.rest = <<>>
        /\ projector' = [projector EXCEPT ![p] = new]
    BY <1>5 DEF FinishProjection, Projecting
  <2>2. /\ old \in Records /\ old.package \in NotePackages
        /\ ~raced[p] => Undisturbed(old, notes)
    BY <1>0, <2>1 DEF Formed
  <2> HIDE DEF old
  <2>3. <<>> \in rests
    BY DEF rests
  <2>4. new \in Records /\ new.pc = "idle" /\ new.package = old.package /\ new.answer = "ok"
    BY <2>2, <2>3 DEF Projector, Finish, old
  <2>5. \A name : ~Contains(<<>>, name)
    BY DEF Contains
  <2> HIDE DEF new
  <2>6. Formed(new)
    BY <2>4 DEF Formed, rests
  <2>7. ~raced[p] => Undisturbed(new, notes)
    BY <2>1, <2>2, <2>4, <2>5 DEF Undisturbed
  <2> QED
    BY <2>1, <2>6, <2>7, OnlyMoves
<1>6. ASSUME NEW p \in Projectors, NEW answer \in {"error", "none"},
             StopProjection(p, answer)
      PROVE  ObsidianInv'
  <2>1. Formed(Fail(answer)) /\ Undisturbed(Fail(answer), notes)
    BY FailFits
  <2> QED
    BY <1>6, <2>1, OnlyMoves DEF StopProjection
<1>7. ASSUME NEW name \in NoteNames, NEW note \in {NoNote, UserNote},
             UserEdits(name, note)
      PROVE  ObsidianInv'
  <2>1. /\ projector' = projector /\ notes' = [notes EXCEPT ![name] = note]
        /\ raced' = [p \in Projectors |-> raced[p] \/ p # "user"]
    BY <1>7 DEF UserEdits, Changes
  <2>2. \A p \in Projectors : raced'[p]
    BY <2>1, ProjectionAssumption
  <2>3. raced' \in [Projectors -> BOOLEAN]
    BY <2>1 DEF ObsidianInv
  <2>4. /\ DOMAIN notes' = NoteNames /\ notes'[name] = note
        /\ \A n \in NoteNames \ {name} : notes'[n] = notes[n]
    BY <2>1 DEF ObsidianInv
  <2>5. \A n \in NoteNames : Explains(n, notes'[n])
    BY <2>4 DEF ObsidianInv, Explains
  <2>6. \A n \in NoteNames : Explains(n, notes[n])'
    BY <2>5 DEF Explains
  <2>7. \A p \in Projectors : Formed(projector[p])'
    BY <2>1 DEF ObsidianInv, Formed
  <2> QED
    BY <2>1, <2>2, <2>3, <2>4, <2>6, <2>7 DEF ObsidianInv
<1>8. CASE UNCHANGED obsidianVars
  BY <1>8 DEF obsidianVars, ObsidianInv, Formed, Undisturbed, Explains
<1> QED
  BY <1>1, <1>2, <1>3, <1>4, <1>5, <1>6, <1>7, <1>8 DEF ObsidianNext

\* The inductive invariant of the projections: every note in the directory has an
\* owner, and an undisturbed projection has left the notes it is past.
THEOREM ObsidianInvHolds == ObsidianSpec => []ObsidianInv
BY ObsidianInitial, ObsidianStep, PTL DEF ObsidianSpec

\* A projection is refused only over a note of the user's, or a whole one that
\* another package has (_atomic_write, _reject_conflicts).
THEOREM RefusalHasCause == ObsidianSpec => []RefusedForCause
<1>1. ObsidianInv => RefusedForCause
  BY DEF ObsidianInv, Formed, RefusedForCause, NamesOf
<1> QED
  BY <1>1, ObsidianInvHolds, PTL

\* A projection that nobody disturbed and that succeeds leaves every note of the
\* package, each under a name of its own (project_to_obsidian, _unique_slug).
THEOREM SuccessIsComplete == ObsidianSpec => []OkIsComplete
<1>1. ObsidianInv => OkIsComplete
  <2> SUFFICES ASSUME ObsidianInv, NEW p \in Projectors,
                      projector[p].answer = "ok", ~raced[p]
               PROVE  LET package == projector[p].package
                          headings == package.headings
                          taken == \E k \in DOMAIN headings :
                                      UniqueSlugs(package)[k] = OverviewName
                      IN \E at \in [DOMAIN headings -> NoteNames] :
                            /\ \A j, k \in DOMAIN headings : at[j] = at[k] => j = k
                            /\ \A k \in DOMAIN headings :
                                  notes[at[k]] = Note("section", <<>>, headings[k].body)
                            /\ ~taken => notes[OverviewName] =
                                  Note("overview", [k \in DOMAIN headings |-> at[k]],
                                       PublicFields(package))
    BY DEF OkIsComplete
  <2> DEFINE package == projector[p].package
             headings == package.headings
             N == Len(headings)
             at == UniqueSlugs(package)
  <2>1. /\ package \in NotePackages
        /\ \A name \in NamesOf(package) : notes[name] = Files(package)[name]
    BY DEF ObsidianInv, Undisturbed
  <2> HIDE DEF package
  <2>2. headings \in Seq([slug : Seq(STRING), body : STRING])
    BY <2>1, ProjectionAssumption
  <2>3. DOMAIN headings = 1 .. N
    BY <2>2
  <2>4. DOMAIN at = 1 .. N
    BY <2>1, SlugsAre
  <2>5. \A j, k \in 1 .. N : at[j] = at[k] => j = k
    BY <2>1, SlugsDiffer
  <2>6. /\ NamesOf(package) = {OverviewName} \cup {at[k] : k \in 1 .. N}
        /\ NamesOf(package) \subseteq NoteNames
        /\ \A k \in 1 .. N : Files(package)[at[k]] = Note("section", <<>>, headings[k].body)
        /\ (\A k \in 1 .. N : at[k] # OverviewName) =>
              Files(package)[OverviewName] = Overview(package)
    BY <2>1, FilesAre
  <2>7. at = [k \in 1 .. N |-> at[k]]
    BY <2>1, SlugsAre
  <2>8. Overview(package) = Note("overview", at, PublicFields(package))
    BY DEF Overview
  <2> HIDE DEF headings, N, at
  <2>9. at \in [1 .. N -> NoteNames]
    BY <2>6, <2>7
  <2>10. /\ \A k \in 1 .. N : notes[at[k]] = Note("section", <<>>, headings[k].body)
         /\ (\A k \in 1 .. N : at[k] # OverviewName) =>
               notes[OverviewName] =
                  Note("overview", [k \in 1 .. N |-> at[k]], PublicFields(package))
    <3>1. (\A k \in 1 .. N : at[k] # OverviewName) =>
             notes[OverviewName] = Note("overview", at, PublicFields(package))
      BY <2>1, <2>6, <2>8
    <3>2. \A k \in 1 .. N : notes[at[k]] = Note("section", <<>>, headings[k].body)
      BY <2>1, <2>6
    <3> QED
      BY <2>7, <3>1, <3>2
  <2> QED
    BY <2>3, <2>5, <2>9, <2>10 DEF at, headings, package
<1> QED
  BY <1>1, ObsidianInvHolds, PTL

-----------------------------------------------------------------------------
(* Type correctness *)

LEMMA ProfileTyped == ProfileInv => ProfileTypeOK
<1> SUFFICES ASSUME ProfileInv PROVE ProfileTypeOK
  OBVIOUS
<1>1. samples \in Seq(Sampled)
  BY DEF ProfileInv
<1>2. BuildProfile(samples).status \in {"complete", "partial", "human_review_required"}
  BY <1>1, BuiltIsEarned
<1>3. NoProfile.status = "none" /\ NoReport.distances = {}
  BY DEF NoProfile, NoReport
<1>4. \A text : Compare(profile, text).distances \subseteq MetricKeys
  <2> SUFFICES ASSUME NEW text PROVE Distances(profile.voice, text) \subseteq MetricKeys
    BY DEF Compare
  <2> QED
    BY DEF Distances
<1> QED
  BY <1>1, <1>2, <1>3, <1>4 DEF ProfileInv, ProfileTypeOK

LEMMA CapsuleTyped ==
    /\ CapsuleInit => CapsuleTypeOK
    /\ CapsuleInv /\ CapsuleTypeOK /\ [CapsuleNext]_capsuleVars => CapsuleTypeOK'
<1>1. CapsuleInit => CapsuleTypeOK
  BY DEF CapsuleInit, CapsuleTypeOK
<1> SUFFICES ASSUME CapsuleInv, CapsuleTypeOK, [CapsuleNext]_capsuleVars
             PROVE  CapsuleTypeOK'
  BY <1>1
<1>2. CapsuleInv'
  BY CapsuleStep
<1>3. capsule'.id = printed'.id
  BY <1>2 DEF CapsuleInv
<1>4. ASSUME NEW id \in Ids, NewRevision(id) PROVE CapsuleTypeOK'
  BY <1>3, <1>4 DEF NewRevision, CapsuleTypeOK
<1>5. ASSUME NEW package \in Packages, NEW block, Preview(package, block)
      PROVE  CapsuleTypeOK'
  <2>1. ingested' = ingested /\ verdict' \in {"printed", "refused"}
    BY <1>5 DEF Preview
  <2> QED
    BY <1>3, <2>1 DEF CapsuleTypeOK
<1>6. CASE EditFile
  BY <1>3, <1>6 DEF EditFile, CapsuleTypeOK
<1>7. CASE Validate
  BY <1>3, <1>7 DEF Validate, CapsuleTypeOK
<1>8. CASE UNCHANGED capsuleVars
  BY <1>3, <1>8 DEF capsuleVars, CapsuleTypeOK
<1> QED
  BY <1>4, <1>5, <1>6, <1>7, <1>8 DEF CapsuleNext

LEMMA ExportTyped == ExportInv => ExportTypeOK
BY DEF ExportInv, ExportTypeOK, Exporter, Loaded

\* The directory is a function: its notes are explained one by one.
Directory == notes = [name \in NoteNames |-> notes[name]]

LEMMA DirectoryStays ==
    /\ ObsidianInit => Directory
    /\ ObsidianInv /\ Directory /\ [ObsidianNext]_obsidianVars => Directory'
<1>1. ObsidianInit => Directory
  BY DEF ObsidianInit, Directory
<1>2. ASSUME ObsidianInv, Directory, [ObsidianNext]_obsidianVars PROVE Directory'
  <2>1. notes' = notes \/ \E name, note : notes' = [notes EXCEPT ![name] = note]
    BY <1>2 DEF ObsidianNext, obsidianVars, StartProjection, CheckNote, SkipNote, WriteNote,
                FinishProjection, StopProjection, UserEdits, Changes
  <2> QED
    BY <1>2, <2>1 DEF Directory
<1> QED
  BY <1>1, <1>2

LEMMA ObsidianTyped == ObsidianInv /\ Directory => ObsidianTypeOK
<1> SUFFICES ASSUME ObsidianInv, Directory PROVE ObsidianTypeOK
  OBVIOUS
<1>1. notes \in [NoteNames -> NotesMet]
  <2>1. \A name \in NoteNames : notes[name] \in NotesMet
    BY ExplainedIsMet DEF ObsidianInv
  <2> QED
    BY <2>1 DEF Directory
<1> DEFINE rests == Seq(NoteNames)
<1>2. \A p \in Projectors :
         /\ projector[p].pc \in {"idle", "check", "exists", "replace"}
         /\ projector[p].package \in AnyPackage /\ projector[p].rest \in rests
         /\ projector[p].met \in NotesMet
         /\ projector[p].answer \in {"none", "ok", "conflict", "error"}
  <2> SUFFICES ASSUME NEW p \in Projectors, NEW state, state = projector[p]
               PROVE  /\ state.pc \in {"idle", "check", "exists", "replace"}
                      /\ state.package \in AnyPackage /\ state.rest \in rests
                      /\ state.met \in NotesMet
                      /\ state.answer \in {"none", "ok", "conflict", "error"}
    OBVIOUS
  <2>1. state \in Projector(AnyPackage, rests, NotesMet)
    BY DEF ObsidianInv, Formed
  <2> HIDE DEF rests
  <2> QED
    BY <2>1 DEF Projector
<1>3. raced \in [Projectors -> BOOLEAN]
  BY DEF ObsidianInv
<1> QED
  BY <1>1, <1>2, <1>3 DEF ObsidianTypeOK, NotesMet, AnyPackage

=============================================================================
