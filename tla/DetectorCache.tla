--------------------------- MODULE DetectorCache ----------------------------
(***************************************************************************)
(* Several verify commands that share the detector-score cache, and the    *)
(* health command, which prepares the cache's directory.                   *)
(*                                                                         *)
(* A configured location that looks like a database file may still become  *)
(* a directory: health makes it one, and a verify that resolved the        *)
(* location before that finds no database there.                           *)
(***************************************************************************)
EXTENDS Integers

CONSTANTS
    Verifiers,     \* processes that run the verify command
    DraftTexts         \* texts the verified file may hold, as the features that count

\* The features of a text the local heuristic reads: its length in words and
\* sentences, repeated bigrams in percent, variance of the sentence lengths,
\* personal pronouns, phrases typical of a model, tenths of a character per word.
Features == [words : Nat, sentences : Nat, repeated : 0 .. 100, variance : Nat,
             pronouns : Nat, phrases : Nat, length : Nat]

ASSUME DetectorAssumption == DraftTexts \subseteq Features

Modes == {"strict_local", "private_audited", "regulated"}
Providers == {"local", "gptzero", "unknown"}

VARIABLES
    named,       \* what the name of the cache location looks like
    place,       \* what is at that location
    rows,        \* detector_scores: text, provider and model to score and label
    output,      \* the text of the verified file
    verifier     \* what each process does

cacheVars == <<named, place, rows, output, verifier>>

-----------------------------------------------------------------------------
(* The local heuristic. A score is a number of 30000ths. *)

Unit == 30000
Least(a, b) == IF a < b THEN a ELSE b
Above(a) == IF a > 0 THEN a ELSE 0

\* _compute_component_scores, weighted.
Combined(t) ==
    LET bigrams == 300 * Least(t.repeated, 15)
        variance == 75 * Above(40 - t.variance)
        pronouns == 420 * Above(5 - t.pronouns)
        phrases == 2250 * Least(t.phrases, 6)
        length == 100 * Least(Above(60 - t.length), 30)
    IN bigrams + variance + pronouns + phrases + length

Classify(score) ==
    IF 100 * score < 35 * Unit THEN "human"
    ELSE IF 100 * score < 65 * Unit THEN "uncertain" ELSE "ai"

Insufficient(t) == t.words < 3 \/ t.sentences < 2

Detect(t) ==
    IF Insufficient(t) THEN [score |-> Unit \div 2, label |-> "uncertain"]
    ELSE [score |-> Combined(t), label |-> Classify(Combined(t))]

-----------------------------------------------------------------------------
NoAnswer == [score |-> -1, label |-> "none"]
DetectorAnswers == [score : -1 .. Unit, label : {"human", "uncertain", "ai", "none"}]

Model(provider) == IF provider = "local" THEN "heuristic" ELSE provider
Models == {Model(provider) : provider \in Providers}

\* Mutant: the score is kept for the file, whatever text it holds.
KeyOfFile(t, provider) ==
    [text |-> CHOOSE draft \in DraftTexts : TRUE, provider |-> provider,
     model |-> Model(provider)]

Key(t, provider) == [text |-> t, provider |-> provider, model |-> Model(provider)]

Quiet == [pc |-> "idle", text |-> output, provider |-> "local", path |-> "unset",
          cached |-> FALSE, answer |-> NoAnswer]

DetectorTypeOK ==
    /\ named \in {"directory", "database"}
    /\ place \in {"absent", "directory", "database"}
    /\ DOMAIN rows \subseteq [text : DraftTexts, provider : Providers, model : Models]
    /\ \A key \in DOMAIN rows : rows[key] \in DetectorAnswers
    /\ output \in DraftTexts
    /\ \A v \in Verifiers :
          /\ verifier[v].pc \in {"idle", "get", "detect", "put", "answered", "refused",
                                 "unavailable", "failed"}
          /\ verifier[v].text \in DraftTexts
          /\ verifier[v].path \in {"unset", "inside", "here"}
          /\ verifier[v].answer \in DetectorAnswers
          /\ ~ verifier[v].cached => verifier[v].pc \notin {"get", "put"}

CacheInit ==
    /\ named \in {"directory", "database"}
    /\ place = "absent"
    /\ rows = <<>>
    /\ output \in DraftTexts
    /\ verifier = [v \in Verifiers |-> Quiet]

\* _resolve_db_path: what exists decides, then the suffix of the name.
ResolveDbPath ==
    CASE place = "directory" -> "inside"
      [] place = "database" -> "here"
      [] OTHER -> IF named = "database" THEN "here" ELSE "inside"

Become(v, pc) == verifier' = [verifier EXCEPT ![v].pc = pc]

CacheAllowed(mode, enabled) == enabled /\ mode # "strict_local"

\* verify_cmd up to the first use of the cache: what it refuses, the text it
\* reads, and the location of the cache as it is now.
Verify(v, mode, enabled, provider) ==
    /\ verifier[v].pc = "idle"
    /\ LET refused == \/ mode = "strict_local" /\ provider # "local"
                      \/ provider = "unknown"
           cached == CacheAllowed(mode, enabled)
       IN verifier' = [verifier EXCEPT ![v] =
              [pc |-> IF refused THEN "refused" ELSE IF cached THEN "get" ELSE "detect",
               text |-> output, provider |-> provider, path |-> ResolveDbPath,
               cached |-> cached, answer |-> NoAnswer]]
    /\ UNCHANGED <<named, place, rows, output>>

\* Opening makes what is missing; a location of the other kind does not open.
Opens(v) == place # IF verifier[v].path = "inside" THEN "database" ELSE "directory"

Made(v) == IF verifier[v].path = "inside" THEN "directory" ELSE "database"

Get(v) ==
    /\ verifier[v].pc = "get"
    /\ Opens(v)
    /\ place' = Made(v)
    /\ LET key == Key(verifier[v].text, verifier[v].provider)
       IN IF key \in DOMAIN rows
          THEN verifier' = [verifier EXCEPT ![v].pc = "answered", ![v].answer = rows[key]]
          ELSE Become(v, "detect")
    /\ UNCHANGED <<named, rows, output>>

\* CacheError: a location that does not open, or a database another process
\* has locked. verify_cmd does not catch it.
CacheFails(v) ==
    /\ verifier[v].pc \in {"get", "put"}
    /\ Become(v, "failed")
    /\ place' \in {place} \cup (IF verifier[v].pc = "get" /\ Opens(v) THEN {Made(v)} ELSE {})
    /\ UNCHANGED <<named, rows, output>>

\* The remote detectors are stubs: none of them ever answers.
AskDetector(v) ==
    /\ verifier[v].pc = "detect"
    /\ IF verifier[v].provider = "local"
       THEN verifier' = [verifier EXCEPT
                ![v].pc = IF verifier[v].cached THEN "put" ELSE "answered",
                ![v].answer = Detect(verifier[v].text)]
       ELSE Become(v, "unavailable")
    /\ UNCHANGED <<named, place, rows, output>>

\* INSERT OR REPLACE.
Put(v) ==
    /\ verifier[v].pc = "put"
    /\ LET key == Key(verifier[v].text, verifier[v].provider)
       IN rows' = [k \in DOMAIN rows \cup {key} |->
                      IF k = key THEN verifier[v].answer ELSE rows[k]]
    /\ Become(v, "answered")
    /\ UNCHANGED <<named, place, output>>

VerifyEnds(v) ==
    /\ verifier[v].pc \in {"answered", "refused", "unavailable", "failed"}
    /\ verifier' = [verifier EXCEPT ![v] = Quiet]
    /\ UNCHANGED <<named, place, rows, output>>

\* health_cmd: mkdir of the location, whatever its name looks like.
Health(mode, enabled) ==
    /\ CacheAllowed(mode, enabled)
    /\ place = "absent"
    /\ place' = "directory"
    /\ UNCHANGED <<named, rows, output, verifier>>

Rewritten(t) ==
    /\ output' = t
    /\ t # output
    /\ UNCHANGED <<named, place, rows, verifier>>

CacheNext ==
    \/ \E v \in Verifiers :
          \/ \E mode \in Modes, enabled \in BOOLEAN, provider \in Providers :
                Verify(v, mode, enabled, provider)
          \/ Get(v)
          \/ CacheFails(v)
          \/ AskDetector(v)
          \/ Put(v)
          \/ VerifyEnds(v)
    \/ \E mode \in Modes, enabled \in BOOLEAN : Health(mode, enabled)
    \/ \E t \in DraftTexts : Rewritten(t)

CacheSpec == CacheInit /\ [][CacheNext]_cacheVars

-----------------------------------------------------------------------------
(* Properties *)

\* verify and DetectorScoreCache: whichever process stored a score, and whatever
\* the file has become meanwhile, an answer is what the detector says of the very
\* text the command read, and only a local detector answers.
AnswersAreDetections ==
    \A v \in Verifiers : verifier[v].pc = "answered" =>
        /\ verifier[v].provider = "local"
        /\ verifier[v].answer = Detect(verifier[v].text)

=============================================================================
