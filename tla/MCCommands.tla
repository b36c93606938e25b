----------------------------- MODULE MCCommands -----------------------------
(***************************************************************************)
(* The commands that nothing waits for, in one instance.  The parts share  *)
(* no state: a behaviour is about one of them, and the others stay as they *)
(* begin.                                                                  *)
(***************************************************************************)
EXTENDS ProjectOpening, FinalizeJournal, ExportAudit, Beacon, DetectorCache,
    PrivacyModes, ObsidianProjection, ReleaseBundle, StyleProfile, ContextCapsules

VARIABLE about

-----------------------------------------------------------------------------
(* Instances *)

\* A note whose heading repeats, one whose heading ends like a numbered note,
\* and one that is named like the overview.
Heading(slug, body) == [slug |-> slug, body |-> body]
BookSlug == <<"book">>
Vaulted ==
    {[id |-> 1, claims |-> "c",
      headings |-> <<Heading(<<"intro">>, "a"), Heading(<<"intro">>, "b"),
                     Heading(<<"intro", "1">>, "c")>>],
     [id |-> 2, claims |-> "d",
      headings |-> <<Heading(<<"book", "overview">>, "a")>>]}

\* One section of each sort, two in either order, and a blank title beside the
\* texts that decide what becomes of it.
Exported ==
    [title : {"plain"}, sections :
        {<<>>, <<"plain", "other">>, <<"other", "plain">>}
            \cup {<<text>> : text \in {"term", "active", "claims", "entity", "hidden",
                                      "control", "return", "newline", "wide"}}]
    \cup [title : {"blank"}, sections :
            {<<"blank">>, <<"plain", "other">>}
                \cup {<<text>> : text \in {"spaced", "word", "bom", "headed"}}]
    \cup [title : {"newline"}, sections : {<<"blank", "plain">>}]

\* Two independent sources, two of one place, and two of the lowest tier that
\* counts, of which high impact would need more.
Source(tier, url) == [tier |-> tier, url |-> url]
Proposed ==
    {[category |-> "a", highImpact |-> TRUE, evidence |-> {Source(2, "u"), Source(3, "v")}],
     [category |-> "a", highImpact |-> TRUE, evidence |-> {Source(2, "u"), Source(3, "u")}],
     [category |-> "b", highImpact |-> FALSE, evidence |-> {Source(4, "u")}]}

\* What is allowed in one version is blocked or unknown in the other.
Versioned ==
    {[allowed |-> {"a"}, blocked |-> {"auto_merge"}],
     [allowed |-> {"b"}, blocked |-> {"a", "auto_merge"}]}

\* A text too short to judge, and one with every sign of a model.
Written ==
    {[words |-> 2, sentences |-> 1, repeated |-> 0, variance |-> 0, pronouns |-> 0,
      phrases |-> 0, length |-> 50],
     [words |-> 30, sentences |-> 4, repeated |-> 20, variance |-> 0, pronouns |-> 0,
      phrases |-> 7, length |-> 30]}

\* A commit with a file edited, the commit with a private file beside it, the
\* next commit alone.
History ==
    <<[commit |-> "c1", edits |-> "tracked"], [commit |-> "c1", edits |-> "forbidden"],
      [commit |-> "c2", edits |-> "none"]>>

\* Two approvable packages that suffice together only, one that lost a
\* feature, one without spans; and texts that differ from the voice, one of them
\* with the voice's mean length of a sentence in two sentences of other lengths.
Token(word, mark) == [word |-> word, mark |-> mark, gap |-> "space"]
Span(text) == [text |-> text, class |-> "unknown"]
Sample(pieces) == [unsupported |-> FALSE, spans |-> pieces]
Long == Sample(<<Span(<<Token("I", ""), Token("do", ""), Token("plain", ".")>>),
                 Span(<<Token("plain", ","), Token("prose", "")>>)>>)
Short == Sample(<<Span(<<Token("it", "dash"), Token("don't", "?")>>)>>)
Labelled ==
    {<<>>, <<Long>>, <<Long, Short>>, <<Long, [Short EXCEPT !.unsupported = TRUE]>>,
     <<Long, Sample(<<>>)>>}
Compared ==
    {<<Token("I", ""), Token("do", "hyphen"), Token("it", ".")>>,
     <<[Token("I", "") EXCEPT !.gap = "wrap"], Token("do", "."), Token("I", ""),
       Token("don't", ""), Token("do", ""), Token("plain", ".")>>,
     <<Token("plain", "quote")>> \o [i \in 1 .. 9 |-> Token("prose", "")]}

\* More blocks than a window on either side, and more spans than a limit.
Node(type, text) == [type |-> type, text |-> text, assisted |-> text = "b"]
Protected(kind, text, name) ==
    [kind |-> kind, text |-> text, name |-> name, excluded |-> kind = "number"]
Ingested ==
    {[id |-> "p", authors |-> <<"Doe", "Ann Lee">>,
      nodes |-> <<Node("heading", "a"), Node("paragraph", "b"), Node("table", "t"),
                  Node("paragraph", ""), Node("paragraph", "c"), Node("heading", "d"),
                  Node("paragraph", "e")>>,
      spans |-> <<Protected("unit", "km", ""), Protected("number", "5", ""),
                  Protected("quotation", "q", "Ann Lee")>>],
     [id |-> "q", authors |-> <<>>, nodes |-> <<Node("table", "t")>>, spans |-> <<>>]}

\* The processes of every part have the same names; which is which says
\* nothing, and no property of the run is about what must happen.
Interchangeable == Permutations(Projectors)

-----------------------------------------------------------------------------
(* Composition *)

Parts == {"opening", "journal", "export", "beacon", "cache", "privacy", "vault notes",
          "release", "profile", "capsule"}

\* Where a part may begin in several ways, it does so in its own behaviours.
CommandsInit ==
    /\ about \in Parts
    /\ OpeningInit /\ (about = "opening" \/ toml = "absent")
    /\ JournalInit
    /\ ExportInit /\ (about = "export" \/ path.format = "txt")
    /\ BeaconInit /\ (about = "beacon" \/ policy = CHOOSE p \in Policies : TRUE)
    /\ CacheInit /\ (about = "cache" \/ named = "directory")
    /\ output = CHOOSE t \in DraftTexts : TRUE
    /\ PrivacyInit /\ (about = "privacy" \/ windows)
    /\ ObsidianInit
    /\ ReleaseInit /\ (about = "release" \/ tree = Checkouts[1])
    /\ ProfileInit /\ (about = "profile" \/ samples = <<>>)
    /\ CapsuleInit

Others(part) ==
    /\ about = part
    /\ UNCHANGED about
    /\ part # "opening" => UNCHANGED openingVars
    /\ part # "journal" => UNCHANGED journalVars
    /\ part # "export" => UNCHANGED exportVars
    /\ part # "beacon" => UNCHANGED beaconVars
    /\ part # "cache" => UNCHANGED cacheVars
    /\ part # "privacy" => UNCHANGED privacyVars
    /\ part # "vault notes" => UNCHANGED obsidianVars
    /\ part # "release" => UNCHANGED releaseVars
    /\ part # "profile" => UNCHANGED profileVars
    /\ part # "capsule" => UNCHANGED capsuleVars

CommandsNext ==
    \/ Others("opening") /\ OpeningNext
    \/ Others("journal") /\ JournalNext
    \/ Others("export") /\ ExportNext
    \/ Others("beacon") /\ BeaconNext
    \/ Others("cache") /\ CacheNext
    \/ Others("privacy") /\ PrivacyNext
    \/ Others("vault notes") /\ ObsidianNext
    \/ Others("release") /\ ReleaseNext
    \/ Others("profile") /\ ProfileNext
    \/ Others("capsule") /\ CapsuleNext

commandsVars ==
    <<openingVars, journalVars, exportVars, beaconVars, cacheVars, privacyVars,
      obsidianVars, releaseVars, profileVars, capsuleVars, about>>

CommandsSpec == CommandsInit /\ [][CommandsNext]_commandsVars

\* Each part's variables keep their types while the part is at work.
CommandsTypeOK ==
    /\ about = "opening" => OpeningTypeOK
    /\ about = "journal" => JournalTypeOK
    /\ about = "export" => ExportTypeOK
    /\ about = "beacon" => BeaconTypeOK
    /\ about = "cache" => DetectorTypeOK
    /\ about = "privacy" => PrivacyTypeOK
    /\ about = "vault notes" => ObsidianTypeOK
    /\ about = "release" => ReleaseTypeOK
    /\ about = "profile" => ProfileTypeOK
    /\ about = "capsule" => CapsuleTypeOK

=============================================================================
