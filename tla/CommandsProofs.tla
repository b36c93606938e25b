--------------------------- MODULE CommandsProofs ---------------------------
(***************************************************************************)
(* The commands of MCCommands together.  Each part has an inductive        *)
(* invariant of its own, in the three modules this one extends, and some   *)
(* of their types hold only where that invariant does.  In the composition *)
(* a part either moves or stays as it began, which is one of its initial   *)
(* states: so every part keeps its invariant, whichever is at work.        *)
(***************************************************************************)
EXTENDS MCCommands, ProjectFilesProofs, SharedFilesProofs, ArtifactProofs

\* What every part keeps, in a step of its own and while it waits.
FilesInv ==
    /\ OpeningInv /\ OpeningTypeOK
    /\ JournalInv /\ JournalTypeOK /\ EntriesTyped
    /\ ModesInv /\ PrivacyTypeOK

SharedInv ==
    /\ CacheInv /\ DetectorTypeOK
    /\ BundlesInv /\ ReleaseTyped
    /\ BeaconInv /\ BeaconTyped

ArtifactInv ==
    /\ ProfileInv
    /\ CapsuleInv /\ CapsuleTypeOK
    /\ ExportInv
    /\ ObsidianInv /\ Directory

CommandsInv == FilesInv /\ SharedInv /\ ArtifactInv

LEMMA CommandsStart == CommandsInit => CommandsInv
<1> SUFFICES ASSUME CommandsInit PROVE CommandsInv
  OBVIOUS
<1>1. /\ OpeningInit /\ JournalInit /\ PrivacyInit /\ CacheInit /\ ReleaseInit /\ BeaconInit
      /\ ProfileInit /\ CapsuleInit /\ ExportInit /\ ObsidianInit
  BY DEF CommandsInit
<1>2. FilesInv
  BY <1>1, OpeningStarts, OpeningTyped, JournalStarts, JournalTyped, ModesStart, PrivacyTyped
     DEF FilesInv
<1>3. SharedInv
  BY <1>1, CacheStarts, DetectorTyped, BundleStarts, ReleaseTypes, BeaconStarts, BeaconTypes
     DEF SharedInv
<1>4. ArtifactInv
  BY <1>1, ProfileInitial, CapsuleInitial, CapsuleTyped, ExportInitial, ObsidianInitial,
     DirectoryStays
     DEF ArtifactInv
<1> QED
  BY <1>2, <1>3, <1>4 DEF CommandsInv

\* A step of the composition is a step of each part, or one that leaves it alone.
LEMMA EveryPartSteps ==
    ASSUME [CommandsNext]_commandsVars
    PROVE  /\ [OpeningNext]_openingVars /\ [JournalNext]_journalVars
           /\ [PrivacyNext]_privacyVars /\ [CacheNext]_cacheVars
           /\ [ReleaseNext]_releaseVars /\ [BeaconNext]_beaconVars
           /\ [ProfileNext]_profileVars /\ [CapsuleNext]_capsuleVars
           /\ [ExportNext]_exportVars /\ [ObsidianNext]_obsidianVars
<1>1. CASE UNCHANGED commandsVars
  BY <1>1 DEF commandsVars
<1>2. CASE CommandsNext
  BY <1>2 DEF CommandsNext, Others
<1> QED
  BY <1>1, <1>2

LEMMA CommandsKeep == CommandsInv /\ [CommandsNext]_commandsVars => CommandsInv'
<1> SUFFICES ASSUME CommandsInv, [CommandsNext]_commandsVars PROVE CommandsInv'
  OBVIOUS
<1>1. FilesInv'
  BY EveryPartSteps, OpeningKeeps, OpeningTyped, JournalKeeps, JournalTyped, ModesKeep,
     PrivacyTyped
     DEF CommandsInv, FilesInv
<1>2. SharedInv'
  BY EveryPartSteps, CacheKeeps, DetectorTyped, BundlesKeep, ReleaseTypes, BeaconKeeps,
     BeaconTypes
     DEF CommandsInv, SharedInv
<1>3. ArtifactInv'
  BY EveryPartSteps, ProfileStep, CapsuleStep, CapsuleTyped, ExportStep, ObsidianStep,
     DirectoryStays
     DEF CommandsInv, ArtifactInv
<1> QED
  BY <1>1, <1>2, <1>3 DEF CommandsInv

\* The inductive invariant of the composition: the parts' invariants hold side by
\* side, whichever command is at work.
THEOREM CommandsInvHolds == CommandsSpec => []CommandsInv
BY CommandsStart, CommandsKeep, PTL DEF CommandsSpec

\* Type correctness of the ten parts: among it, that a backup is of a version
\* there is, that a decision in progress can still be recorded, that a file of the
\* bundle has one content at most, and that every note in a vault is one some
\* package or the user has written.
THEOREM CommandsAreTyped == CommandsSpec => []CommandsTypeOK
<1>1. CommandsInv => CommandsTypeOK
  <2> SUFFICES ASSUME CommandsInv PROVE CommandsTypeOK
    OBVIOUS
  <2>1. OpeningTypeOK /\ JournalTypeOK /\ PrivacyTypeOK
    BY DEF CommandsInv, FilesInv
  <2>2. DetectorTypeOK /\ ReleaseTypeOK /\ BeaconTypeOK
    BY ReleaseIsTyped DEF CommandsInv, SharedInv, BeaconTyped
  <2>3. ProfileTypeOK /\ CapsuleTypeOK /\ ExportTypeOK /\ ObsidianTypeOK
    BY ProfileTyped, ExportTyped, ObsidianTyped DEF CommandsInv, ArtifactInv
  <2> QED
    BY <2>1, <2>2, <2>3 DEF CommandsTypeOK
<1> QED
  BY <1>1, CommandsInvHolds, PTL

-----------------------------------------------------------------------------
(* What was proved of the parts, for the composition *)

\* The composition implements the specification of every part.
THEOREM PartsAsSpecified == CommandsSpec =>
    /\ OpeningSpec /\ JournalSpec /\ PrivacySpec
    /\ CacheSpec /\ ReleaseSpec /\ BeaconSpec
    /\ ProfileSpec /\ CapsuleSpec /\ ExportSpec /\ ObsidianSpec
<1>1. CommandsInit =>
         /\ OpeningInit /\ JournalInit /\ PrivacyInit /\ CacheInit /\ ReleaseInit
         /\ BeaconInit /\ ProfileInit /\ CapsuleInit /\ ExportInit /\ ObsidianInit
  BY DEF CommandsInit
<1> QED
  BY <1>1, EveryPartSteps, PTL
     DEF CommandsSpec, OpeningSpec, JournalSpec, PrivacySpec, CacheSpec, ReleaseSpec,
         BeaconSpec, ProfileSpec, CapsuleSpec, ExportSpec, ObsidianSpec

\* So every command keeps its promise whichever other commands there are.
THEOREM CommandsKeepPromises == CommandsSpec =>
    /\ []SchemaMatchesVersion /\ []OpenedIsMigrated /\ []OnlyOverlapDrops
    /\ []OneForm /\ []WorkflowReadsText
    /\ []AnswersAreDetections
    /\ []AcceptedIsReproduced /\ []AloneIsOfItsTree
    /\ []RanIsReported /\ []ApprovalsJustified
    /\ []CompleteIsEarned /\ []PrintedValidates
    /\ []OkHasContent /\ []FailsForCause
    /\ []RefusedForCause /\ []OkIsComplete
BY PartsAsSpecified, SchemaIsItsVersion, OpenedAreMigrated, OnlyOverlapsDrop, OneFormEver,
   WorkflowTakesText, AnswersAreTheDetectors, AcceptedAreReproduced, AloneAreOfTheirTree,
   RunsAreReported, ApprovalsAreJustified, ProfilesAreEarned, PrintedIsValid,
   OkIsTheContent, FailureHasCause, RefusalHasCause, SuccessIsComplete, PTL

=============================================================================
