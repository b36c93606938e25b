-------------------------- MODULE StyleVaultProofs --------------------------
(***************************************************************************)
(* The vault keeps what it stored and what the log holds, and a review     *)
(* decides on what the log says, for any number of imports and reviews at  *)
(* a time and any length of the log.                                       *)
(***************************************************************************)
EXTENDS StyleVault, RecursionLemmas

LogLines == Decision \cup {Corrupt}

ImportSteps == {"original", "check", "link"}
ReviewSteps == {"append", "replay"}
Steps == {"idle"} \cup ImportSteps \cup ReviewSteps

\* Some line of the text says of each span what the view says, unless nothing
\* was decided about it.
Explained(text, view, k) ==
    \A s \in Spans :
        \/ view[s] = BaseView[s]
        \/ \E n \in 1..Len(text) :
              text[n] = [package |-> k, span |-> s, class |-> view[s]]

\* What a process in the middle of a command relies on.
Relies(p) ==
    /\ pc[p] \in ImportSteps => loc[p].package \in Packages /\ loc[p].content \in Contents
    /\ pc[p] \in {"check", "link"} => ArtifactOf[loc[p].content] \in originals
    /\ pc[p] \in ReviewSteps =>
           /\ loc[p].package \in Packages /\ loc[p].class \in Decided
           /\ loc[p].todo # {}
           /\ Readable => Explained(lines, loc[p].view, loc[p].package)

\* A line without its newline is the last of a log that is not empty.
LastLine == unended => Len(lines) > 0

\* What is about the vault and the log alone.
Kept ==
    /\ originals \subseteq Artifacts
    /\ packages \in [Packages -> Contents \cup {NoContent}]
    /\ lines \in Seq(Decision \cup {Corrupt})
    /\ unended \in BOOLEAN
    /\ stored \subseteq Packages \X Contents
    /\ StoredOnce /\ PackageHasOriginal /\ LastLine

VaultInv ==
    /\ Kept
    /\ pc \in [Clients -> Steps]
    /\ loc \in [Clients -> Locals]
    /\ \A p \in Clients : Relies(p)

-----------------------------------------------------------------------------
(* The fold of replay_decisions *)

\* A state of a replay: what the first n lines make of a view.
After(view, k, n) ==
    LET Deciding(s) == {m \in 1 .. n : lines[m].package = k /\ lines[m].span = s}
    IN  [s \in Spans |-> IF Deciding(s) = {} THEN view[s]
                         ELSE lines[LastOf(Deciding(s))].class]

Applied(v, d, k) == IF d.package = k THEN [v EXCEPT ![d.span] = d.class] ELSE v

LEMMA AppliedNext ==
    ASSUME NEW view \in View, NEW k, NEW n \in 1 .. Len(lines),
           lines \in Seq(LogLines), Readable
    PROVE  After(view, k, n) = Applied(After(view, k, n - 1), lines[n], k)
<1> DEFINE Deciding(m, s) == {i \in 1 .. m : lines[i].package = k /\ lines[i].span = s}
<1>1. lines[n] \in Decision
  BY DEF LogLines, Readable
<1>2. ASSUME NEW s \in Spans, ~ (lines[n].package = k /\ lines[n].span = s)
      PROVE  Deciding(n, s) = Deciding(n - 1, s)
  BY <1>2
<1>3. ASSUME NEW s \in Spans, lines[n].package = k /\ lines[n].span = s
      PROVE  Deciding(n, s) # {} /\ LastOf(Deciding(n, s)) = n
  <2>1. n \in Deciding(n, s) /\ \A m \in Deciding(n, s) : m \in Nat /\ n >= m
    BY <1>3
  <2> HIDE DEF Deciding
  <2>2. \E m \in Deciding(n, s) : \A i \in Deciding(n, s) : m >= i
    BY <2>1
  <2>3. LastOf(Deciding(n, s)) \in Deciding(n, s)
        /\ LastOf(Deciding(n, s)) >= n
    BY <2>1, <2>2 DEF LastOf
  <2> QED
    BY <2>1, <2>3
<1>4. \A m : After(view, k, m) =
         [s \in Spans |-> IF Deciding(m, s) = {} THEN view[s]
                          ELSE lines[LastOf(Deciding(m, s))].class]
  BY DEF After
<1> HIDE DEF Deciding
<1>5. CASE lines[n].package # k
  BY <1>2, <1>4, <1>5 DEF Applied
<1>6. CASE lines[n].package = k
  <2> DEFINE before == After(view, k, n - 1)
             span == lines[n].span
  <2>1. span \in Spans
    BY <1>1 DEF Decision
  <2>2. Applied(before, lines[n], k) = [before EXCEPT ![span] = lines[n].class]
    BY <1>6 DEF Applied
  <2>3. DOMAIN before = Spans
    BY <1>4
  <2>4. After(view, k, n)[span] = lines[n].class
    BY <1>3, <1>4, <1>6, <2>1
  <2>5. \A s \in Spans \ {span} : After(view, k, n)[s] = before[s]
    BY <1>2, <1>4
  <2>6. After(view, k, n) = [s \in Spans |-> After(view, k, n)[s]]
    BY <1>4
  <2>7. After(view, k, n) = Applied(before, lines[n], k)
    <3> HIDE DEF before, span
    <3> QED
      BY <2>1, <2>2, <2>3, <2>4, <2>5, <2>6
  <2> QED
    BY <2>7
<1> QED
  BY <1>5, <1>6

LEMMA AfterTyped ==
    ASSUME NEW view \in View, NEW k, NEW n \in 0 .. Len(lines),
           lines \in Seq(LogLines), Readable
    PROVE  /\ After(view, k, n) \in View
           /\ \A s \in Spans :
                 \/ After(view, k, n)[s] = view[s]
                 \/ \E m \in 1 .. Len(lines) :
                       lines[m] = [package |-> k, span |-> s,
                                   class |-> After(view, k, n)[s]]
<1> DEFINE Deciding(s) == {i \in 1 .. n : lines[i].package = k /\ lines[i].span = s}
<1>1. \A m \in 1 .. Len(lines) : lines[m] \in Decision
  BY DEF LogLines, Readable
<1>2. ASSUME NEW s \in Spans, Deciding(s) # {}
      PROVE  LastOf(Deciding(s)) \in Deciding(s)
  <2>1. Deciding(s) \in SUBSET (1 .. n) /\ n \in Nat
    OBVIOUS
  <2> HIDE DEF Deciding
  <2> QED
    BY <1>2, <2>1, LastOfPart
<1>3. After(view, k, n) =
         [s \in Spans |-> IF Deciding(s) = {} THEN view[s]
                          ELSE lines[LastOf(Deciding(s))].class]
  BY DEF After
<1>4. ASSUME NEW s \in Spans, Deciding(s) # {}
      PROVE  \E m \in 1 .. Len(lines) :
                /\ lines[m] = [package |-> k, span |-> s, class |-> lines[m].class]
                /\ After(view, k, n)[s] = lines[m].class
                /\ lines[m].class \in Decided
  <2> DEFINE m == LastOf(Deciding(s))
  <2>1. m \in 1 .. Len(lines) /\ lines[m].package = k /\ lines[m].span = s
    BY <1>2, <1>4
  <2>2. lines[m] \in [package : Packages, span : Spans, class : Decided]
    BY <1>1, <2>1 DEF Decision
  <2>3. After(view, k, n)[s] = lines[m].class
    BY <1>3, <1>4
  <2> HIDE DEF m
  <2> QED
    BY <2>1, <2>2, <2>3
<1>5. \A s \in Spans : Deciding(s) = {} => After(view, k, n)[s] = view[s]
  BY <1>3
<1>6. \A s \in Spans : After(view, k, n)[s] \in Classes
  BY <1>4, <1>5 DEF View, Classes
<1>7. After(view, k, n) \in View
  BY <1>3, <1>6 DEF View
<1> HIDE DEF Deciding
<1> QED
  BY <1>4, <1>5, <1>7

\* The state a replay ends in.
LEMMA ReplayEnds ==
    ASSUME NEW view \in View, NEW k, lines \in Seq(LogLines), Readable
    PROVE  Replay(view, k) = After(view, k, Len(lines))
<1> DEFINE N == Len(lines)
           IsReplay(f) ==
               f = [s \in SUBSET (1 .. N) |->
                       IF s = {} THEN view
                       ELSE Applied(f[s \ {LastOf(s)}], lines[LastOf(s)], k)]
           replay == CHOOSE f : IsReplay(f)
<1>1. N \in Nat /\ DOMAIN lines = 1 .. N
  OBVIOUS
<1>2. Replay(view, k) = replay[1 .. N]
  BY <1>1 DEF Replay, FoldLeft, MapThenFoldSet, Max, LastOf, Applied
<1>3. \A n \in 1 .. N : lines[n] \in Decision
  BY DEF LogLines, Readable
<1>4. \E f : IsReplay(f)
  <2> DEFINE pick == [s \in SUBSET (1 .. N) |-> LastOf(s)]
             step == [c \in View \X (1 .. N) |-> Applied(c[1], lines[c[2]], k)]
  <2>1. step \in [View \X (1 .. N) -> View]
    BY <1>3 DEF Applied, View, Decision, Classes
  <2>2. \A s \in SUBSET (1 .. N) : s # {} => pick[s] \in s
    BY <1>1, LastOfPart
  <2>3. IsFiniteSet(1 .. N)
    BY <1>1, FS_Interval
  <2>4. PICK f \in [SUBSET (1 .. N) -> View] : FoldsSet(f, 1 .. N, view, pick, step)
    <3> HIDE DEF pick, step
    <3> QED
      BY <2>1, <2>2, <2>3, SetRecursion
  <2>5. \A s \in SUBSET (1 .. N) : s # {} =>
           /\ pick[s] = LastOf(s)
           /\ LastOf(s) \in 1 .. N /\ s \ {LastOf(s)} \in SUBSET (1 .. N)
           /\ step[<<f[s \ {pick[s]}], pick[s]>>]
                 = Applied(f[s \ {LastOf(s)}], lines[LastOf(s)], k)
    BY <2>2
  <2>6. f = [s \in SUBSET (1 .. N) |->
                IF s = {} THEN view ELSE step[<<f[s \ {pick[s]}], pick[s]>>]]
    BY <2>4 DEF FoldsSet
  <2> HIDE DEF pick, step
  <2>7. f = [s \in SUBSET (1 .. N) |->
                IF s = {} THEN view
                ELSE Applied(f[s \ {LastOf(s)}], lines[LastOf(s)], k)]
    BY <2>5, <2>6
  <2>8. IsReplay(f)
    BY <2>7
  <2> HIDE DEF IsReplay
  <2> QED
    BY <2>8
<1>5. IsReplay(replay)
  <2> HIDE DEF IsReplay
  <2> QED
    BY <1>4
<1>6. \A s \in SUBSET (1 .. N) :
         replay[s] = IF s = {} THEN view
                     ELSE Applied(replay[s \ {LastOf(s)}], lines[LastOf(s)], k)
  BY <1>5
<1> HIDE DEF replay, N
<1> DEFINE S == {n \in 0 .. N : replay[1 .. n] = After(view, k, n)}
<1>7. 0 \in S
  <2>1. 1 .. 0 = {}
    OBVIOUS
  <2>2. replay[{}] = view
    BY <1>6
  <2>3. After(view, k, 0) = [s \in Spans |-> view[s]]
    BY <2>1 DEF After
  <2>4. After(view, k, 0) = view
    BY <2>3 DEF View
  <2> QED
    BY <1>1, <2>1, <2>2, <2>4
<1>8. ASSUME NEW n \in 0 .. N - 1, n \in S PROVE n + 1 \in S
  <2>0. N \in Nat /\ n \in Nat /\ n < N
    BY <1>1
  <2>1. n + 1 \in 1 .. N /\ n + 1 \in 0 .. N /\ (n + 1) - 1 = n
        /\ n + 1 \in Nat \ {0} /\ n + 1 \in 1 .. n + 1
        /\ \A m \in 1 .. n + 1 : m \in 1 .. N
    BY <2>0
  <2>2. LastOf(1 .. n + 1) = n + 1 /\ (1 .. n + 1) \ {LastOf(1 .. n + 1)} = 1 .. n
    BY <2>1, LastOfPrefix
  <2>3. replay[1 .. n + 1] = Applied(replay[1 .. n], lines[n + 1], k)
    BY <1>6, <2>1, <2>2
  <2>4. After(view, k, n + 1) = Applied(After(view, k, n), lines[n + 1], k)
    BY <2>1, AppliedNext DEF N
  <2> QED
    BY <1>8, <2>1, <2>3, <2>4
<1>9. N \in S
  <2> HIDE DEF S
  <2>1. 0 .. N \subseteq S
    BY <1>1, <1>7, <1>8, BoundedInduction
  <2> QED
    BY <1>1, <2>1
<1> QED
  BY <1>2, <1>9 DEF N

-----------------------------------------------------------------------------
(* The log *)

\* The span a review decides next is one of those it has left.
LEMMA FirstIsLeft ==
    ASSUME NEW spans \in SUBSET Spans, spans # {}
    PROVE  FirstSpan(spans) \in spans
<1>1. spans \in SUBSET Nat
  BY VaultAssumption
<1> QED
  BY <1>1, LeastElement DEF FirstSpan

LEMMA BaseViewTyped == BaseView \in View
BY DEF BaseView, View, Classes, Decided

LEMMA ReplayTyped ==
    ASSUME NEW view \in View, NEW k, VaultInv, Readable
    PROVE  /\ Replay(view, k) \in View
           /\ Explained(lines, view, k) => Explained(lines, Replay(view, k), k)
<1>1. lines \in Seq(LogLines) /\ Len(lines) \in 0 .. Len(lines)
  BY DEF VaultInv, Kept, LogLines
<1>2. Replay(view, k) = After(view, k, Len(lines))
  BY <1>1, ReplayEnds
<1> QED
  BY <1>1, <1>2, AfterTyped DEF Explained

LEMMA DecisionIsLine ==
    ASSUME NEW p \in Clients, VaultInv, pc[p] \in ReviewSteps
    PROVE  DecisionOf(p) \in LogLines
<1>1. loc[p].package \in Packages /\ loc[p].class \in Decided
      /\ loc[p].todo # {} /\ loc[p].todo \in SUBSET Spans
  BY DEF VaultInv, Kept, Locals, Relies
<1>2. FirstSpan(loc[p].todo) \in Spans
  BY <1>1, FirstIsLeft
<1> QED
  BY <1>1, <1>2 DEF DecisionOf, LogLines, Decision

\* A write after a line without its newline spoils that line, and the log with
\* it; any other one adds a line. No other line changes.
LEMMA WrittenGrows ==
    ASSUME VaultInv, NEW text \in LogLines
    PROVE  /\ Written(text) \in Seq(LogLines)
           /\ Len(Written(text)) > 0
           /\ Len(Written(text)) >= Len(lines)
           /\ \A n \in 1 .. IF unended THEN Len(lines) - 1 ELSE Len(lines) :
                 Written(text)[n] = lines[n]
           /\ unended => Written(text)[Len(lines)] = Corrupt
<1>1. Corrupt \in LogLines /\ lines \in Seq(LogLines) /\ unended \in BOOLEAN
      /\ (unended => Len(lines) > 0)
  BY DEF LogLines, VaultInv, Kept, LastLine
<1>2. CASE unended
  BY <1>1, <1>2 DEF Written
<1>3. CASE ~ unended
  BY <1>1, <1>3 DEF Written
<1> QED
  BY <1>1, <1>2, <1>3

\* What the log explains it still explains later, as long as it parses.
LogGrows ==
    Readable' => /\ Readable
                 /\ \A n \in 1 .. Len(lines) :
                       n \in 1 .. Len(lines') /\ lines'[n] = lines[n]

LEMMA WrittenLog ==
    ASSUME VaultInv, NEW text \in LogLines, lines' = Written(text)
    PROVE  LogGrows /\ lines' \in Seq(Decision \cup {Corrupt}) /\ Len(lines') > 0
<1>1. lines \in Seq(LogLines) /\ unended \in BOOLEAN /\ (unended => Len(lines) > 0)
  BY DEF LogLines, VaultInv, Kept, LastLine
<1>2. /\ lines' \in Seq(LogLines) /\ Len(lines') > 0 /\ Len(lines') >= Len(lines)
      /\ \A n \in 1 .. IF unended THEN Len(lines) - 1 ELSE Len(lines) :
            lines'[n] = lines[n]
      /\ unended => lines'[Len(lines)] = Corrupt
  BY WrittenGrows
<1>3. CASE unended
  <2>1. Len(lines) \in 1 .. Len(lines') /\ lines'[Len(lines)] = Corrupt
    BY <1>1, <1>2, <1>3
  <2>2. ~ Readable'
    BY <2>1 DEF Readable
  <2> QED
    BY <1>2, <2>2 DEF LogGrows, LogLines
<1>4. CASE ~ unended
  <2>1. \A n \in 1 .. Len(lines) : n \in 1 .. Len(lines') /\ lines'[n] = lines[n]
    BY <1>1, <1>2, <1>4
  <2>2. Readable' => Readable
    BY <2>1 DEF Readable
  <2> QED
    BY <1>2, <2>1, <2>2 DEF LogGrows, LogLines
<1> QED
  BY <1>1, <1>3, <1>4

LEMMA SameLog == lines' = lines => LogGrows
BY DEF LogGrows, Readable

LEMMA StillExplained ==
    ASSUME NEW old, NEW new, NEW view, NEW k,
           \A n \in 1 .. Len(old) : n \in 1 .. Len(new) /\ new[n] = old[n],
           Explained(old, view, k)
    PROVE  Explained(new, view, k)
BY DEF Explained

-----------------------------------------------------------------------------
(* The processes *)

LEMMA BlankTyped == Blank \in Locals
BY BaseViewTyped DEF Blank, Locals, Classes

\* The vault a step leaves behind keeps what the others rely on.
LEMMA OthersRely ==
    ASSUME NEW p \in Clients, VaultInv, originals \subseteq originals', LogGrows,
           \A q \in Clients \ {p} : pc'[q] = pc[q] /\ loc'[q] = loc[q]
    PROVE  \A q \in Clients \ {p} : Relies(q)'
<1> SUFFICES ASSUME NEW q \in Clients \ {p} PROVE Relies(q)'
  OBVIOUS
<1>1. pc'[q] = pc[q] /\ loc'[q] = loc[q] /\ Relies(q)
  BY DEF VaultInv
<1>2. pc[q] \in ReviewSteps /\ Readable'
         => Explained(lines', loc[q].view, loc[q].package)
  BY <1>1, StillExplained DEF Relies, LogGrows
<1> QED
  BY <1>1, <1>2 DEF Relies

\* A process that is done relies on nothing.
LEMMA FinishKeeps ==
    ASSUME NEW p \in Clients, VaultInv, Finish(p), originals \subseteq originals',
           LogGrows
    PROVE  /\ pc' \in [Clients -> Steps]
           /\ loc' \in [Clients -> Locals]
           /\ \A q \in Clients : Relies(q)'
<1>1. pc'[p] = "idle" /\ loc'[p] = Blank
  BY DEF Finish, VaultInv
<1>2. Relies(p)'
  BY <1>1 DEF Relies, ImportSteps, ReviewSteps
<1>3. \A q \in Clients \ {p} : Relies(q)'
  BY OthersRely DEF Finish, VaultInv
<1>4. pc' \in [Clients -> Steps]
  BY DEF Finish, VaultInv, Steps, ImportSteps, ReviewSteps
<1>5. loc' \in [Clients -> Locals]
  BY BlankTyped DEF Finish, VaultInv
<1> QED
  BY <1>2, <1>3, <1>4, <1>5

LEMMA KeptSame == Kept /\ UNCHANGED <<vault, log>> => Kept'
BY DEF Kept, vault, log, StoredOnce, PackageHasOriginal, LastLine

LEMMA InitHolds == Init => VaultInv
<1> SUFFICES ASSUME Init PROVE VaultInv
  OBVIOUS
<1>1. \A p \in Clients : Relies(p)
  BY DEF Init, Relies, ImportSteps, ReviewSteps
<1>2. Kept
  <2>1. lines \in Seq(Decision \cup {Corrupt})
    BY DEF Init
  <2>2. unended \in BOOLEAN /\ LastLine
    BY DEF Init, LastLine
  <2> QED
    BY <2>1, <2>2 DEF Init, Kept, StoredOnce, PackageHasOriginal
<1>3. pc \in [Clients -> Steps] /\ loc \in [Clients -> Locals]
  BY BlankTyped DEF Init, Steps
<1> QED
  BY <1>1, <1>2, <1>3 DEF VaultInv

-----------------------------------------------------------------------------
(* One lemma for each action *)

LEMMA StartImportKeeps ==
    ASSUME NEW p \in Clients, NEW k \in Packages, NEW c \in Contents,
           VaultInv, StartImport(p, k, c)
    PROVE  VaultInv'
<1> USE DEF VaultInv
<1> DEFINE new == [Blank EXCEPT !.package = k, !.content = c]
<1>1. loc' = [loc EXCEPT ![p] = new] /\ pc' = [pc EXCEPT ![p] = "original"]
  BY DEF StartImport
<1>2. new \in Locals /\ new.package = k /\ new.content = c
  BY BlankTyped DEF Blank, Locals
<1> HIDE DEF new
<1>3. pc' \in [Clients -> Steps] /\ loc' \in [Clients -> Locals]
  BY <1>1, <1>2 DEF Steps, ImportSteps
<1>4. Relies(p)'
  BY <1>1, <1>2 DEF Relies, ImportSteps, ReviewSteps
<1>5. Kept'
  BY KeptSame DEF StartImport
<1>6. \A q \in Clients \ {p} : Relies(q)'
  BY <1>1, OthersRely, SameLog DEF StartImport, vault, log
<1> QED
  BY <1>3, <1>4, <1>5, <1>6

LEMMA StoreOriginalKeeps ==
    ASSUME NEW p \in Clients, VaultInv, StoreOriginal(p)
    PROVE  VaultInv'
<1> USE DEF VaultInv
<1>1. /\ loc' = loc /\ pc' = [pc EXCEPT ![p] = "check"] /\ pc[p] = "original"
      /\ originals' = originals \cup {ArtifactOf[loc[p].content]}
      /\ UNCHANGED <<packages, stored, lines, unended>>
  BY DEF StoreOriginal, log
<1>2. loc[p].package \in Packages /\ loc[p].content \in Contents
  BY <1>1 DEF Relies, ImportSteps
<1>3. ArtifactOf[loc[p].content] \in Artifacts
  BY <1>2, VaultAssumption
<1>4. Kept'
  BY <1>1, <1>3 DEF Kept, StoredOnce, PackageHasOriginal, LastLine
<1>5. pc' \in [Clients -> Steps]
  BY <1>1 DEF Steps, ImportSteps
<1>6. Relies(p)'
  BY <1>1, <1>2 DEF Relies, ImportSteps, ReviewSteps
<1>7. \A q \in Clients \ {p} : Relies(q)'
  BY <1>1, OthersRely, SameLog
<1> QED
  BY <1>1, <1>4, <1>5, <1>6, <1>7

LEMMA CheckPackageKeeps ==
    ASSUME NEW p \in Clients, VaultInv, CheckPackage(p)
    PROVE  VaultInv'
<1> USE DEF VaultInv
<1>1. pc[p] = "check" /\ UNCHANGED <<originals, packages, lines, unended>>
  BY DEF CheckPackage, log
<1>2. /\ loc[p].package \in Packages /\ loc[p].content \in Contents
      /\ ArtifactOf[loc[p].content] \in originals
  BY <1>1 DEF Relies, ImportSteps
<1>3. CASE packages[loc[p].package] = NoContent
  <2>1. loc' = loc /\ stored' = stored /\ pc' = [pc EXCEPT ![p] = "link"]
    BY <1>3 DEF CheckPackage
  <2>2. Relies(p)'
    BY <1>1, <1>2, <2>1 DEF Relies, ImportSteps, ReviewSteps
  <2>3. \A q \in Clients \ {p} : Relies(q)'
    BY <1>1, <2>1, OthersRely, SameLog
  <2>4. pc' \in [Clients -> Steps]
    BY <2>1 DEF Steps, ImportSteps
  <2>5. Kept'
    BY <1>1, <2>1, KeptSame DEF vault, log
  <2> QED
    BY <2>1, <2>2, <2>3, <2>4, <2>5
<1>4. CASE packages[loc[p].package] # NoContent
  <2>1. Report(p, packages[loc[p].package]) /\ Finish(p)
    BY <1>4 DEF CheckPackage
  <2>2. stored' \subseteq Packages \X Contents /\ StoredOnce'
    BY <1>1, <1>2, <2>1 DEF Report, StoredOnce, Kept
  <2>3. Kept'
    BY <1>1, <2>2 DEF Kept, PackageHasOriginal, LastLine
  <2> QED
    BY <1>1, <2>1, <2>3, FinishKeeps, SameLog
<1> QED
  BY <1>3, <1>4

\* The name is taken once: whoever comes later leaves the file as it is.
LEMMA LinkPackageKeeps ==
    ASSUME NEW p \in Clients, VaultInv, LinkPackage(p)
    PROVE  VaultInv'
<1> USE DEF VaultInv
<1> DEFINE k == loc[p].package
           c == loc[p].content
<1>1. k \in Packages /\ c \in Contents /\ ArtifactOf[c] \in originals
  BY DEF Relies, LinkPackage, ImportSteps
<1>2. UNCHANGED <<originals, lines, unended>> /\ Finish(p)
  BY DEF LinkPackage, log
<1>3. packages' = [packages EXCEPT ![k] = IF @ = NoContent THEN c ELSE @]
  BY DEF LinkPackage, CreateOnce
<1>4. packages' \in [Packages -> Contents \cup {NoContent}] /\ PackageHasOriginal'
  BY <1>1, <1>2, <1>3, VaultAssumption DEF Kept, PackageHasOriginal
<1>5. stored' \subseteq Packages \X Contents
  BY <1>1 DEF LinkPackage, Report, Kept
<1>6. \A e \in stored : e \in Packages \X Contents /\ packages'[e[1]] = e[2]
  BY <1>1, <1>3, VaultAssumption DEF Kept, StoredOnce
<1>7. StoredOnce'
  BY <1>1, <1>3, <1>6 DEF LinkPackage, Report, CreateOnce, Kept, StoredOnce
<1>8. Kept'
  BY <1>2, <1>4, <1>5, <1>7 DEF Kept, LastLine
<1> QED
  BY <1>2, <1>8, FinishKeeps, SameLog

\* What a review begins with is the package as imported and the log over it.
LEMMA LoadEffectiveKeeps ==
    ASSUME NEW p \in Clients, NEW k \in Packages, NEW class \in Decided,
           NEW given \in {{}} \cup {{s} : s \in Spans},
           VaultInv, LoadEffective(p, k, class, given)
    PROVE  VaultInv'
<1> USE DEF VaultInv
<1> DEFINE view == Replay(BaseView, k)
           todo == IF given = {} THEN Unresolved(view) ELSE given
           new == [Blank EXCEPT !.package = k, !.class = class,
                                !.view = view, !.todo = todo]
<1>1. /\ loc' = [loc EXCEPT ![p] = new] /\ pc' = [pc EXCEPT ![p] = "append"]
      /\ UNCHANGED <<vault, log>> /\ Readable /\ todo # {}
  BY DEF LoadEffective
<1>2. Explained(lines, BaseView, k)
  BY DEF Explained
<1>3. view \in View /\ Explained(lines, view, k)
  BY <1>1, <1>2, ReplayTyped, BaseViewTyped
<1>4. todo \subseteq Spans
  BY DEF Unresolved
<1> HIDE DEF view, todo
<1>5. /\ new \in Locals /\ new.package = k /\ new.class = class
      /\ new.view = view /\ new.todo = todo
  BY <1>3, <1>4, BlankTyped DEF Blank, Locals, Classes
<1> HIDE DEF new
<1>6. pc' \in [Clients -> Steps] /\ loc' \in [Clients -> Locals]
  BY <1>1, <1>5 DEF Steps, ReviewSteps
<1>7. Relies(p)'
  <2>1. pc'[p] = "append" /\ loc'[p] = new /\ lines' = lines
    BY <1>1 DEF log
  <2> QED
    BY <1>1, <1>3, <1>5, <2>1 DEF Relies, ImportSteps, ReviewSteps
<1>8. \A q \in Clients \ {p} : Relies(q)'
  BY <1>1, OthersRely, SameLog DEF vault, log
<1> QED
  BY <1>1, <1>6, <1>7, <1>8, KeptSame

LEMMA AppendDecisionKeeps ==
    ASSUME NEW p \in Clients, VaultInv, AppendDecision(p)
    PROVE  VaultInv'
<1> USE DEF VaultInv
<1>1. /\ pc[p] = "append" /\ loc' = loc /\ pc' = [pc EXCEPT ![p] = "replay"]
      /\ lines' = Written(DecisionOf(p)) /\ unended' = FALSE
      /\ UNCHANGED <<originals, packages, stored>>
  BY DEF AppendDecision, CanRecord, vault
<1>2. LogGrows /\ lines' \in Seq(Decision \cup {Corrupt}) /\ Len(lines') > 0
  BY <1>1, DecisionIsLine, WrittenLog DEF ReviewSteps
<1>3. Kept'
  BY <1>1, <1>2 DEF Kept, StoredOnce, PackageHasOriginal, LastLine
<1>4. \A q \in Clients \ {p} : Relies(q)'
  BY <1>1, <1>2, OthersRely
<1>5. Relies(p)'
  <2>1. pc'[p] = "replay" /\ loc'[p] = loc[p] /\ Relies(p) /\ pc[p] \in ReviewSteps
    BY <1>1 DEF ReviewSteps
  <2>2. Readable' => Explained(lines', loc[p].view, loc[p].package)
    BY <1>2, <2>1, StillExplained DEF Relies, LogGrows
  <2> QED
    BY <2>1, <2>2 DEF Relies, ImportSteps, ReviewSteps
<1>6. pc' \in [Clients -> Steps] /\ loc' \in [Clients -> Locals]
  BY <1>1 DEF Steps, ReviewSteps
<1> QED
  BY <1>3, <1>4, <1>5, <1>6

LEMMA CrashInAppendKeeps ==
    ASSUME NEW p \in Clients, VaultInv, CrashInAppend(p)
    PROVE  VaultInv'
<1> USE DEF VaultInv
<1>1. \A text \in {Corrupt, DecisionOf(p)} : text \in LogLines
  BY DecisionIsLine DEF CrashInAppend, CanRecord, ReviewSteps, LogLines
<1>2. /\ Finish(p) /\ unended' = TRUE /\ UNCHANGED <<originals, packages, stored>>
      /\ \E text \in {Corrupt, DecisionOf(p)} : lines' = Written(text)
  BY DEF CrashInAppend, vault
<1>3. LogGrows /\ lines' \in Seq(Decision \cup {Corrupt}) /\ Len(lines') > 0
  BY <1>1, <1>2, WrittenLog
<1>4. Kept'
  BY <1>2, <1>3 DEF Kept, StoredOnce, PackageHasOriginal, LastLine
<1> QED
  BY <1>2, <1>3, <1>4, FinishKeeps

LEMMA ReplayDecisionsKeeps ==
    ASSUME NEW p \in Clients, VaultInv, ReplayDecisions(p)
    PROVE  VaultInv'
<1> USE DEF VaultInv
<1> DEFINE left == loc[p].todo \ {FirstSpan(loc[p].todo)}
           k == loc[p].package
           view == Replay(loc[p].view, k)
<1>1. UNCHANGED <<vault, log>> /\ Readable /\ pc[p] = "replay"
  BY DEF ReplayDecisions
<1>2. CASE left = {}
  <2>1. Finish(p)
    BY <1>2 DEF ReplayDecisions
  <2> QED
    BY <1>1, <2>1, FinishKeeps, SameLog, KeptSame DEF vault, log
<1>3. CASE left # {}
  <2> DEFINE new == [loc[p] EXCEPT !.view = view, !.todo = left]
  <2>1. loc' = [loc EXCEPT ![p] = new] /\ pc' = [pc EXCEPT ![p] = "append"]
    BY <1>3 DEF ReplayDecisions
  <2>2. /\ loc[p] \in Locals /\ loc[p].view \in View /\ loc[p].todo \subseteq Spans
        /\ k \in Packages /\ loc[p].class \in Decided
        /\ Explained(lines, loc[p].view, k)
    BY <1>1 DEF Locals, Relies, ReviewSteps
  <2>3. view \in View /\ Explained(lines, view, k)
    BY <1>1, <2>2, ReplayTyped
  <2>4. left \subseteq Spans
    BY <2>2
  <2> HIDE DEF left, view
  <2>5. /\ new \in Locals /\ new.package = k /\ new.class = loc[p].class
        /\ new.view = view /\ new.todo = left
    BY <2>2, <2>3, <2>4 DEF Locals
  <2> HIDE DEF new, k
  <2>6. Relies(p)'
    <3>1. pc'[p] = "append" /\ loc'[p] = new /\ lines' = lines
      BY <1>1, <2>1 DEF log
    <3> QED
      BY <1>3, <2>2, <2>3, <2>5, <3>1 DEF Relies, ImportSteps, ReviewSteps, left
  <2>7. \A q \in Clients \ {p} : Relies(q)'
    BY <1>1, <2>1, OthersRely, SameLog DEF vault, log
  <2>8. pc' \in [Clients -> Steps] /\ loc' \in [Clients -> Locals]
    BY <2>1, <2>5 DEF Steps, ReviewSteps
  <2> QED
    BY <1>1, <2>6, <2>7, <2>8, KeptSame
<1> QED
  BY <1>2, <1>3

LEMMA StepKeeps == VaultInv /\ [Next]_vars => VaultInv'
<1> SUFFICES ASSUME VaultInv, [Next]_vars PROVE VaultInv'
  OBVIOUS
<1>1. ASSUME NEW p \in Clients, Import(p) PROVE VaultInv'
  BY <1>1, StartImportKeeps, StoreOriginalKeeps, CheckPackageKeeps, LinkPackageKeeps
     DEF Import
<1>2. ASSUME NEW p \in Clients, Review(p) PROVE VaultInv'
  BY <1>2, LoadEffectiveKeeps, AppendDecisionKeeps, CrashInAppendKeeps,
     ReplayDecisionsKeeps DEF Review
<1>3. ASSUME NEW p \in Clients, Abort(p) PROVE VaultInv'
  BY <1>3, FinishKeeps, SameLog, KeptSame DEF Abort, vault, log, VaultInv
<1>4. CASE UNCHANGED vars
  <2>1. \A p \in Clients : Relies(p)'
    <3> SUFFICES ASSUME NEW p \in Clients PROVE Relies(p)'
      OBVIOUS
    <3> QED
      BY <1>4 DEF vars, VaultInv, Relies, Readable
  <2>2. Kept'
    BY <1>4, KeptSame DEF VaultInv, vars, vault, log
  <2> QED
    BY <1>4, <2>1, <2>2 DEF VaultInv, vars
<1> QED
  BY <1>1, <1>2, <1>3, <1>4 DEF Next

-----------------------------------------------------------------------------
\* The inductive invariant of the vault: whatever imports and reviews overlap or
\* stop, each command's next step finds what its earlier steps left.
THEOREM VaultInvHolds == Spec => []VaultInv
BY InitHolds, StepKeeps, PTL DEF Spec

\* The state of the vault has its type: what a replay makes of a view is a view.
THEOREM VaultIsTyped == Spec => []TypeOK
<1>1. VaultInv => TypeOK
  BY DEF VaultInv, Kept, Steps, ImportSteps, ReviewSteps, TypeOK
<1> QED
  BY <1>1, VaultInvHolds, PTL

\* Every import that reported success finds its content in the vault for ever.
THEOREM StoredForEver == Spec => []StoredOnce
<1>1. VaultInv => StoredOnce
  BY DEF VaultInv, Kept
<1> QED
  BY <1>1, VaultInvHolds, PTL

\* A package can be verified against its original, wherever a command stopped.
THEOREM OriginalsAreThere == Spec => []PackageHasOriginal
<1>1. VaultInv => PackageHasOriginal
  BY DEF VaultInv, Kept
<1> QED
  BY <1>1, VaultInvHolds, PTL

\* A log that parses gives each span the class of the latest decision about it,
\* in this package and no other (replay_decisions), however long the log is.
THEOREM ReplayIsLatest == Spec => []LatestDecisionWins
<1>1. VaultInv => LatestDecisionWins
  <2> SUFFICES ASSUME VaultInv, Readable, NEW k \in Packages, NEW s \in Spans
               PROVE  Replay(BaseView, k)[s] = LatestClass(k, s)
    BY DEF LatestDecisionWins
  <2> DEFINE decided == {m \in 1..Len(lines) : lines[m].package = k /\ lines[m].span = s}
  <2>1. lines \in Seq(LogLines)
    BY DEF VaultInv, Kept, LogLines
  <2>2. Replay(BaseView, k)[s] =
           IF decided = {} THEN BaseView[s] ELSE lines[LastOf(decided)].class
    BY <2>1, ReplayEnds, BaseViewTyped DEF After
  <2>3. (CHOOSE n \in decided : \A m \in decided : m <= n) = LastOf(decided)
    <3>1. \A m, n \in decided : m <= n <=> n >= m
      OBVIOUS
    <3> HIDE DEF decided
    <3> QED
      BY <3>1 DEF LastOf
  <2> QED
    BY <2>2, <2>3 DEF LatestClass
<1> QED
  BY <1>1, VaultInvHolds, PTL

\* A review decides on a view that the log explains, although it folds the log
\* over its own last outcome while others append (record_review_decision).
THEOREM ViewsAreExplained == Spec => []ViewExplained
<1>1. VaultInv => ViewExplained
  BY DEF VaultInv, Relies, ReviewSteps, Explained, ViewExplained
<1> QED
  BY <1>1, VaultInvHolds, PTL

\* No append, and no crash in one, changes a line that was complete.
THEOREM LogOnlyGrows == Spec => DecisionsOnlyGrow
<1> DEFINE Grows ==
        LET whole == IF unended THEN Len(lines) - 1 ELSE Len(lines)
        IN  /\ Len(lines') >= Len(lines)
            /\ \A n \in 1 .. whole : lines'[n] = lines[n]
<1>1. VaultInv /\ [Next]_vars => [Grows]_vars
  <2> SUFFICES ASSUME VaultInv, Next PROVE Grows
    OBVIOUS
  <2>1. lines \in Seq(LogLines)
    BY DEF VaultInv, Kept, LogLines
  <2>2. ASSUME NEW p \in Clients, AppendDecision(p) PROVE Grows
    BY <2>2, DecisionIsLine, WrittenGrows DEF AppendDecision, CanRecord, ReviewSteps
  <2>3. ASSUME NEW p \in Clients, CrashInAppend(p) PROVE Grows
    <3>1. \A text \in {Corrupt, DecisionOf(p)} : text \in LogLines
      BY <2>3, DecisionIsLine DEF CrashInAppend, CanRecord, ReviewSteps, LogLines
    <3> QED
      BY <2>3, <3>1, WrittenGrows DEF CrashInAppend
  <2>4. CASE lines' = lines
    BY <2>1, <2>4
  <2> QED
    BY <2>2, <2>3, <2>4 DEF Next, Import, Review, Abort, StartImport, StoreOriginal,
       CheckPackage, LinkPackage, LoadEffective, ReplayDecisions, vault, log
<1> QED
  BY <1>1, VaultInvHolds, PTL DEF Spec, DecisionsOnlyGrow

=============================================================================
