----------------------------- MODULE MCServices -----------------------------
(***************************************************************************)
(* The three commands that wait for another process, in one instance: a    *)
(* rewrite for the language model, an import for its worker, a research    *)
(* call for its endpoint.  They share no state: a behaviour is about one   *)
(* of them, and the others are as they are when they have ended.           *)
(***************************************************************************)
EXTENDS RewriteLoop, ImportPipeline, ResearchClient

VARIABLE about

servicesVars == <<pc, repairs, attempt, posts, candidate, output, outcome,
                  disk, importPc, import, worker, kept, settings, call, about>>

RewriteEnded ==
    /\ pc = "end" /\ outcome = "killed"
    /\ repairs = 0 /\ attempt = 0 /\ posts = 0
    /\ candidate = NoText
    /\ output = [file |-> "old", text |-> NoText]

ImportEnded ==
    /\ ImportInit
    /\ disk = CHOOSE c \in Contents : TRUE

ResearchEnded ==
    /\ settings = CHOOSE s \in Settings : TRUE
    /\ call = [state |-> "refused", attempt |-> 0]

ServicesInit ==
    \/ about = "rewrite" /\ Init /\ ImportEnded /\ ResearchEnded
    \/ about = "import" /\ RewriteEnded /\ ImportInit /\ ResearchEnded
    \/ about = "research" /\ RewriteEnded /\ ImportEnded /\ ResearchInit

ServicesNext ==
    \/ about = "rewrite" /\ Next /\ UNCHANGED <<importVars, researchVars, about>>
    \/ about = "import" /\ ImportNext /\ UNCHANGED <<vars, researchVars, about>>
    \/ about = "research" /\ ResearchNext /\ UNCHANGED <<vars, importVars, about>>

\* Each is scheduled as its own specification says.
ServicesSpec ==
    /\ ServicesInit /\ [][ServicesNext]_servicesVars
    /\ RewriteFairness /\ ImportFairness /\ ResearchFairness

\* The type invariants of the three.
ServicesTypeOK == TypeOK /\ ImportTypeOK /\ ResearchTypeOK

=============================================================================
