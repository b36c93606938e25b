--------------------------- MODULE ResearchClient ---------------------------
(***************************************************************************)
(* One research call of the beacon: every gate is passed before the first  *)
(* request, transient failures are tried again, and an answer is returned  *)
(* only when all of it has the documented shape.                           *)
(***************************************************************************)
EXTENDS Integers

CONSTANTS
    MaxAttempts,     \* 3: XaiResearchClient._MAX_RETRIES
    ResearchModels          \* names of models

\* PREFERRED_MODELS; what an endpoint advertises is never asked by research.
NoModel == "none"

ASSUME ResearchAssumption == MaxAttempts \in Nat \ {0} /\ NoModel \notin ResearchModels

Settings == [test : BOOLEAN, live : BOOLEAN, network : {"granted", "denied", "no policy"},
             configured : ResearchModels \cup {NoModel}, retention : BOOLEAN,
             verified : SUBSET ResearchModels]

\* What the endpoint does with one request.
Responses == {"timeout", "lost", "protocol", "server", "client", "garbled",
              "misshaped", "result"}

VARIABLES
    settings,     \* the environment and the arguments of the client
    call          \* the call: its state, and attempts made

researchVars == <<settings, call>>

ResearchTypeOK ==
    /\ settings \in Settings
    /\ call.state \in {"idle", "attempt", "trickle", "refused", "failed", "answered"}
    /\ call.attempt \in 0 .. MaxAttempts

ResearchInit ==
    /\ settings \in Settings
    /\ call = [state |-> "idle", attempt |-> 0]

\* select_model: the configured model wins, and no list is given to choose from.
SelectModel(configured) == configured

\* _network_permitted: exactly True, and on a policy object that has the flag.
NetworkPermitted(network) == network = "granted"

Permitted(s) ==
    /\ s.test \/ s.live
    /\ NetworkPermitted(s.network)
    /\ SelectModel(s.configured) # NoModel
    /\ s.retention => SelectModel(s.configured) \in s.verified

Research ==
    /\ call.state = "idle"
    /\ call' = [call EXCEPT !.state = IF Permitted(settings) THEN "attempt" ELSE "refused"]
    /\ UNCHANGED settings

Transient(response) == response \in {"timeout", "lost", "server"}

\* _validate_research_payload: nothing is repaired, any other shape is an error.
Outcome(response) == IF response = "result" THEN "answered" ELSE "failed"

\* The response comes in piece by piece; the timeout of the client is for each
\* piece, and none is for the response.
ResponseTrickles ==
    /\ call.state = "attempt"
    /\ call' = [call EXCEPT !.state = "trickle"]
    /\ UNCHANGED settings

\* Mutant: behind the last attempt the count starts over.
AskedAgain(response) ==
    /\ call.state \in {"attempt", "trickle"}
    /\ call' = [attempt |-> (call.attempt + 1) % MaxAttempts,
                state |-> IF Transient(response) THEN "attempt" ELSE Outcome(response)]
    /\ UNCHANGED settings

Request(response) ==
    /\ call.state \in {"attempt", "trickle"}
    /\ call' = [attempt |-> call.attempt + 1,
                state |-> IF Transient(response) /\ call.attempt + 1 < MaxAttempts
                          THEN "attempt" ELSE Outcome(response)]
    /\ UNCHANGED settings

\* The operator starts over, with another environment.
Again(s) ==
    /\ call.state \in {"refused", "failed", "answered"}
    /\ settings' = s
    /\ call' = [state |-> "idle", attempt |-> 0]

ResearchNext ==
    \/ Research
    \/ ResponseTrickles
    \/ \E response \in Responses : Request(response)
    \/ \E s \in Settings : Again(s)

\* The process is scheduled, and a request to which nothing comes in any more is
\* ended by the timeout; one whose response keeps coming in is not.
ResearchFairness ==
    WF_researchVars(/\ call.state # "trickle"
                    /\ Research \/ \E response \in Responses : Request(response))

ResearchSpec == ResearchInit /\ [][ResearchNext]_researchVars /\ ResearchFairness

-----------------------------------------------------------------------------
(* Properties *)

\* Every call ends, but for one that hangs for ever in the reading of a response
\* that never stops coming in: an answer of the wrong shape is not asked for
\* again, and what may be transient not for ever (research).
ResearchEnds ==
    \/ <>[](call.state = "trickle")
    \/ call.state \in {"idle", "attempt", "trickle"}
         ~> call.state \in {"refused", "failed", "answered"}

=============================================================================
