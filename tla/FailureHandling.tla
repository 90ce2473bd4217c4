--------------------------- MODULE FailureHandling ----------------------------
(***************************************************************************)
(* What the runtime failure handlers of Phase 2 and Phase 3 compute from   *)
(* an exception group and the current snapshot: extract the attributed     *)
(* leaves, classify each one, select the single fact, build the policy     *)
(* context, and execute the action that the policy decided.                *)
(*                                                                         *)
(* A stage that raises InvalidRequestError is undefined on its argument;   *)
(* the ...Defined operators say when it is not.  The raw group is a        *)
(* function from the branches that raised to their exceptions, as          *)
(* PhaseAnswers gives it.                                                  *)
(***************************************************************************)
EXTENDS Naturals, FiniteSets

CONSTANTS ApplicationCodes,   \* codes of the ApplicationError subclasses
          Unattributed        \* the agent of an exception that carries none

Running(phase) == [phase |-> phase, status |-> "running"]
Failed(phase)  == [phase |-> phase, status |-> "failed"]

-----------------------------------------------------------------------------
(* extract_..._agent_failures: one unattributed leaf makes it raise.        *)
ExtractDefined(failures) == \A b \in DOMAIN failures : failures[b].agent # Unattributed

(* classify_..._agent_failure: an ApplicationError keeps its code, every    *)
(* other cause collapses to the phase's own code.                           *)
Fact(leaf, unexpected) ==
  [agent_name |-> leaf.agent,
   error_code |-> IF leaf.cause \in ApplicationCodes THEN leaf.cause ELSE unexpected]

ClassifyAsIngestion(leaf) ==  \* mutant: Phase 3 reports the unexpected code of Phase 2
  Fact(leaf, "parallel_ingestion_unexpected_failure")

classify_parallel_ingestion_agent_failure(leaf) == Fact(leaf, "parallel_ingestion_unexpected_failure")
classify_forecasting_agent_failure(leaf) == Fact(leaf, "forecasting_unexpected_failure")

Facts(phase, failures) ==
  [b \in DOMAIN failures |->
     IF phase = "ingestion" THEN classify_parallel_ingestion_agent_failure(failures[b])
                            ELSE classify_forecasting_agent_failure(failures[b])]

SelectAny(facts) == DOMAIN facts # {}   \* mutant: the first of several facts is taken

(* StrictSingle...FailureSelector.select: exactly one fact or raise.        *)
SelectDefined(facts) == Cardinality(DOMAIN facts) = 1

Selected(facts) == facts[CHOOSE b \in DOMAIN facts : TRUE]

(* Initial...AttemptNumberSource: there is no retry runtime.                *)
AttemptNumber == 1

(* ...FailureContextPreparationService.prepare and                          *)
(* ...FailureContextResolutionService.resolve.                              *)
PrepareDefined(phase, failures) ==
  ExtractDefined(failures) /\ SelectDefined(Facts(phase, failures))

Context(phase, failures) ==
  LET fact == Selected(Facts(phase, failures))
  IN  [phase |-> phase, error_code |-> fact.error_code,
       attempt_number |-> AttemptNumber, agent_name |-> fact.agent_name]

(* execute_..._failure_action: only FAIL is implemented, and the terminal   *)
(* transition needs the phase's running snapshot.                           *)
ActionDefined(phase, state, action) == action = "fail" /\ state = Running(phase)
=============================================================================
