------------------------------- MODULE MCParts -------------------------------
(***************************************************************************)
(* Four components that share no state, each explored from its own initial *)
(* states with the others at rest: the steps of one neither help nor hinder *)
(* another's, so nothing would be seen in their interleavings.              *)
(***************************************************************************)
EXTENDS IngestJobs, Accounts, TrainingProfiles, ProxyTokens

VARIABLE part  \* the component that is looked at

partsVars == <<part, jobsVars, accountsVars, trainingVars, tokensVars>>

PartsInit ==
  /\ part \in {"jobs", "accounts", "training", "tokens"}
  /\ JobsInit /\ AccountsInit /\ TrainingInit /\ TokensInit

PartsNext ==
  /\ UNCHANGED part
  /\ \/ part = "jobs" /\ JobsNext /\ UNCHANGED <<accountsVars, trainingVars, tokensVars>>
     \/ part = "accounts" /\ AccountsNext /\ UNCHANGED <<jobsVars, trainingVars, tokensVars>>
     \/ part = "training" /\ TrainingNext /\ UNCHANGED <<jobsVars, accountsVars, tokensVars>>
     \/ part = "tokens" /\ TokensNext /\ UNCHANGED <<jobsVars, accountsVars, trainingVars>>

\* The jobs' fairness as it stands: their fair actions are disabled where they
\* are at rest.
PartsFair == PartsInit /\ [][PartsNext]_partsVars /\ JobsFairness

\* A bound: what may follow once requests have raced is not looked at, since
\* neither AnAdminRemains nor OneActive says anything of it.
NotRaced == ~raced /\ ~rivals

PartsTypeOK == JobsTypeOK /\ AccountsTypeOK /\ TrainingTypeOK /\ TokensTypeOK
===============================================================================
