----------------------------- MODULE GiteeCommon -----------------------------
(***************************************************************************)
(* The package side of gitee_common.Manager: its resolver (GetNewer /      *)
(* GetNewerOrFail, module PackageResolver) and its Steps with the steps    *)
(* cache (module StepsCache), over the same package names.  Between two   *)
(* calls of GetNewer the caller asks Steps for the packages between one   *)
(* it has in its workspace and its current one.                           *)
(***************************************************************************)
EXTENDS PackageResolver

VARIABLES cache, last, primary

stepsVars == <<cache, last, primary>>
allVars == <<vars, stepsVars>>

SC == INSTANCE StepsCache WITH Versions <- Names

\* Steps(from, cur) for a package 'from' the caller extracted, no later
\* than its current one; the resolver is between calls.
AskSteps ==
  /\ pc = "idle"
  /\ \E from \in {n \in Names : ws[n] = "full" /\ n.t <= cur.t} :
       SC!Steps(from, cur)
  /\ UNCHANGED vars

ManagerInit == Init /\ SC!Init

ManagerNext ==
  \/ Next /\ UNCHANGED stepsVars
  \/ AskSteps

\* The fairness of PackageResolver; Steps calls are the caller's choice.
ManagerFairness ==
  /\ WF_allVars(Resolver /\ UNCHANGED stepsVars)
  /\ WF_allVars(CIEnd /\ UNCHANGED stepsVars)
  /\ WF_allVars(ArchiveCopied /\ UNCHANGED stepsVars)
  /\ SF_allVars(Download /\ pc' = "stat" /\ UNCHANGED stepsVars)
  /\ SF_allVars(GenFailed /\ pc' = "stat" /\ UNCHANGED stepsVars)

ManagerSpec == ManagerInit /\ [][ManagerNext]_allVars /\ ManagerFairness

-----------------------------------------------------------------------------
ManagerTypeOK == TypeOK /\ SC!TypeOK

\* Once Steps has returned the gitee history's steps between two packages
\* the resolver produced, every later call for the same two packages
\* returns those steps: the cache of common.go:116 holds them, whatever
\* gitee and CI answer meanwhile.
StepsStable == SC!StepsStable
=============================================================================
