----------------------------- MODULE StepsCache -----------------------------
(***************************************************************************)
(* Manager.Steps of pkg/gitee_common/common.go: the packages between two   *)
(* versions, from the process-wide cache (utils.CacheGet / CacheSet), else *)
(* from the project history on gitee (stepsFromGitee), else from the CI    *)
(* build records (stepsFromCI).  Only an answer of the first strategy is   *)
(* cached.  The two strategies are outside the repository: each may fail   *)
(* on any call, and they may disagree, so an answer is abstracted to the   *)
(* strategy it came from.                                                  *)
(***************************************************************************)
EXTENDS Naturals

CONSTANTS
  Versions,  \* package names a caller asks about
  None       \* no cache entry

ASSUME None \notin {"gitee", "ci"}

Pairs == Versions \X Versions
Answers == {"gitee", "ci"}

VARIABLES
  cache,    \* cache[<<from, to>>]: the cached steps, or None
  last,     \* the return of the last call, [pair, ans] ("err"), or None
  primary   \* primary[p]: the gitee answer for p was returned once (history)

vars == <<cache, last, primary>>

-----------------------------------------------------------------------------
\* stepsFromGitee(from, to): the steps recorded in the project history.
StepsFromGitee(p) ==
  /\ cache' = [cache EXCEPT ![p] = "gitee"]
  /\ last' = [pair |-> p, ans |-> "gitee"]
  /\ primary' = [primary EXCEPT ![p] = TRUE]

\* Its error: stepsFromCI(from, to) is tried and its answer is returned
\* without being cached.
StepsFromCI(p) ==
  /\ \E ans \in {"ci", "err"} : last' = [pair |-> p, ans |-> ans]
  /\ UNCHANGED <<cache, primary>>

\* Mutant: the cache is not consulted.
StepsNoCache(from, to) ==
  IF from = to
    THEN /\ last' = [pair |-> <<from, to>>, ans |-> "err"]
         /\ UNCHANGED <<cache, primary>>
    ELSE StepsFromGitee(<<from, to>>) \/ StepsFromCI(<<from, to>>)

\* Steps(from, to): an error if from = to; the cached answer if any;
\* otherwise gitee, falling back to CI.
Steps(from, to) ==
  IF from = to
    THEN /\ last' = [pair |-> <<from, to>>, ans |-> "err"]
         /\ UNCHANGED <<cache, primary>>
    ELSE IF cache[<<from, to>>] # None
           THEN /\ last' = [pair |-> <<from, to>>, ans |-> cache[<<from, to>>]]
                /\ UNCHANGED <<cache, primary>>
           ELSE StepsFromGitee(<<from, to>>) \/ StepsFromCI(<<from, to>>)

Init ==
  /\ cache = [p \in Pairs |-> None]
  /\ last = None
  /\ primary = [p \in Pairs |-> FALSE]

Next == \E from, to \in Versions : Steps(from, to)

Spec == Init /\ [][Next]_vars

-----------------------------------------------------------------------------
\* The cache only ever holds answers of the project history (spec 4.1:
\* the fallback result is not cached).
TypeOK ==
  /\ cache \in [Pairs -> {"gitee", None}]
  /\ last \in [pair : Pairs, ans : Answers \cup {"err"}] \cup {None}
  /\ primary \in [Pairs -> BOOLEAN]

\* Once Steps has returned the steps recorded in the project history for a
\* pair, every later call for that pair returns those same steps, even
\* when gitee can no longer be queried and CI would answer differently:
\* the answer callers bisect over does not change under them.
StepsStable ==
  [][\A p \in Pairs : primary[p] /\ last'.pair = p => last'.ans = "gitee"]_vars
=============================================================================
