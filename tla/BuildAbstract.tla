---------------------------- MODULE BuildAbstract ----------------------------
(***************************************************************************)
(* What Manager.Build promises its callers, without the pipeline: a call   *)
(* either finds the package available and returns nil at once, or runs;   *)
(* while it runs it may hold at most one server of the pool, and a server *)
(* is held by at most one call; image files of the package appear only    *)
(* while its call holds a server; a returning call holds no server, and a *)
(* nil return means every required image of the package exists.           *)
(***************************************************************************)
CONSTANTS Builders, Servers, Pkgs, Images, None

VARIABLES
  busy,     \* busy[b]: b's Build call is running
  target,   \* target[b]: the package of b's call
  res,      \* res[b]: return of b's last call: "none", "ok", "err"
  owner,    \* owner[s]: the call holding server s, or None
  present   \* present[p]: the image files of workspace/p that exist

vars == <<busy, target, res, owner, present>>

Holds(b) == \E s \in Servers : owner[s] = b

\* The package is available: the call returns nil without running.
CallAvailable(b, p) ==
  /\ ~busy[b]
  /\ present[p] = Images
  /\ target' = [target EXCEPT ![b] = p]
  /\ res' = [res EXCEPT ![b] = "ok"]
  /\ UNCHANGED <<busy, owner, present>>

Call(b, p) ==
  /\ ~busy[b]
  /\ busy' = [busy EXCEPT ![b] = TRUE]
  /\ target' = [target EXCEPT ![b] = p]
  /\ res' = [res EXCEPT ![b] = "none"]
  /\ UNCHANGED <<owner, present>>

Take(b, s) ==
  /\ busy[b] /\ ~Holds(b)
  /\ owner[s] = None
  /\ owner' = [owner EXCEPT ![s] = b]
  /\ UNCHANGED <<busy, target, res, present>>

Give(b) ==
  /\ busy[b] /\ Holds(b)
  /\ owner' = [s \in Servers |-> IF owner[s] = b THEN None ELSE owner[s]]
  /\ UNCHANGED <<busy, target, res, present>>

Write(b, f) ==
  /\ busy[b] /\ Holds(b)
  /\ present' = [present EXCEPT ![target[b]] = @ \cup {f}]
  /\ UNCHANGED <<busy, target, res, owner>>

\* The call returns; whatever it holds goes back to the pool.
Return(b, r) ==
  /\ busy[b]
  /\ r = "ok" => present[target[b]] = Images
  /\ busy' = [busy EXCEPT ![b] = FALSE]
  /\ res' = [res EXCEPT ![b] = r]
  /\ owner' = [s \in Servers |-> IF owner[s] = b THEN None ELSE owner[s]]
  /\ UNCHANGED <<target, present>>

Init ==
  /\ busy = [b \in Builders |-> FALSE]
  /\ target \in [Builders -> Pkgs]
  /\ res = [b \in Builders |-> "none"]
  /\ owner = [s \in Servers |-> None]
  /\ present \in [Pkgs -> SUBSET Images]

Next ==
  \E b \in Builders :
    \/ \E p \in Pkgs : CallAvailable(b, p) \/ Call(b, p)
    \/ \E s \in Servers : Take(b, s)
    \/ Give(b)
    \/ \E f \in Images : Write(b, f)
    \/ \E r \in {"ok", "err"} : Return(b, r)

Spec == Init /\ [][Next]_vars
=============================================================================
