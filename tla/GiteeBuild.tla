----------------------------- MODULE GiteeBuild -----------------------------
(***************************************************************************)
(* Manager.Flash of pkg/gitee_build/gitee_build.go: the package manager    *)
(* that only tests package builds.  Its Flash builds the package with one  *)
(* BuildNoRetry(config, true, ctx) (out/ removed first, no second try),    *)
(* skips packages whose name carries the build_fail token, and returns nil *)
(* whatever happened.  The build pipeline, pool and workspace are those of *)
(* RemoteBuild; only the entry point differs.                              *)
(***************************************************************************)
EXTENDS RemoteBuild

CONSTANT
  FailPkgs   \* packages whose name contains "build_fail"

ASSUME FailPkgs \subseteq Pkgs

\* Flash(device, pkg, ctx): nothing to do if PkgAvailable or the package is
\* a build_fail placeholder; otherwise one BuildNoRetry with rm = true.
\* The caller's result is Flash's return while it does not build, and the
\* return of BuildNoRetry (which Flash then discards) when it does.
GiteeFlash(b, p) ==
  /\ pc[b] = "idle"
  /\ pkg' = [pkg EXCEPT ![b] = p]
  /\ canceled' = [canceled EXCEPT ![b] = FALSE]
  /\ IF PkgAvailable(p) \/ p \in FailPkgs
       THEN /\ result' = [result EXCEPT ![b] = "ok"]
            /\ UNCHANGED <<pc, rm>>
       ELSE /\ result' = [result EXCEPT ![b] = "none"]
            /\ Goto(b, "acquire")
            /\ rm' = [rm EXCEPT ![b] = TRUE]
  /\ UNCHANGED <<srv, idx, serverVars, ws, manifest>>

\* A caller of gitee_build's Flash: the pipeline steps of BuildNoRetry.
GiteeCaller(b) ==
  \/ \E p \in Pkgs : GiteeFlash(b, p)
  \/ \E s \in Servers : GetBuildServer(b, s)
  \/ RepoInit(b) \/ UploadManifest(b) \/ RepoSync(b) \/ PreCompile(b)
  \/ RmOut(b) \/ Compile(b) \/ CompileFails(b) \/ StepFails(b)
  \/ CollectStart(b) \/ CollectEnd(b) \/ BuildSucceeds(b)

GiteeNext == \E b \in Builders : GiteeCaller(b) \/ Cancel(b)

GiteeFairness ==
  \A b \in Builders :
    /\ WF_vars(GiteeCaller(b) /\ pc[b] # "idle")
    /\ SF_vars(\E s \in Servers : GetBuildServer(b, s))

GiteeSpec == Init /\ [][GiteeNext]_vars /\ GiteeFairness

=============================================================================
