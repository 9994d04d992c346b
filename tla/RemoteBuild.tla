---------------------------- MODULE RemoteBuild ----------------------------
(***************************************************************************)
(* The remote build orchestrator of fotff: Manager.Build, PkgAvailable and *)
(* BuildNoRetry of pkg/gitee_common/build.go, run by several concurrent    *)
(* callers (one goroutine per device pipeline) against the shared pool of  *)
(* build servers, with the local package workspace they all write into.   *)
(*                                                                         *)
(* Each caller runs one Build call at a time with its own context, which   *)
(* the environment may cancel.  Remote commands (RunCmdViaSSHContext and   *)
(* its NoRetry variant) fail on a cancelled context; file transfers        *)
(* (TransFileViaSSH) take no context and are never cancelled.              *)
(*                                                                         *)
(* Data is abstracted to provenance: the remote tree of a server is        *)
(* pinned to the package whose manifest was uploaded last (tag), a         *)
(* successful compile leaves images of that tag in the output tree (out),  *)
(* and each local image file records the tag it was compiled from.         *)
(***************************************************************************)
EXTENDS Naturals, Sequences, SequencesExt

CONSTANTS
  Builders,   \* concurrent callers of Manager.Build (device pipelines)
  Servers,    \* build servers of the pool (res.GetBuildServer)
  Pkgs,       \* package identifiers (directories of the workspace)
  ImgList,    \* BuildConfig.ImgList: sequence of required image names
  None        \* no server / no holder / absent file

ASSUME Builders # {} /\ Servers # {} /\ Pkgs # {}
ASSUME ImgList \in Seq(STRING) /\ Len(ImgList) > 0
ASSUME None \notin Builders \cup Servers \cup Pkgs

Images == ToSet(ImgList)

VARIABLES
  pc,        \* pc[b]: where caller b is in Build / BuildNoRetry
  rm,        \* rm[b]: the 'rm' argument of the running BuildNoRetry
  srv,       \* srv[b]: server checked out by b, or None
  pkg,       \* pkg[b]: config.Pkg of b's current Build call
  idx,       \* idx[b]: loop index over ImgList in the collect step
  canceled,  \* canceled[b]: ctx of b's current call has been cancelled
  result,    \* result[b]: return of b's last Build call: none/ok/err
  holder,    \* holder[s]: caller holding server s, or None
  tag,       \* tag[s]: package whose manifest pins s's source tree
  out,       \* out[s]: tag the images in s's out/ tree were compiled from
  outOk,     \* outOk[s]: s's out/ tree allows an incremental compile
  ws,        \* ws[p][f]: local file workspace/p/f: None or [from, done]
  manifest   \* manifest[p]: workspace/p/manifest_tag.xml exists

callerVars == <<pc, rm, srv, pkg, idx, canceled, result>>
serverVars == <<holder, tag, out, outOk>>
vars == <<callerVars, serverVars, ws, manifest>>

\* Program points of a caller.  "acquire" is the call to GetBuildServer at
\* the top of BuildNoRetry; the others are its pipeline steps, in order.
PipelineSteps ==
  {"mkdir", "manifest", "sync", "precompile", "rmout", "compile",
   "collect", "collecting"}
PCs == {"idle", "acquire"} \cup PipelineSteps

FileState == {None} \cup [from : Pkgs \cup {None}, done : BOOLEAN]

-----------------------------------------------------------------------------
(* Helpers                                                                 *)

\* PkgAvailable: every required image exists under workspace/pkg.  It is an
\* os.Stat, so a file that is still being written counts as present.
PkgAvailable(p) == \A f \in Images : ws[p][f] # None

\* Move caller b to program point 'to'.
Goto(b, to) == pc' = [pc EXCEPT ![b] = to]

\* A remote command over SSH succeeds only on a live context.
Live(b) == ~canceled[b]

\* Mutant: the server is released by a plain call at the end of the
\* function instead of a defer, so an early error return leaks it.
EndAttemptLeaksServer(b) ==
  /\ UNCHANGED <<holder, srv>>
  /\ IF rm[b]
       THEN /\ Goto(b, "idle")
            /\ result' = [result EXCEPT ![b] = "err"]
            /\ UNCHANGED rm
       ELSE /\ Goto(b, "acquire")
            /\ rm' = [rm EXCEPT ![b] = TRUE]
            /\ UNCHANGED result

\* Mutant: Build retries every failed attempt instead of exactly once.
EndAttemptRetryAlways(b) ==
  /\ holder' = [holder EXCEPT ![srv[b]] = None]
  /\ srv' = [srv EXCEPT ![b] = None]
  /\ Goto(b, "acquire")
  /\ rm' = [rm EXCEPT ![b] = TRUE]
  /\ UNCHANGED result

\* BuildNoRetry returned an error: the deferred ReleaseBuildServer frees the
\* server; Build then either retries once with rm = true or returns err.
EndAttemptWithError(b) ==
  /\ holder' = [holder EXCEPT ![srv[b]] = None]
  /\ srv' = [srv EXCEPT ![b] = None]
  /\ IF rm[b]
       THEN /\ Goto(b, "idle")
            /\ result' = [result EXCEPT ![b] = "err"]
            /\ UNCHANGED rm
       ELSE /\ Goto(b, "acquire")
            /\ rm' = [rm EXCEPT ![b] = TRUE]
            /\ UNCHANGED result

-----------------------------------------------------------------------------
(* Actions                                                                 *)

\* A new call Build(config{Pkg: p}, ctx) with a fresh context.  If the
\* package is available it returns nil at once; otherwise it starts
\* BuildNoRetry(config, false, ctx).
Build(b, p) ==
  /\ pc[b] = "idle"
  /\ pkg' = [pkg EXCEPT ![b] = p]
  /\ canceled' = [canceled EXCEPT ![b] = FALSE]
  /\ IF PkgAvailable(p)
       THEN /\ result' = [result EXCEPT ![b] = "ok"]
            /\ UNCHANGED <<pc, rm>>
       ELSE /\ result' = [result EXCEPT ![b] = "none"]
            /\ Goto(b, "acquire")
            /\ rm' = [rm EXCEPT ![b] = FALSE]
  /\ UNCHANGED <<srv, idx, serverVars, ws, manifest>>

\* server := res.GetBuildServer(): blocks until some server is free.
GetBuildServer(b, s) ==
  /\ pc[b] = "acquire"
  /\ holder[s] = None
  /\ holder' = [holder EXCEPT ![s] = b]
  /\ srv' = [srv EXCEPT ![b] = s]
  /\ Goto(b, "mkdir")
  /\ UNCHANGED <<rm, pkg, idx, canceled, result, tag, out, outOk, ws, manifest>>

\* mkdir -p && repo init -u <manifest repo>.
RepoInit(b) ==
  /\ pc[b] = "mkdir" /\ Live(b)
  /\ Goto(b, "manifest")
  /\ UNCHANGED <<rm, srv, pkg, idx, canceled, result, serverVars, ws, manifest>>

\* Mutant: an upload error is only logged and the pipeline goes on with
\* whatever manifest the server had.
UploadManifestIgnored(b) ==
  /\ pc[b] = "manifest"
  /\ Goto(b, "sync")
  /\ UNCHANGED <<rm, srv, pkg, idx, canceled, result, serverVars, ws, manifest>>

\* TransFileViaSSH(Upload, .repo/manifest.xml, workspace/pkg/manifest_tag.xml):
\* the package's manifest tag replaces the remote manifest, pinning the
\* server's sources to that package.  Fails if the local file is missing.
UploadManifest(b) ==
  /\ pc[b] = "manifest"
  /\ manifest[pkg[b]]
  /\ tag' = [tag EXCEPT ![srv[b]] = pkg[b]]
  /\ Goto(b, "sync")
  /\ UNCHANGED <<rm, srv, pkg, idx, canceled, result, holder, out, outOk, ws, manifest>>

\* repo sync --force-remove-dirty; git reset/clean; git lfs pull.
RepoSync(b) ==
  /\ pc[b] = "sync" /\ Live(b)
  /\ Goto(b, "precompile")
  /\ UNCHANGED <<rm, srv, pkg, idx, canceled, result, serverVars, ws, manifest>>

\* The component's pre-compile command, then 'rm -rf out' only if rm.
PreCompile(b) ==
  /\ pc[b] = "precompile" /\ Live(b)
  /\ Goto(b, IF rm[b] THEN "rmout" ELSE "compile")
  /\ UNCHANGED <<rm, srv, pkg, idx, canceled, result, serverVars, ws, manifest>>

RmOut(b) ==
  /\ pc[b] = "rmout" /\ Live(b)
  /\ outOk' = [outOk EXCEPT ![srv[b]] = TRUE]
  /\ out' = [out EXCEPT ![srv[b]] = None]
  /\ Goto(b, "compile")
  /\ UNCHANGED <<rm, srv, pkg, idx, canceled, result, holder, tag, ws, manifest>>

\* Mutant: the collect loop is started at index 0.
CompileIndexFromZero(b) ==
  /\ pc[b] = "compile" /\ Live(b)
  /\ outOk[srv[b]]
  /\ out' = [out EXCEPT ![srv[b]] = tag[srv[b]]]
  /\ idx' = [idx EXCEPT ![b] = 0]
  /\ Goto(b, "collect")
  /\ UNCHANGED <<rm, srv, pkg, canceled, result, holder, tag, outOk, ws, manifest>>

\* The compile command (RunCmdViaSSHContextNoRetry): succeeds only on a
\* live context and a usable out/ tree, leaving images of the pinned tag.
Compile(b) ==
  /\ pc[b] = "compile" /\ Live(b)
  /\ outOk[srv[b]]
  /\ out' = [out EXCEPT ![srv[b]] = tag[srv[b]]]
  /\ idx' = [idx EXCEPT ![b] = 1]
  /\ Goto(b, "collect")
  /\ UNCHANGED <<rm, srv, pkg, canceled, result, holder, tag, outOk, ws, manifest>>

\* A failed compile returns an error at once and may leave the incremental
\* out/ tree unusable for the next compile on that server.
CompileFails(b) ==
  /\ pc[b] = "compile"
  /\ \E ok \in BOOLEAN : outOk' = [outOk EXCEPT ![srv[b]] = ok]
  /\ EndAttemptWithError(b)
  /\ UNCHANGED <<pkg, idx, canceled, tag, out, ws, manifest>>

\* Any other step returns an error: a remote command failing or hitting
\* the cancelled context, a transfer failing (a download that had started
\* leaves its partly written file behind).
StepFails(b) ==
  /\ pc[b] \in PipelineSteps \ {"compile"}
  /\ EndAttemptWithError(b)
  /\ UNCHANGED <<pkg, idx, canceled, tag, out, outOk, ws, manifest>>

\* for f in ImgList: TransFileViaSSH(Download, ...) into workspace/pkg.
\* The destination is created (or truncated) when the transfer starts.
CollectStart(b) ==
  /\ pc[b] = "collect"
  /\ idx[b] <= Len(ImgList)
  /\ ws' = [ws EXCEPT ![pkg[b]][ImgList[idx[b]]] =
              [from |-> out[srv[b]], done |-> FALSE]]
  /\ Goto(b, "collecting")
  /\ UNCHANGED <<rm, srv, pkg, idx, canceled, result, serverVars, manifest>>

CollectEnd(b) ==
  /\ pc[b] = "collecting"
  /\ ws' = [ws EXCEPT ![pkg[b]][ImgList[idx[b]]].done = TRUE]
  /\ idx' = [idx EXCEPT ![b] = @ + 1]
  /\ Goto(b, "collect")
  /\ UNCHANGED <<rm, srv, pkg, canceled, result, serverVars, manifest>>

\* Mutant: the collect loop is left one image early.
BuildSucceedsEarly(b) ==
  /\ pc[b] = "collect"
  /\ idx[b] >= Len(ImgList)
  /\ holder' = [holder EXCEPT ![srv[b]] = None]
  /\ srv' = [srv EXCEPT ![b] = None]
  /\ result' = [result EXCEPT ![b] = "ok"]
  /\ Goto(b, "idle")
  /\ UNCHANGED <<rm, pkg, idx, canceled, tag, out, outOk, ws, manifest>>

\* All images copied: BuildNoRetry returns nil, the server is released and
\* Build returns nil.
BuildSucceeds(b) ==
  /\ pc[b] = "collect"
  /\ idx[b] > Len(ImgList)
  /\ holder' = [holder EXCEPT ![srv[b]] = None]
  /\ srv' = [srv EXCEPT ![b] = None]
  /\ result' = [result EXCEPT ![b] = "ok"]
  /\ Goto(b, "idle")
  /\ UNCHANGED <<rm, pkg, idx, canceled, tag, out, outOk, ws, manifest>>

\* The caller's context is cancelled while its call is running.
Cancel(b) ==
  /\ pc[b] # "idle"
  /\ ~canceled[b]
  /\ canceled' = [canceled EXCEPT ![b] = TRUE]
  /\ UNCHANGED <<pc, rm, srv, pkg, idx, result, serverVars, ws, manifest>>

-----------------------------------------------------------------------------
Init ==
  /\ pc = [b \in Builders |-> "idle"]
  /\ rm = [b \in Builders |-> FALSE]
  /\ srv = [b \in Builders |-> None]
  /\ pkg \in [Builders -> Pkgs]
  /\ idx = [b \in Builders |-> 1]
  /\ canceled = [b \in Builders |-> FALSE]
  /\ result = [b \in Builders |-> "none"]
  /\ holder = [s \in Servers |-> None]
  /\ tag = [s \in Servers |-> None]
  /\ out = [s \in Servers |-> None]
  /\ outOk \in [Servers -> BOOLEAN]
  \* Packages extracted from archives: each image is there, complete, or not.
  /\ ws \in {[p \in Pkgs |-> [f \in Images |-> IF f \in have[p]
                                              THEN [from |-> p, done |-> TRUE]
                                              ELSE None]]
            : have \in [Pkgs -> SUBSET Images]}
  /\ manifest \in [Pkgs -> BOOLEAN]

\* Everything caller b can do, cancellation of its context excluded.
Caller(b) ==
  \/ \E p \in Pkgs : Build(b, p)
  \/ \E s \in Servers : GetBuildServer(b, s)
  \/ RepoInit(b) \/ UploadManifest(b) \/ RepoSync(b) \/ PreCompile(b)
  \/ RmOut(b) \/ Compile(b) \/ CompileFails(b) \/ StepFails(b)
  \/ CollectStart(b) \/ CollectEnd(b) \/ BuildSucceeds(b)

Next == \E b \in Builders : Caller(b) \/ Cancel(b)

\* Callers are goroutines that keep running; a caller blocked in
\* GetBuildServer is served when a server is released (strong fairness).
Fairness ==
  \A b \in Builders :
    /\ WF_vars(Caller(b) /\ pc[b] # "idle")
    /\ SF_vars(\E s \in Servers : GetBuildServer(b, s))

Spec == Init /\ [][Next]_vars /\ Fairness

-----------------------------------------------------------------------------
(* Properties                                                              *)

TypeOK ==
  /\ pc \in [Builders -> PCs]
  /\ rm \in [Builders -> BOOLEAN]
  /\ srv \in [Builders -> Servers \cup {None}]
  /\ pkg \in [Builders -> Pkgs]
  /\ idx \in [Builders -> 1 .. Len(ImgList) + 1]
  /\ canceled \in [Builders -> BOOLEAN]
  /\ result \in [Builders -> {"none", "ok", "err"}]
  /\ holder \in [Servers -> Builders \cup {None}]
  /\ tag \in [Servers -> Pkgs \cup {None}]
  /\ out \in [Servers -> Pkgs \cup {None}]
  /\ outOk \in [Servers -> BOOLEAN]
  /\ ws \in [Pkgs -> [Images -> FileState]]
  /\ manifest \in [Pkgs -> BOOLEAN]

\* The pool is never leaked nor shared: a server is held exactly by the one
\* caller that is inside BuildNoRetry with it, on every exit path of
\* BuildNoRetry (the deferred ReleaseBuildServer).
PoolConsistent ==
  \A b \in Builders :
    /\ (pc[b] \in PipelineSteps) <=> (srv[b] # None)
    /\ srv[b] # None => holder[srv[b]] = b
    /\ \A s \in Servers : holder[s] = b => srv[b] = s

\* Every image in workspace/p was compiled from p's own manifest tag: the
\* upload of the manifest, the sync, the compile and the copies of one
\* BuildNoRetry all happen on one server that nobody else uses meanwhile.
ImagesFromOwnManifest ==
  \A p \in Pkgs, f \in Images : ws[p][f] # None => ws[p][f].from = p

\* Every Build call eventually returns, success or error: no caller waits
\* for a server forever and the two-tier retry ends.
BuildReturns == \A b \in Builders : pc[b] # "idle" ~> pc[b] = "idle"

-----------------------------------------------------------------------------
(* Refinement of BuildAbstract: a call is busy while the caller is not    *)
(* idle, the pool's owners are the holders, and a package's present files *)
(* are those an os.Stat finds (complete or not).                           *)

Abstract == INSTANCE BuildAbstract WITH
  busy <- [b \in Builders |-> pc[b] # "idle"],
  target <- pkg,
  res <- result,
  owner <- holder,
  present <- [p \in Pkgs |-> {f \in Images : ws[p][f] # None}]

\* Manager.Build, with every step of BuildNoRetry and its retry, keeps the
\* promises of BuildAbstract: one server per call and one call per server,
\* files written only by a call holding a server, the server back in the
\* pool on return, and nil returned only when PkgAvailable would now hold.
RefinesBuildAbstract == Abstract!Spec
=============================================================================
