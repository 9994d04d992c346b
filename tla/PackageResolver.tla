--------------------------- MODULE PackageResolver ---------------------------
(***************************************************************************)
(* The package resolver of pkg/gitee_common: GetNewer (CI polling with     *)
(* getNewerFromCI, or a scan of the archive directory with                 *)
(* getNewerFileFromDir) and GetNewerOrFail (gitee_build), with loopCI,     *)
(* getNewerDailyBuild, downloadToWorkspace, getNewerDailyBuildOrFail and   *)
(* genFailedPackage.                                                       *)
(*                                                                         *)
(* One caller (a manager's main loop) calls the resolver again and again   *)
(* with its current package; a successful call makes the returned package  *)
(* current.  The CI service (daily builds starting and ending) and, in     *)
(* directory mode, whoever copies archives into ArchiveDir are the         *)
(* environment.  A package name is abstracted to the build start time it  *)
(* embeds and whether it is a _build_fail placeholder; a file or a         *)
(* directory is absent, partial (written part way) or full.                *)
(***************************************************************************)
EXTENDS Naturals, FiniteSets

CONSTANTS
  MaxTime,  \* CI daily builds start at times 1 .. MaxTime
  Modes,    \* resolution strategies: "ci", "dir" (GetNewer), "orfail"
  None      \* no record / no file found yet

ASSUME MaxTime \in Nat \ {0}
ASSUME Modes # {} /\ Modes \subseteq {"ci", "dir", "orfail"}

Times == 0 .. MaxTime
BuildTimes == 1 .. MaxTime

\* <component>_<time>.tar.gz of a build, and the placeholder
\* <component>_<time>_build_fail.tar.gz that genFailedPackage makes.
Pkg(t) == [t |-> t, fail |-> FALSE]
Placeholder(t) == [t |-> t, fail |-> TRUE]
Names == {Pkg(t) : t \in Times} \cup {Placeholder(t) : t \in Times}

\* A CI daily build: not started, running, or ended with a fail reason
\* ("ok" is currentStatus "end" with an empty buildFailReason).
BuildStates == {"none", "running", "ok", "compile_failed", "other"}
FileStates == {"none", "partial", "full"}

VARIABLES
  mode,     \* the manager's strategy (WatchCI, or gitee_build)
  builds,   \* builds[t]: the CI daily build started at time t
  archive,  \* archive[n]: ArchiveDir/<n>.tar.gz
  ws,       \* ws[n]: the directory Workspace/<n> and its contents
  cur,      \* the caller's current package
  pc,       \* "idle", "poll" (the polling loop), "stat" (after it)
  newFile,  \* the package the polling loop returned
  result    \* the return of the last call: "none", "ok", "err"

vars == <<mode, builds, archive, ws, cur, pc, newFile, result>>

-----------------------------------------------------------------------------
(* Helpers                                                                 *)

\* The largest of a nonempty set of times.
Latest(S) == CHOOSE t \in S : \A u \in S : u <= t

\* The one record loopCI's query returns (pageNum 1, pageSize 1, newest
\* first): getNewerFromCI filters on buildStatus "success",
\* getNewerOrFailFromCI does not.
Record ==
  LET started == {t \in BuildTimes : builds[t] # "none"}
      q == IF mode = "ci" THEN {t \in BuildTimes : builds[t] = "ok"}
                          ELSE started
  IN IF q = {} THEN None ELSE Latest(q)

\* getAllTags(from, to): the manifest tags CI made in (from, to]; every
\* daily build has one, tagged at its start time.
TagsIn(from, to) ==
  {t \in BuildTimes : builds[t] # "none" /\ from < t /\ t <= to}

\* The files sort.Slice may leave last when ordered by the time parsed
\* from their names: the sort is not stable, so any file of the latest
\* time may end up last.
NewestFiles(files) == {f \in files : \A g \in files : g.t <= f.t}

-----------------------------------------------------------------------------
(* Actions of the resolver                                                 *)

\* The caller calls GetNewer(cur) or GetNewerOrFail(cur).
StartCall ==
  /\ pc = "idle"
  /\ pc' = "poll"
  /\ newFile' = None
  /\ result' = "none"
  /\ UNCHANGED <<mode, builds, archive, ws, cur>>

\* Mutant: the file name returned by downloadToWorkspace is assigned to a
\* variable shadowing the one loopCI returns, so the loop ends with "".
DownloadNameLost ==
  /\ pc = "poll" /\ mode \in {"ci", "orfail"}
  /\ Record # None
  /\ builds[Record] = "ok"
  /\ Pkg(Record) # cur
  /\ \/ /\ archive' = [archive EXCEPT ![Pkg(Record)] = "partial"]
        /\ UNCHANGED <<pc, newFile>>
     \/ /\ archive' = [archive EXCEPT ![Pkg(Record)] = "full"]
        /\ pc' = "stat"
        /\ UNCHANGED newFile
  /\ UNCHANGED <<mode, builds, ws, cur, result>>

\* Mutant: getNewerDailyBuild does not compare the record with cur.
DownloadNoNameCheck ==
  /\ pc = "poll" /\ mode \in {"ci", "orfail"}
  /\ Record # None
  /\ builds[Record] = "ok"
  /\ \/ /\ archive' = [archive EXCEPT ![Pkg(Record)] = "partial"]
        /\ UNCHANGED <<pc, newFile>>
     \/ /\ archive' = [archive EXCEPT ![Pkg(Record)] = "full"]
        /\ newFile' = Pkg(Record)
        /\ pc' = "stat"
  /\ UNCHANGED <<mode, builds, ws, cur, result>>

\* One iteration of loopCI whose record is a finished successful build
\* other than cur (getNewerDailyBuild): downloadToWorkspace creates
\* ArchiveDir/<name> and copies the body into it.  A copy that fails
\* leaves the truncated file and the loop polls again.  (Errors before
\* os.Create, and records loopCI skips, change nothing.)
Download ==
  /\ pc = "poll" /\ mode \in {"ci", "orfail"}
  /\ Record # None
  /\ builds[Record] = "ok"
  /\ Pkg(Record) # cur
  /\ \/ /\ archive' = [archive EXCEPT ![Pkg(Record)] = "partial"]
        /\ UNCHANGED <<pc, newFile>>
     \/ /\ archive' = [archive EXCEPT ![Pkg(Record)] = "full"]
        /\ newFile' = Pkg(Record)
        /\ pc' = "stat"
  /\ UNCHANGED <<mode, builds, ws, cur, result>>

\* Mutant: the placeholder directory is made with os.Mkdir, which fails
\* when a failed earlier attempt already made it.
GenFailedMkdir ==
  /\ pc = "poll" /\ mode = "orfail"
  /\ Record # None
  /\ builds[Record] = "compile_failed"
  /\ Record # cur.t
  /\ TagsIn(cur.t, Record) # {}
  /\ ws[Placeholder(Record)] = "none"
  /\ LET ph == Placeholder(Record) IN
     \/ /\ ws' = [ws EXCEPT ![ph] = "partial"]
        /\ UNCHANGED <<archive, pc, newFile>>
     \/ /\ ws' = [ws EXCEPT ![ph] = "full"]
        /\ archive' = [archive EXCEPT ![ph] = "partial"]
        /\ UNCHANGED <<pc, newFile>>
     \/ /\ ws' = [ws EXCEPT ![ph] = "full"]
        /\ archive' = [archive EXCEPT ![ph] = "full"]
        /\ newFile' = ph
        /\ pc' = "stat"
  /\ UNCHANGED <<mode, builds, cur, result>>

\* One iteration of loopCI in GetNewerOrFail whose record is a compile
\* failure at a time other than cur's (getNewerDailyBuildOrFail) and
\* genFailedPackage: MkdirAll Workspace/<ph>, fetch the newest tag file,
\* write it as manifest_tag.xml, tar the directory into ArchiveDir.  The
\* fetch failing leaves the empty directory; the archive failing leaves a
\* partial tarball; either way the loop polls again.
GenFailed ==
  /\ pc = "poll" /\ mode = "orfail"
  /\ Record # None
  /\ builds[Record] = "compile_failed"
  /\ Record # cur.t
  /\ TagsIn(cur.t, Record) # {}
  /\ LET ph == Placeholder(Record) IN
     \/ /\ ws' = [ws EXCEPT ![ph] = IF @ = "none" THEN "partial" ELSE @]
        /\ UNCHANGED <<archive, pc, newFile>>
     \/ /\ ws' = [ws EXCEPT ![ph] = "full"]
        /\ archive' = [archive EXCEPT ![ph] = "partial"]
        /\ UNCHANGED <<pc, newFile>>
     \/ /\ ws' = [ws EXCEPT ![ph] = "full"]
        /\ archive' = [archive EXCEPT ![ph] = "full"]
        /\ newFile' = ph
        /\ pc' = "stat"
  /\ UNCHANGED <<mode, builds, cur, result>>

\* One iteration of getNewerFileFromDir: list ArchiveDir, sort it by the
\* time in the names and take the last file if it is not cur.
ScanDir ==
  /\ pc = "poll" /\ mode = "dir"
  /\ \E f \in NewestFiles({n \in Names : archive[n] # "none"}) :
       /\ f # cur
       /\ newFile' = f
  /\ pc' = "stat"
  /\ UNCHANGED <<mode, builds, archive, ws, cur, result>>

\* The rest of GetNewer / GetNewerOrFail: if Workspace/<name> exists the
\* name is returned at once; otherwise the archive is extracted into it.
\* An extraction that fails (a truncated archive, a full disk) leaves what
\* it had written and returns the error.
Resolve ==
  /\ pc = "stat"
  /\ IF ws[newFile] # "none"
       THEN /\ result' = "ok"
            /\ cur' = newFile
            /\ UNCHANGED ws
       ELSE \/ /\ archive[newFile] = "full"
               /\ ws' = [ws EXCEPT ![newFile] = "full"]
               /\ result' = "ok"
               /\ cur' = newFile
            \/ /\ ws' = [ws EXCEPT ![newFile] = "partial"]
               /\ result' = "err"
               /\ UNCHANGED cur
  /\ pc' = "idle"
  /\ UNCHANGED <<mode, builds, archive, newFile>>

-----------------------------------------------------------------------------
(* The environment                                                         *)

\* CI starts the next daily build.
CIStart ==
  \E t \in BuildTimes :
    /\ builds[t] = "none"
    /\ \A u \in 1 .. t - 1 : builds[u] # "none"
    /\ builds' = [builds EXCEPT ![t] = "running"]
    /\ UNCHANGED <<mode, archive, ws, cur, pc, newFile, result>>

\* A running daily build ends.
CIEnd ==
  \E t \in BuildTimes, r \in {"ok", "compile_failed", "other"} :
    /\ builds[t] = "running"
    /\ builds' = [builds EXCEPT ![t] = r]
    /\ UNCHANGED <<mode, archive, ws, cur, pc, newFile, result>>

\* In directory mode an archive of a successful build is copied into
\* ArchiveDir by someone else; the copy is visible while it is written.
ArchiveArrives ==
  \E t \in BuildTimes :
    /\ mode = "dir"
    /\ builds[t] = "ok"
    /\ archive[Pkg(t)] = "none"
    /\ archive' = [archive EXCEPT ![Pkg(t)] = "partial"]
    /\ UNCHANGED <<mode, builds, ws, cur, pc, newFile, result>>

ArchiveCopied ==
  \E t \in BuildTimes :
    /\ mode = "dir"
    /\ archive[Pkg(t)] = "partial"
    /\ archive' = [archive EXCEPT ![Pkg(t)] = "full"]
    /\ UNCHANGED <<mode, builds, ws, cur, pc, newFile, result>>

-----------------------------------------------------------------------------
\* The caller starts from a package it extracted earlier, older than every
\* daily build CI will report.
Init ==
  /\ mode \in Modes
  /\ builds = [t \in BuildTimes |-> "none"]
  /\ archive = [n \in Names |-> IF n = Pkg(0) THEN "full" ELSE "none"]
  /\ ws = [n \in Names |-> IF n = Pkg(0) THEN "full" ELSE "none"]
  /\ cur = Pkg(0)
  /\ pc = "idle"
  /\ newFile = None
  /\ result = "none"

Resolver == StartCall \/ Download \/ GenFailed \/ ScanDir \/ Resolve

Environment == CIStart \/ CIEnd \/ ArchiveArrives \/ ArchiveCopied

Next == Resolver \/ Environment

\* The caller's loop keeps calling, the resolver's own steps are taken,
\* a running build ends, and the network and the disk do not fail forever:
\* a download, a placeholder and a scan that can succeed eventually do.
Fairness ==
  /\ WF_vars(Resolver)
  /\ WF_vars(CIEnd) /\ WF_vars(ArchiveCopied)
  /\ SF_vars(Download /\ pc' = "stat")
  /\ SF_vars(GenFailed /\ pc' = "stat")

Spec == Init /\ [][Next]_vars /\ Fairness

-----------------------------------------------------------------------------
(* Properties                                                              *)

TypeOK ==
  /\ mode \in Modes
  /\ builds \in [BuildTimes -> BuildStates]
  /\ archive \in [Names -> FileStates]
  /\ ws \in [Names -> FileStates]
  /\ cur \in Names
  /\ pc \in {"idle", "poll", "stat"}
  /\ newFile \in Names \cup {None}
  /\ pc = "stat" => newFile \in Names
  /\ result \in {"none", "ok", "err"}

\* A successful GetNewer / GetNewerOrFail always moves the caller to a
\* package built later than its current one: never back to cur itself
\* (the name check of getNewerDailyBuild and getNewerFileFromDir, the
\* start-time check of getNewerDailyBuildOrFail on a placeholder), and
\* never to an older one (the order of the scan and of the CI query).
ResolvedIsNewer ==
  [][pc = "stat" /\ result' = "ok" => cur'.t > cur.t]_vars

\* Whenever CI offers a package the resolver accepts over and over again,
\* the caller's calls keep returning: no failed attempt (a truncated
\* download, a half-made placeholder) blocks the retries of loopCI.
Offered ==
  \/ /\ mode \in {"ci", "orfail"} /\ Record # None
     /\ \/ builds[Record] = "ok" /\ Pkg(Record) # cur
        \/ mode = "orfail" /\ builds[Record] = "compile_failed"
           /\ Record # cur.t
  \/ /\ mode = "dir"
     /\ \E f \in NewestFiles({n \in Names : archive[n] # "none"}) : f # cur

OfferedIsTaken == []<>Offered => []<>(pc = "idle")

\* (Violation run) Spec 4.1: GetNewer ensures the package is extracted
\* into the workspace; a call that returns no error leaves Workspace/<cur>
\* with the whole content of the package.
ReturnedPackageComplete == result = "ok" => ws[cur] = "full"
=============================================================================
