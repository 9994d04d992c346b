---------------------------- MODULE FlashAndTest ----------------------------
(***************************************************************************)
(* The flash-and-test orchestrator (rec/flashandtest.go, doFlashAndTest)   *)
(* run by one pipeline per device, against one shared tester of one of    *)
(* the three kinds of tester/: common (an external tool writing a result   *)
(* file, parsed by processResult), manual (an operator answering on        *)
(* stdin, serialised by ResultLock) and pkg_available (a look for *.img    *)
(* in the package directory remembered by Prepare).                        *)
(*                                                                         *)
(* The manager's Flash is abstracted to its outcome (RemoteBuild and       *)
(* FlashDevice model it).  The common tool, the operator and the package   *)
(* directories are the environment.                                        *)
(***************************************************************************)
EXTENDS Naturals, Sequences

CONSTANTS
  Devices,   \* devices, one pipeline each
  Cases,     \* test case names the common tool knows, in its order
  Versions,  \* packages a pipeline may be asked to flash and test
  Kinds,     \* tester kinds: "common", "manual", "pkg_available"
  None

ASSUME Kinds # {} /\ Kinds \subseteq {"common", "manual", "pkg_available"}

Status == {"pass", "fail"}
\* A test-case request: one case, or "" for the whole test task.
Requests == Cases \cup {""}

VARIABLES
  kind,     \* the tester kind of this process
  hasImg,   \* hasImg[v]: PkgDir(v) holds a *.img file
  pc,       \* pc[d]: where d's doFlashAndTest is
  ver,      \* ver[d], req[d]: the Version and TestCase options of d's call
  req,
  verdict,  \* verdict[d]: "none" while running, else "pass" / "fail"
  err,      \* err[d]: d's call returned an error
  file,     \* the common tester's result file: None or [dev, res]
  readBy,   \* readBy[d]: the device whose run wrote the results d read
  pkgDirOf, \* pkg_available's device2PkgDir
  lock,     \* manual's ResultLock: the holding device or None
  stdin,    \* a line typed by the operator: None or [for, ans]
  answered  \* answered[d]: the prompt the answer d took was typed for

vars == <<kind, hasImg, pc, ver, req, verdict, err, file, readBy,
          pkgDirOf, lock, stdin, answered>>

\* Results written by the tool: one record per case, in tool order.
Results == Seq([name : Cases \cup {"default"}, st : Status])

-----------------------------------------------------------------------------
\* doFlashAndTest returns: a verdict, with or without an error.
Finish(d, v, e) ==
  /\ pc' = [pc EXCEPT ![d] = "idle"]
  /\ verdict' = [verdict EXCEPT ![d] = v]
  /\ err' = [err EXCEPT ![d] = e]

\* The overall verdict of DoTestTask's results: pass only when every
\* case passed.
AllPass(rs) == IF \A i \in DOMAIN rs : rs[i].st = "pass" THEN "pass" ELSE "fail"

\* The verdict doFlashAndTest draws from what the tester returned: for the
\* whole test task (no TestCase option) pass only when every case passed,
\* for one test case that case's status.
Verdict(d, rs) == IF req[d] = "" THEN AllPass(rs) ELSE rs[1].st

\* The one case the manual and the pkg_available testers' DoTestTask
\* passes to DoTestCases.
ManualTask == "default"
PkgAvailableTask == "pkg_available"

\* The cases d's call has the manual or pkg_available tester run: the
\* DoTestTask list, or the requested case alone.
Asked(d) ==
  IF req[d] # "" THEN <<req[d]>>
  ELSE IF kind = "manual" THEN <<ManualTask>> ELSE <<PkgAvailableTask>>

\* DoTestCases: DoTestCase of each case in turn, the results in order;
\* s is the status DoTestCase returns (pkg_available answers every case
\* from the same directory; the manual task has one case).
DoTestCases(d, s) ==
  [i \in 1 .. Len(Asked(d)) |-> [name |-> Asked(d)[i], st |-> s]]

\* FlashAndTest(ctx, opt) of device d with its options.
Start(d, v, c) ==
  /\ pc[d] = "idle"
  /\ pc' = [pc EXCEPT ![d] = "flash"]
  /\ ver' = [ver EXCEPT ![d] = v]
  /\ req' = [req EXCEPT ![d] = c]
  /\ verdict' = [verdict EXCEPT ![d] = "none"]
  /\ err' = [err EXCEPT ![d] = FALSE]
  /\ UNCHANGED <<kind, hasImg, file, readBy, pkgDirOf, lock, stdin, answered>>

\* opt.M.Flash: an error ends the call with fail and that error.
Flash(d) ==
  /\ pc[d] = "flash"
  /\ \/ pc' = [pc EXCEPT ![d] = "prepare"] /\ UNCHANGED <<verdict, err>>
     \/ Finish(d, "fail", TRUE)
  /\ UNCHANGED <<kind, hasImg, ver, req, file, readBy, pkgDirOf, lock, stdin, answered>>

\* opt.T.Prepare(PkgDir(version), device): only pkg_available keeps the
\* directory, in its map keyed by device.
Prepare(d) ==
  /\ pc[d] = "prepare"
  /\ pc' = [pc EXCEPT ![d] = "test"]
  /\ pkgDirOf' = IF kind = "pkg_available"
                   THEN [pkgDirOf EXCEPT ![d] = ver[d]] ELSE pkgDirOf
  /\ UNCHANGED <<kind, hasImg, ver, req, verdict, err, file, readBy, lock, stdin, answered>>

\* common: utils.ExecContext(tool, param..., [--test-case c], --device d).
\* A tool error is returned; a run that succeeds has written its results
\* into the one result file of the tester, or has found nothing to write.
RunTool(d) ==
  /\ pc[d] = "test" /\ kind = "common"
  /\ \/ Finish(d, "fail", TRUE) /\ UNCHANGED file
     \/ /\ pc' = [pc EXCEPT ![d] = "read"]
        /\ UNCHANGED <<file, verdict, err>>
     \/ /\ pc' = [pc EXCEPT ![d] = "read"]
        /\ \E rs \in {<<>>} \cup
                     IF req[d] = ""
                       THEN {<<[name |-> c, st |-> s]>> : c \in Cases, s \in Status}
                            \cup {<<[name |-> c1, st |-> s1], [name |-> c2, st |-> s2]>> :
                                    c1, c2 \in Cases, s1, s2 \in Status}
                       ELSE {<<[name |-> req[d], st |-> s]>> : s \in Status} :
             file' = [dev |-> d, res |-> rs]
        /\ UNCHANGED <<verdict, err>>
  /\ UNCHANGED <<kind, hasImg, ver, req, readBy, pkgDirOf, lock, stdin, answered>>

\* Mutant: on a DoTestCase error doFlashAndTest returns the status of the
\* empty default Result instead of ResultFail.
ReadResultDefaultStatus(d) ==
  /\ pc[d] = "read"
  /\ IF file = None
       THEN Finish(d, "fail", TRUE) /\ UNCHANGED readBy
       ELSE /\ readBy' = [readBy EXCEPT ![d] = file.dev]
            /\ LET rs == file.res IN
                 IF req[d] = "" THEN Finish(d, AllPass(rs), FALSE)
                 ELSE IF rs = <<>> \/ rs[1].name # req[d]
                        THEN Finish(d, "", TRUE)
                        ELSE Finish(d, rs[1].st, FALSE)
  /\ UNCHANGED <<kind, hasImg, ver, req, file, pkgDirOf, lock, stdin, answered>>

\* common: processResult reads and parses the result file; DoTestCase
\* also wants its case first; doFlashAndTest turns the results into the
\* verdict.
ReadResult(d) ==
  /\ pc[d] = "read"
  /\ IF file = None
       THEN Finish(d, "fail", TRUE) /\ UNCHANGED readBy
       ELSE /\ readBy' = [readBy EXCEPT ![d] = file.dev]
            /\ LET rs == file.res IN
                 IF req[d] # "" /\ (rs = <<>> \/ rs[1].name # req[d])
                   THEN Finish(d, "fail", TRUE)
                   ELSE Finish(d, Verdict(d, rs), FALSE)
  /\ UNCHANGED <<kind, hasImg, ver, req, file, pkgDirOf, lock, stdin, answered>>

\* Mutant: the prompt and the scan are not under ResultLock.
ManualNoLock(d) ==
  /\ pc[d] = "test" /\ kind = "manual"
  /\ pc' = [pc EXCEPT ![d] = "scan"]
  /\ UNCHANGED <<kind, hasImg, ver, req, verdict, err, file, readBy, pkgDirOf, lock, stdin, answered>>

\* manual: DoTestCase takes ResultLock and prints its prompt.  DoTestTask
\* is DoTestCases of the one case "default".
ManualLock(d) ==
  /\ pc[d] = "test" /\ kind = "manual"
  /\ lock = None
  /\ lock' = d
  /\ pc' = [pc EXCEPT ![d] = "scan"]
  /\ UNCHANGED <<kind, hasImg, ver, req, verdict, err, file, readBy, pkgDirOf, stdin, answered>>

\* Mutant: ResultLock is unlocked by a plain call that the loop never
\* reaches instead of a defer.
ManualScanNoUnlock(d) ==
  /\ pc[d] = "scan"
  /\ stdin # None
  /\ stdin' = None
  /\ IF stdin.ans \in Status
       THEN /\ Finish(d, stdin.ans, FALSE)
            /\ answered' = [answered EXCEPT ![d] = stdin.for]
       ELSE UNCHANGED <<pc, verdict, err, answered>>
  /\ UNCHANGED <<kind, hasImg, ver, req, file, readBy, pkgDirOf, lock>>

\* manual: fmt.Scanln takes the operator's line; an answer other than pass
\* or fail prints the prompt again; pass or fail is returned and the
\* deferred Unlock releases ResultLock.
ManualScan(d) ==
  /\ pc[d] = "scan"
  /\ stdin # None
  /\ stdin' = None
  /\ IF stdin.ans \in Status
       THEN /\ Finish(d, Verdict(d, DoTestCases(d, stdin.ans)), FALSE)
            /\ answered' = [answered EXCEPT ![d] = stdin.for]
            /\ lock' = None
       ELSE UNCHANGED <<pc, verdict, err, answered, lock>>
  /\ UNCHANGED <<kind, hasImg, ver, req, file, readBy, pkgDirOf>>

\* pkg_available: DoTestCase lists the directory Prepare stored for d and
\* passes if any *.img is there (a listing error is a plain fail).
CheckImages(d) ==
  /\ pc[d] = "test" /\ kind = "pkg_available"
  /\ Finish(d, Verdict(d, DoTestCases(d, IF hasImg[pkgDirOf[d]] THEN "pass"
                                                                 ELSE "fail")),
            FALSE)
  /\ UNCHANGED <<kind, hasImg, ver, req, file, readBy, pkgDirOf, lock, stdin, answered>>

\* The operator answers a prompt on the terminal.
Operator ==
  /\ stdin = None
  /\ \E d \in Devices, a \in Status \cup {"junk"} :
       /\ pc[d] = "scan"
       /\ stdin' = [for |-> d, ans |-> a]
  /\ UNCHANGED <<kind, hasImg, pc, ver, req, verdict, err, file, readBy, pkgDirOf, lock, answered>>
-----------------------------------------------------------------------------
Init ==
  /\ kind \in Kinds
  /\ hasImg \in [Versions -> BOOLEAN]
  /\ pc = [d \in Devices |-> "idle"]
  /\ ver = [d \in Devices |-> None]
  /\ req = [d \in Devices |-> ""]
  /\ verdict = [d \in Devices |-> "none"]
  /\ err = [d \in Devices |-> FALSE]
  /\ file = None
  /\ readBy = [d \in Devices |-> None]
  /\ pkgDirOf = [d \in Devices |-> None]
  /\ lock = None
  /\ stdin = None
  /\ answered = [d \in Devices |-> None]

\* The steps of d's doFlashAndTest and of the tester it calls.
Pipeline(d) ==
  \/ Flash(d) \/ Prepare(d) \/ RunTool(d) \/ ReadResult(d)
  \/ ManualLock(d) \/ ManualScan(d) \/ CheckImages(d)

Next ==
  \/ \E d \in Devices :
       \/ \E v \in Versions, c \in Requests : Start(d, v, c)
       \/ Pipeline(d)
  \/ Operator

\* Pipelines are goroutines that keep running; a goroutine waiting for
\* ResultLock gets it once it is free often enough (sync.Mutex hands the
\* lock to a waiter starved for 1 ms); the operator eventually types pass
\* or fail at a prompt.
Fairness ==
  /\ \A d \in Devices : WF_vars(Pipeline(d)) /\ SF_vars(ManualLock(d))
  /\ SF_vars(Operator /\ stdin'.ans \in Status)

Spec == Init /\ [][Next]_vars /\ Fairness

-----------------------------------------------------------------------------
TypeOK ==
  /\ kind \in Kinds
  /\ hasImg \in [Versions -> BOOLEAN]
  /\ pc \in [Devices -> {"idle", "flash", "prepare", "test", "read", "scan"}]
  /\ ver \in [Devices -> Versions \cup {None}]
  /\ req \in [Devices -> Requests]
  /\ verdict \in [Devices -> Status \cup {"none"}]
  /\ err \in [Devices -> BOOLEAN]
  /\ file \in {None} \cup [dev : Devices, res : Results]
  /\ readBy \in [Devices -> Devices \cup {None}]
  /\ pkgDirOf \in [Devices -> Versions \cup {None}]
  /\ lock \in Devices \cup {None}
  /\ stdin \in {None} \cup [for : Devices, ans : Status \cup {"junk"}]
  /\ answered \in [Devices -> Devices \cup {None}]

\* With several pipelines prompting on one terminal, the answer a manual
\* DoTestCase returns was typed for its own prompt (ResultLock keeps a
\* second prompt and Scanln out while one is waiting).
ManualAnswerOwnPrompt == \A d \in Devices : answered[d] \in {None, d}

\* Every FlashAndTest call returns: no pipeline waits for ResultLock or
\* for the operator forever.
FlashAndTestReturns == \A d \in Devices : pc[d] # "idle" ~> pc[d] = "idle"

\* (Violation run) The verdict doFlashAndTest reports for device d is
\* computed from results of a test run on d.
VerdictFromOwnRun == \A d \in Devices : readBy[d] \in {None, d}
=============================================================================
