---------------------------- MODULE FlashDevice ----------------------------
(***************************************************************************)
(* The dayu200 flashing state machine: Manager.flashDevice and            *)
(* flashImages of pkg/dayu200/flash.go with utils.TryRebootToLoader and   *)
(* WaitHDC of utils/hdc.go, for one device across successive flash calls. *)
(*                                                                         *)
(* The device is in OS mode (seen by hdc when it answers) or in loader     *)
(* mode (the only mode in which the flashing tool can write).  Every tool  *)
(* invocation may fail; it returns context.Canceled once the call's        *)
(* context is cancelled.  The images of the package being flashed are a   *)
(* set of file names; they do not change during a call here (the          *)
(* retention sweeper is composed in a later module).                       *)
(***************************************************************************)
EXTENDS Naturals, Sequences, SequencesExt

CONSTANTS
  PartList,     \* partList: optional partitions, in flashing order
  PkgContents,  \* possible file sets of workspace/<pkg> at a flash call
  ImgName(_)    \* part -> its image file name (part + ".img")

\* Tool invocations other than the optional partitions.
UL == "MiniLoaderAll.bin"
Param == "parameter.txt"
Uboot == "uboot.img"
RD == "RD"

\* Invocations that flashImages retries once on a non-cancel error.
Retryable == {UL} \cup ToSet(PartList)

ASSUME PartList \in Seq(STRING) /\ Len(PartList) > 0
ASSUME \A fs \in PkgContents : {UL, Param, Uboot} \subseteq fs

VARIABLES
  pc,        \* where the current call is in flashDevice
  files,     \* the files of workspace/<pkg> for the current call
  pidx,      \* index of the loop over partList
  tries,     \* failed invocations of the current tool step (0 or 1)
  canceled,  \* the call's context has been cancelled
  dev,       \* the device's mode: "os" or "loader"
  log,       \* the call's tool invocations: <<[op, res]>>
  outcome    \* return of the last call

vars == <<pc, files, pidx, tries, canceled, dev, log, outcome>>

Steps == {"toloader", "locate", UL, Param, Uboot, "part", RD, "boot"}
Outcomes == {"none", "ok", "canceled", "flashFailed", "bootFailed"}
Ops == {UL, Param, Uboot, RD} \cup ToSet(PartList)
Results == {"ok", "fail", "canceled"}

-----------------------------------------------------------------------------
(* Helpers                                                                 *)

\* The tool invocation of the current step.
CurOp == IF pc = "part" THEN PartList[pidx] ELSE pc

\* Possible results of invoking 'op': it writes only in loader mode, when
\* its image file exists and the context is live; it may always fail.
InvokeResults(op) ==
  IF canceled THEN {"canceled"}
  ELSE {"fail"} \cup
       (IF dev = "loader" /\ (op = RD \/ ImgName(op) \in files \/ op \in files)
          THEN {"ok"} ELSE {})

\* Mutant: the polling loop has no ctx.Done() case (and no 20 s timeout):
\* it returns only once hdc lists the device.
WaitHDCUntilFound == IF dev = "loader" THEN {} ELSE {TRUE}

\* WaitHDC(device, ctx): restarts the hdc server and lists its targets
\* until the device is listed (true) or 20 s have passed or ctx is done
\* (false).  hdc lists a device only in OS mode, and its listing may fail
\* on every round, so a device in OS mode may still not be found.
WaitHDC ==
  IF canceled \/ dev = "loader" THEN {FALSE} ELSE {TRUE, FALSE}

\* The call returns: its outcome is recorded and the device task goes idle.
Return(o) == /\ outcome' = o
             /\ pc' = "idle"

\* The error path of a tool step: context.Canceled is returned as is.
ReturnError == Return(IF canceled THEN "canceled" ELSE "flashFailed")

\* The step that follows a successful invocation of 'op'.
NextStep(op) ==
  CASE op = UL    -> Param
    [] op = Param -> Uboot
    [] op = Uboot -> "part"
    [] OTHER      -> "part"

-----------------------------------------------------------------------------
(* Actions                                                                 *)

\* A new Flash call of the device pipeline for a package whose required
\* images are available (Build returned nil), with a fresh context.
Start ==
  /\ pc = "idle"
  /\ \E fs \in PkgContents : files' = fs
  /\ pc' = "toloader"
  /\ canceled' = FALSE
  /\ log' = <<>>
  /\ outcome' = "none"
  /\ UNCHANGED <<pidx, tries, dev>>

\* TryRebootToLoader, device seen: WaitHDC found it in OS mode, so
\* 'hdc shell reboot loader' is run and its error is returned.
RebootToLoader ==
  /\ pc = "toloader"
  /\ TRUE \in WaitHDC
  /\ \/ /\ dev' = "loader"
        /\ pc' = "locate"
        /\ UNCHANGED outcome
     \/ /\ ReturnError
        /\ UNCHANGED dev
  /\ UNCHANGED <<files, pidx, tries, canceled, log>>

\* TryRebootToLoader, device not seen within WaitHDC's 20 s (in loader
\* mode, or hdc failing): ctx.Err() if cancelled, else assume loader mode.
AssumeLoader ==
  /\ pc = "toloader"
  /\ FALSE \in WaitHDC
  /\ IF canceled THEN Return("canceled")
                 ELSE /\ pc' = "locate"
                      /\ UNCHANGED outcome
  /\ UNCHANGED <<files, pidx, tries, canceled, dev, log>>

\* locationID from the configuration, or probed with 'LD' at most twice.
\* The probe's errors are ignored and it does not change the device.
Locate ==
  /\ pc = "locate"
  /\ pc' = UL
  /\ tries' = 0
  /\ UNCHANGED <<files, pidx, canceled, dev, log, outcome>>

\* One flashing-tool invocation of the current step (UL, DI -p, DI -uboot,
\* DI -<part> or RD) and what flashImages does with its error: the steps
\* in retryOps are retried after up to 'retries' non-cancel failures.
InvokeStep(retryOps, retries) ==
  /\ pc \in {UL, Param, Uboot, "part", RD}
  /\ pc = "part" => pidx <= Len(PartList) /\ ImgName(CurOp) \in files
  /\ \E r \in InvokeResults(CurOp) :
       /\ log' = Append(log, [op |-> CurOp, res |-> r])
       /\ CASE r = "ok" /\ pc = RD ->
                 \* the device reboots into the new system
                 /\ dev' = "os" /\ pc' = "boot"
                 /\ UNCHANGED <<pidx, tries, outcome>>
            [] r = "ok" ->
                 /\ pc' = NextStep(CurOp)
                 /\ pidx' = IF pc = "part" THEN pidx + 1 ELSE 1
                 /\ tries' = 0
                 /\ UNCHANGED <<dev, outcome>>
            [] r = "fail" /\ CurOp \in retryOps /\ tries < retries ->
                 /\ tries' = tries + 1
                 /\ UNCHANGED <<pc, pidx, dev, outcome>>
            [] OTHER ->
                 /\ ReturnError
                 /\ UNCHANGED <<pidx, tries, dev>>
  /\ UNCHANGED <<files, canceled>>

\* Mutant: the parameter table and uboot steps also retry.
InvokeRetryAll == InvokeStep(Ops, 1)

\* Mutant: the retry is a loop that allows two retries.
InvokeTwoRetries == InvokeStep(Retryable, 2)

\* flashImages' policy: exactly one retry of the loader and of each
\* partition, none of the parameter table, uboot or the reboot.
Invoke == InvokeStep(Retryable, 1)

\* os.Stat finds no image for this partition: it is skipped silently.
SkipPart ==
  /\ pc = "part" /\ pidx <= Len(PartList)
  /\ ImgName(PartList[pidx]) \notin files
  /\ pidx' = pidx + 1
  /\ UNCHANGED <<pc, files, tries, canceled, dev, log, outcome>>

\* os.Stat fails with an error other than 'not exist': it is returned,
\* whether or not the context is cancelled.
StatError ==
  /\ pc = "part" /\ pidx <= Len(PartList)
  /\ Return("flashFailed")
  /\ UNCHANGED <<files, pidx, tries, canceled, dev, log>>

\* Mutant: the loop stops before the last partition.
PartsDoneEarly ==
  /\ pc = "part" /\ pidx >= Len(PartList)
  /\ pc' = RD
  /\ UNCHANGED <<files, pidx, tries, canceled, dev, log, outcome>>

\* The loop over partList is over: the final reboot (RD) is next.
PartsDone ==
  /\ pc = "part" /\ pidx > Len(PartList)
  /\ pc' = RD
  /\ UNCHANGED <<files, pidx, tries, canceled, dev, log, outcome>>

\* After 20 s, WaitHDC: the device must reconnect in OS mode within 20 s;
\* a cancelled context makes it return false, reported as a boot failure.
BootCheck ==
  /\ pc = "boot"
  /\ \E connected \in WaitHDC :
       Return(IF connected THEN "ok" ELSE "bootFailed")
  /\ UNCHANGED <<files, pidx, tries, canceled, dev, log>>

\* The caller cancels the context of the running call.
Cancel ==
  /\ pc # "idle" /\ ~canceled
  /\ canceled' = TRUE
  /\ UNCHANGED <<pc, files, pidx, tries, dev, log, outcome>>

-----------------------------------------------------------------------------
Init ==
  /\ pc = "idle"
  /\ files \in PkgContents
  /\ pidx = 1
  /\ tries = 0
  /\ canceled = FALSE
  /\ dev \in {"os", "loader"}
  /\ log = <<>>
  /\ outcome = "none"

\* The steps of the flash call itself (Start and Cancel belong to the
\* caller and its context).
Flash ==
  RebootToLoader \/ AssumeLoader \/ Locate \/ Invoke \/ SkipPart \/
  StatError \/ PartsDone \/ BootCheck

Next == Start \/ Flash \/ Cancel

Spec == Init /\ [][Next]_vars /\ WF_vars(Flash)

-----------------------------------------------------------------------------
(* Properties                                                              *)

TypeOK ==
  /\ pc \in Steps \cup {"idle"}
  /\ files \in PkgContents
  /\ pidx \in 1 .. Len(PartList) + 1
  /\ tries \in {0, 1}
  /\ canceled \in BOOLEAN
  /\ dev \in {"os", "loader"}
  /\ log \in Seq([op : Ops, res : Results])
  /\ outcome \in Outcomes

\* The invocations a fully successful call makes for the package files fs:
\* loader, parameter table, uboot, each partition whose image exists in
\* partList order, and the final reboot.
Plan(fs) ==
  <<UL, Param, Uboot>> \o SelectSeq(PartList, LAMBDA p : ImgName(p) \in fs)
  \o <<RD>>

\* Number of successful invocations in log[1..n].
OkCount(lg, n) == Len(SelectSeq(SubSeq(lg, 1, n), LAMBDA e : e.res = "ok"))

\* The tool is driven exactly by the plan and the retry policy of spec 4.5:
\* each invocation is the plan's next step; an invocation that did not
\* succeed is the last one of the call, unless it is the first failure of
\* the loader or of a partition, followed by exactly one retry; absent
\* partitions are never invoked; nothing follows a cancellation.
ToolLogFollowsPlan ==
  \A i \in 1 .. Len(log) :
    LET k == OkCount(log, i - 1) IN
    /\ k < Len(Plan(files))
    /\ log[i].op = Plan(files)[k + 1]
    /\ (i > 1 /\ log[i - 1].res # "ok") =>
          /\ log[i - 1].res = "fail"
          /\ log[i].op \in Retryable
          /\ (i > 2 => (log[i - 2].op # log[i].op \/ log[i - 2].res = "ok"))

\* Every flash call returns: the loader and partition retries are bounded,
\* and both WaitHDC polls (before the reboot to loader and after the final
\* reboot) end when their 20 s context expires or the caller cancels, even
\* when hdc never lists the device.  The flashing goroutine is weakly fair.
FlashCallReturns == [](pc # "idle" => <>(pc = "idle"))

-----------------------------------------------------------------------------
(* Refinement of the spec 4.5 state machine                                *)

\* The phase of spec 4.5 that each place of flashDevice is in; between
\* calls, the outcome of the last one.
Phase ==
  CASE pc = "idle" ->
         [none |-> "Idle", ok |-> "Verified", flashFailed |-> "FlashFailed",
          bootFailed |-> "BootVerificationFailed",
          canceled |-> "Canceled"][outcome]
    [] pc = "toloader" -> "Unknown"
    [] pc = "locate"   -> "LoaderMode"
    [] pc = UL         -> "FlashingBootloader"
    [] pc = Param      -> "FlashingParameters"
    [] pc = Uboot      -> "FlashingUboot"
    [] pc = "part"     -> "FlashingPartition"
    [] pc = RD         -> "FinalReboot"
    [] pc = "boot"     -> "AwaitingConnection"

Abstract == INSTANCE FlashAbstract WITH
  Parts <- PartList,
  phase <- Phase,
  part <- IF pc = "part" THEN pidx ELSE 1,
  present <- {p \in ToSet(PartList) : ImgName(p) \in files}

\* flashDevice moves through the phases of spec 4.5 in their order: every
\* partition whose image the package has is written before the final
\* reboot, a flash failure only ends a write or command step, and a boot
\* verification failure or success only follows the final reboot.
RefinesFlashAbstract == Abstract!Spec
=============================================================================
