------------------------- MODULE FlashWithSweeper --------------------------
(***************************************************************************)
(* The retention sweeper of gitee_common.Manager (cleanupOutdated and      *)
(* cleanupPkgFiles, pkg/gitee_common/common.go) running on its own         *)
(* goroutine while the dayu200 flash state machine (FlashDevice) reads    *)
(* the same package directory.  Nothing locks the directory (spec 5).     *)
(*                                                                         *)
(* The directory of the package being flashed is either older than seven  *)
(* days (nothing has been created or removed in it since) or not.  Build  *)
(* writes nothing into it when the package is already available, and      *)
(* flashing only reads it, so its age does not change during a call until *)
(* the sweeper removes an entry.                                          *)
(***************************************************************************)
EXTENDS FlashDevice

CONSTANTS
  NameOrder   \* every file name a package can hold, in os.ReadDir's
              \* (lexical) order

\* Entries cleanupPkgFiles keeps.
Preserved == {"manifest_tag.xml", "__last_issue__"}

ASSUME \A fs \in PkgContents : fs \subseteq ToSet(NameOrder)

VARIABLES
  old,       \* the package directory's mtime is more than 7 days ago
  sweepAt,   \* 0, or the index in NameOrder cleanupPkgFiles is at
  snapshot   \* the package's files when the flash call started

sweepVars == <<old, sweepAt, snapshot>>
allVars == <<vars, sweepVars>>

-----------------------------------------------------------------------------
\* A new flash call; its package directory may be more than 7 days old.
StartCall ==
  /\ Start
  /\ snapshot' = files'
  /\ old' \in BOOLEAN
  /\ sweepAt' = 0

\* The 24 h ticker fires; cleanupOutdated lists the workspace and finds the
\* package directory outdated, so cleanupPkgFiles lists it.
SweepTick ==
  /\ sweepAt = 0
  /\ old
  /\ sweepAt' = 1
  /\ UNCHANGED <<vars, old, snapshot>>

\* cleanupPkgFiles: os.RemoveAll of the next entry, except the manifest tag
\* and the last-issue marker.  Removing an entry updates the directory's
\* mtime; removing a missing entry is a no-op.
SweepEntry ==
  /\ sweepAt \in 1 .. Len(NameOrder)
  /\ LET f == NameOrder[sweepAt] IN
       IF f \in files \ Preserved
         THEN /\ files' = files \ {f}
              /\ old' = FALSE
         ELSE UNCHANGED <<files, old>>
  /\ sweepAt' = IF sweepAt = Len(NameOrder) THEN 0 ELSE sweepAt + 1
  /\ UNCHANGED <<pc, pidx, tries, canceled, dev, log, outcome, snapshot>>

FlashStep == Flash /\ UNCHANGED sweepVars

NextW == StartCall \/ FlashStep \/ (Cancel /\ UNCHANGED sweepVars) \/
         SweepTick \/ SweepEntry

InitW == Init /\ snapshot = files /\ old = FALSE /\ sweepAt = 0

SpecW == InitW /\ [][NextW]_allVars /\ WF_allVars(FlashStep)

-----------------------------------------------------------------------------
\* (Violation run) A flash call that returns nil has written every
\* partition image the package held when the call started: an image is
\* never skipped as absent because it disappeared while being flashed.
FlashedAsPackaged ==
  outcome = "ok" =>
    \A i \in 1 .. Len(PartList) :
      ImgName(PartList[i]) \in snapshot =>
        \E j \in 1 .. Len(log) : log[j] = [op |-> PartList[i], res |-> "ok"]
=============================================================================
