---------------------------- MODULE FlashAbstract ----------------------------
(***************************************************************************)
(* The device flash state machine as the design states it (spec 4.5), for *)
(* one device across successive flash calls: a call goes from Unknown to  *)
(* LoaderMode, flashes the bootloader, the parameter table, uboot and the *)
(* optional partitions in their fixed order (an absent image is skipped), *)
(* issues the final reboot and awaits the reconnection.  FlashFailed ends *)
(* a call from a step that writes or commands the device, and            *)
(* BootVerificationFailed only from AwaitingConnection, after every write *)
(* succeeded; a cancellation may end any step.  The spec's Rebooted and   *)
(* AwaitingConnection are one phase here: nothing happens between them.   *)
(***************************************************************************)
EXTENDS Naturals, Sequences, SequencesExt

CONSTANT Parts   \* the optional partitions, in flashing order

VARIABLES
  phase,    \* the state of the current (or last) call
  part,     \* in FlashingPartition: index of the partition at hand
  present   \* the partitions whose image the package has

vars == <<phase, part, present>>

Ended == {"Idle", "Verified", "FlashFailed", "BootVerificationFailed", "Canceled"}
Writing == {"FlashingBootloader", "FlashingParameters", "FlashingUboot",
            "FlashingPartition", "FinalReboot"}

\* The phase after a successful write of the fixed images.
Following ==
  [FlashingBootloader |-> "FlashingParameters",
   FlashingParameters |-> "FlashingUboot",
   FlashingUboot      |-> "FlashingPartition"]

Goto(ph) == phase' = ph /\ part' = 1 /\ UNCHANGED present

Begin ==
  /\ phase \in Ended
  /\ present' \in SUBSET ToSet(Parts)
  /\ phase' = "Unknown" /\ UNCHANGED part

\* Rebooted to loader, or assumed to be there.
InLoader == phase = "Unknown" /\ Goto("LoaderMode")

Located == phase = "LoaderMode" /\ Goto("FlashingBootloader")

FixedWritten ==
  /\ phase \in DOMAIN Following
  /\ Goto(Following[phase])

\* The partition at hand, whose image the package has, is written.
PartitionDone ==
  /\ phase = "FlashingPartition" /\ part <= Len(Parts)
  /\ Parts[part] \in present
  /\ part' = part + 1
  /\ UNCHANGED <<phase, present>>

\* The partition at hand is skipped: the package has no image for it.
SkipAbsent ==
  /\ phase = "FlashingPartition" /\ part <= Len(Parts)
  /\ Parts[part] \notin present
  /\ part' = part + 1
  /\ UNCHANGED <<phase, present>>

AllWritten ==
  /\ phase = "FlashingPartition" /\ part > Len(Parts)
  /\ Goto("FinalReboot")

Rebooted == phase = "FinalReboot" /\ Goto("AwaitingConnection")

Verified == phase = "AwaitingConnection" /\ Goto("Verified")

BootFailed == phase = "AwaitingConnection" /\ Goto("BootVerificationFailed")

Failed == phase \in Writing \cup {"Unknown"} /\ Goto("FlashFailed")

Canceled == phase \notin Ended /\ Goto("Canceled")

Init ==
  /\ phase = "Idle"
  /\ part = 1
  /\ present \in SUBSET ToSet(Parts)

Next ==
  \/ Begin \/ InLoader \/ Located \/ FixedWritten \/ PartitionDone
  \/ SkipAbsent \/ AllWritten \/ Rebooted \/ Verified \/ BootFailed
  \/ Failed \/ Canceled

Spec == Init /\ [][Next]_vars
=============================================================================
