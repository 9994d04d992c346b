--------------------------- MODULE Dayu200Manager ---------------------------
(***************************************************************************)
(* The dayu200 package manager of pkg/dayu200 as its device pipelines use *)
(* it: NewManager pairs each device of the configuration with an entry of *)
(* location_id_list, and every pipeline's Flash(device, pkg, ctx) is       *)
(* Build (the shared build-server pool and workspace, BuildAbstract) then  *)
(* flashDevice.  flashDevice is abstracted to what concerns which device  *)
(* the flashing tool writes: the reboot to loader mode, the location ID    *)
(* (configured, or probed with the tool's 'LD'), the tool invocations of   *)
(* flashImages addressed with '-s <locationID>', and the boot check.       *)
(* FlashDevice models the invocations one by one.                         *)
(*                                                                         *)
(* The physical devices are attached at distinct USB locations; the tool  *)
(* reaches a device only at its location and only in loader mode.         *)
(***************************************************************************)
EXTENDS Naturals, Sequences, SequencesExt

CONSTANTS
  DeviceList,      \* res.DeviceList(): device (hdc serial) names, in order
  LocationIDList,  \* strings.Split(location_id_list, ","): "" is no entry
  LocOf,           \* LocOf[d]: the USB location ID device d is attached at
  Servers, Pkgs, Images, None

Devices == ToSet(DeviceList)

\* NewManager: 'len(devs) != len(locs)' is a panic; no manager exists.
NewManagerPanics == Len(DeviceList) # Len(LocationIDList)

ASSUME ~NewManagerPanics
ASSUME \A d, e \in Devices : d # e => LocOf[d] # LocOf[e]

\* NewManager: ret.locations[devs[i]] = locs[i].  Never written again.
locations == [d \in Devices |->
                LocationIDList[CHOOSE i \in 1 .. Len(DeviceList) :
                                 DeviceList[i] = d]]

VARIABLES
  busy, target, res, owner, present,  \* Build: see BuildAbstract
  pc,       \* pc[d]: where device d's pipeline is in Flash
  loc,      \* loc[d]: the locationID flashImages resolved for d's call
  mode,     \* mode[e]: device e is in "os" or "loader" mode
  wrote,    \* pairs <<d, e>>: d's Flash call had the tool write device e
  outcome   \* outcome[d]: return of d's last Flash call

buildVars == <<busy, target, res, owner, present>>
flashVars == <<pc, loc, mode, wrote, outcome>>
vars == <<buildVars, flashVars>>

B == INSTANCE BuildAbstract WITH Builders <- Devices

Outcomes == {"none", "ok", "buildErr", "flashFailed", "bootFailed"}

\* The devices the tool reaches at location l: the one attached there, if
\* it is in loader mode.
AtLocation(l) == {e \in Devices : LocOf[e] = l /\ mode[e] = "loader"}

\* 'LD' lists the devices in loader mode; FindString takes the first
\* 'LocationID=' of the listing, "" when there is none (or LD failed; its
\* error is ignored).  The listing's order is the tool's.
Probe == {LocOf[e] : e \in {x \in Devices : mode[x] = "loader"}} \cup {""}

Finish(d, o) ==
  /\ pc' = [pc EXCEPT ![d] = "idle"]
  /\ outcome' = [outcome EXCEPT ![d] = o]

-----------------------------------------------------------------------------
\* Flash(device, pkg, ctx) calls m.Build(buildConfig, ctx): the package is
\* available at once, or Build runs.
FlashCall(d, p) ==
  /\ pc[d] = "idle"
  /\ B!CallAvailable(d, p) \/ B!Call(d, p)
  /\ pc' = [pc EXCEPT ![d] = "build"]
  /\ UNCHANGED <<loc, mode, wrote, outcome>>

\* A step of d's running Build: the pool, the transfers, the return.
BuildStep(d) ==
  /\ pc[d] = "build"
  /\ \/ \E s \in Servers : B!Take(d, s)
     \/ B!Give(d)
     \/ \E f \in Images : B!Write(d, f)
     \/ \E r \in {"ok", "err"} : B!Return(d, r)
  /\ UNCHANGED flashVars

\* Build returned: an error is returned as is; nil goes on to flashDevice.
BuildReturned(d) ==
  /\ pc[d] = "build" /\ ~busy[d]
  /\ IF res[d] = "ok"
       THEN /\ pc' = [pc EXCEPT ![d] = "toloader"]
            /\ UNCHANGED outcome
       ELSE Finish(d, "buildErr")
  /\ UNCHANGED <<buildVars, loc, mode, wrote>>

\* TryRebootToLoader(device): hdc sees d in OS mode and 'reboot loader'
\* succeeds, or fails (the error is returned); or hdc does not see d
\* within 20 s and d is assumed to be in loader mode.
ToLoader(d) ==
  /\ pc[d] = "toloader"
  /\ \/ /\ mode[d] = "os"
        /\ mode' = [mode EXCEPT ![d] = "loader"]
        /\ pc' = [pc EXCEPT ![d] = "locate"]
        /\ UNCHANGED outcome
     \/ /\ mode[d] = "os"
        /\ Finish(d, "flashFailed")
        /\ UNCHANGED mode
     \/ /\ pc' = [pc EXCEPT ![d] = "locate"]
        /\ UNCHANGED <<mode, outcome>>
  /\ UNCHANGED <<buildVars, loc, wrote>>

\* flashImages: locationID := m.locations[device]; if "", probe 'LD'; if
\* that finds none, sleep 5 s and probe once more (Reprobe).
Locate(d) ==
  /\ pc[d] = "locate"
  /\ IF locations[d] # ""
       THEN /\ loc' = [loc EXCEPT ![d] = locations[d]]
            /\ pc' = [pc EXCEPT ![d] = "write"]
       ELSE \E l \in Probe :
              /\ loc' = [loc EXCEPT ![d] = l]
              /\ pc' = [pc EXCEPT ![d] = IF l = "" THEN "reprobe" ELSE "write"]
  /\ UNCHANGED <<buildVars, mode, wrote, outcome>>

Reprobe(d) ==
  /\ pc[d] = "reprobe"
  /\ \E l \in Probe : loc' = [loc EXCEPT ![d] = l]
  /\ pc' = [pc EXCEPT ![d] = "write"]
  /\ UNCHANGED <<buildVars, mode, wrote, outcome>>

\* The tool invocations of flashImages, '-s locationID' each: UL, DI -p,
\* DI -uboot, DI -<part>, then RD, which reboots the device written into
\* OS mode.  An empty locationID names no device, and the tool fails
\* without a device in loader mode at the location.
WriteImages(d) ==
  /\ pc[d] = "write"
  /\ \/ \E e \in AtLocation(loc[d]) :
          /\ wrote' = wrote \cup {<<d, e>>}
          /\ mode' = [mode EXCEPT ![e] = "os"]
          /\ pc' = [pc EXCEPT ![d] = "boot"]
          /\ UNCHANGED outcome
     \/ /\ Finish(d, "flashFailed")
        /\ UNCHANGED <<wrote, mode>>
  /\ UNCHANGED <<buildVars, loc>>

\* After 20 s, WaitHDC(device): d must be listed by hdc, i.e. in OS mode.
BootCheck(d) ==
  /\ pc[d] = "boot"
  /\ \E connected \in IF mode[d] = "os" THEN {TRUE, FALSE} ELSE {FALSE} :
       Finish(d, IF connected THEN "ok" ELSE "bootFailed")
  /\ UNCHANGED <<buildVars, loc, mode, wrote>>

-----------------------------------------------------------------------------
Init ==
  /\ B!Init
  /\ pc = [d \in Devices |-> "idle"]
  /\ loc = [d \in Devices |-> ""]
  /\ mode \in [Devices -> {"os", "loader"}]
  /\ wrote = {}
  /\ outcome = [d \in Devices |-> "none"]

Pipeline(d) ==
  \/ \E p \in Pkgs : FlashCall(d, p)
  \/ BuildStep(d) \/ BuildReturned(d) \/ ToLoader(d) \/ Locate(d)
  \/ Reprobe(d) \/ WriteImages(d) \/ BootCheck(d)

Next == \E d \in Devices : Pipeline(d)

Spec == Init /\ [][Next]_vars

-----------------------------------------------------------------------------
(* Properties                                                              *)

\* (Violation run) Each device pipeline flashes its own device: the tool
\* invocations of d's Flash call write device d and no other, whatever
\* the other pipelines do at the same time.
FlashesOwnDevice == \A w \in wrote : w[1] = w[2]
=============================================================================
