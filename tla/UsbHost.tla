------------------------------- MODULE UsbHost -------------------------------
(***************************************************************************)
(* The host a safe-eject transaction acts on, as the code under src/ sees   *)
(* it: the one physical USB device the transaction token names, the mounts  *)
(* on it, the O_EXCL claim on its block device, and the part of Unassigned   *)
(* Devices (UD) that mounts and unmounts: its rc.unassigned processes and    *)
(* the root operation marker                                                 *)
(* /var/state/unassigned.devices/unmounting_<sdX>.state they respect.        *)
(*                                                                           *)
(* None of this is code of the repository: the kernel and UD are external    *)
(* and may do all the steps below at any time.                               *)
(***************************************************************************)
EXTENDS Integers, FiniteSets

CONSTANTS
  Jobs,        (* the transactions, one job id each                          *)
  NoJob,       (* "nobody" as an owner of the marker, the claim or the lock   *)
  Unsigned,    (* content of a marker file nobody has written a token into    *)
  MaxMounts    (* bound: simultaneous mounts of the target's filesystems      *)

ASSUME HostAssumption ==
  /\ NoJob \notin Jobs
  /\ Unsigned \notin Jobs \cup {NoJob}
  /\ MaxMounts \in Nat

VARIABLES
  usb,         (* what is attached at the target's USB path                   *)
  mounts,      (* mounts of the block device now attached                     *)
  claim,       (* job holding the O_EXCL handles on that block device         *)
  marker,      (* whose token is in the root operation marker                 *)
  aged,        (* the marker is older than ADAPTER_MARKER_MAX_AGE             *)
  udop         (* UD's own rc.unassigned mount or unmount process             *)

hostVars == <<usb, mounts, claim, marker, aged, udop>>

(* "target": the device whose diskseq, USB path and ids the token signs;      *)
(* "other": a re-enumerated or replaced device on the same path; "gone".      *)
(* The model does not tell one replacement from the next, so a check that     *)
(* compares a replacement with itself passes where the code could refuse.     *)
UsbStates == {"target", "other", "gone"}

(* A UD process is visible in /proc from its start; it looks at the marker    *)
(* once, before it acts ("started" to "committed").                           *)
UDOps == {"idle", "started", "committed"}

HostTypeOK ==
  /\ usb \in UsbStates
  /\ mounts \in 0 .. MaxMounts
  /\ claim \in Jobs \cup {NoJob}
  /\ marker \in Jobs \cup {NoJob, Unsigned}
  /\ aged \in BOOLEAN
  /\ udop \in UDOps

HostInit ==
  /\ usb = "target"
  /\ mounts \in 0 .. MaxMounts
  /\ claim = NoJob
  /\ marker = NoJob
  /\ aged = FALSE
  /\ udop = "idle"

-----------------------------------------------------------------------------
(* UD starts an operation on the device: nothing stops the process itself.   *)
UDStart ==
  /\ udop = "idle"
  /\ usb # "gone"
  /\ udop' = "started"
  /\ UNCHANGED <<usb, mounts, claim, marker, aged>>

(* The process goes on only if no root operation marker is there.            *)
UDLook ==
  /\ udop = "started"
  /\ udop' = IF marker = NoJob THEN "committed" ELSE "idle"
  /\ UNCHANGED <<usb, mounts, claim, marker, aged>>

(* Mount or unmount a filesystem of the attached device and exit.  The       *)
(* kernel refuses a mount of a block device that is claimed exclusively.     *)
(* UD's own unmount works under the same marker path, and removes it.        *)
UDAct ==
  /\ udop = "committed"
  /\ udop' = "idle"
  /\ \/ /\ usb # "gone" /\ claim = NoJob /\ mounts < MaxMounts
        /\ mounts' = mounts + 1
     \/ /\ mounts > 0
        /\ mounts' = mounts - 1
     \/ UNCHANGED mounts
  /\ \/ UNCHANGED <<marker, aged>>
     \/ marker' = NoJob /\ aged' = FALSE
  /\ UNCHANGED <<usb, claim>>

(* An administrator's mount(8), which knows nothing of UD's marker.          *)
ShellMount ==
  /\ usb # "gone" /\ claim = NoJob /\ mounts < MaxMounts
  /\ mounts' = mounts + 1
  /\ UNCHANGED <<usb, claim, marker, aged, udop>>

(* Four minutes pass over a marker that was not released.                    *)
MarkerAges ==
  /\ marker # NoJob
  /\ ~aged
  /\ aged' = TRUE
  /\ UNCHANGED <<usb, mounts, claim, marker, udop>>

(* The device is yanked, or resets and comes back with a new diskseq.        *)
Detach ==
  /\ usb # "gone"
  /\ usb' \in {"other", "gone"}
  /\ mounts' = 0
  /\ claim' = NoJob
  /\ UNCHANGED <<marker, aged, udop>>

(* A device is plugged into the path again.  It never is the target: the     *)
(* kernel gives it a new diskseq.                                            *)
Attach ==
  /\ usb = "gone"
  /\ usb' = "other"
  /\ UNCHANGED <<mounts, claim, marker, aged, udop>>

(* UD, the administrator and time: all that changes no device.               *)
UDStep == UDStart \/ UDLook \/ UDAct \/ ShellMount \/ MarkerAges
=============================================================================
