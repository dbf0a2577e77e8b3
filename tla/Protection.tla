------------------------------ MODULE Protection ------------------------------
(***************************************************************************)
(* Which device may be ejected at all (topology.go: assessEligibility,         *)
(* staticProtectionReasons and what they call).  One inspection reads the      *)
(* descriptors of the USB device, the holders, the mounts, Unraid's inventory  *)
(* of assigned disks and the btrfs filesystems, one after the other, while     *)
(* emhttpd assigns and releases disks, rewrites its inventory and starts       *)
(* pools.  Each read may fail.  A reason to refuse ends the inspection here;    *)
(* the code collects the others, too.                                          *)
(***************************************************************************)
EXTENDS Integers, FiniteSets

CONSTANTS
  UD, Else,     (* mount points below and outside of the approved prefixes    *)
  MaxMounts   (* bound: mounts of the device at a time                      *)

Boot == {"/", "/boot", "/boot/x"}

ProtectionAssumption == UD \cap Else = {} /\ (UD \cup Else) \cap Boot = {}

VARIABLES
  configured, (* the administrator has named it as protected                  *)
  holders,    (* a device-mapper or RAID device holds it                      *)
  mounts,     (* where it is mounted                                          *)
  section,    (* section of the inventory it is assigned to, or none          *)
  rewriting,  (* emhttpd writes the inventory                                 *)
  member,     (* it belongs to a btrfs filesystem of several devices          *)
  next,       (* what the inspection reads next, or its verdict               *)
  inventory,  (* what was read of the two files of the inventory              *)
  lasting,    (* history: protections that have lasted since it began         *)
  unread      (* history: reads that failed without a reason                  *)
worldVars == <<configured, holders, mounts, section, rewriting, member>>
inspectionVars == <<worldVars, next, inventory, lasting, unread>>

Sections == {"flash", "disk1", "parity", "cache"}

(* Truths about the device that forbid to eject it.                            *)
Protections ==
  {p \in {"configured", "holders", "boot", "elsewhere", "assigned", "pool"} :
     CASE p = "configured" -> configured
       [] p = "holders"    -> holders
       [] p = "boot"       -> mounts \cap Boot # {}
       [] p = "elsewhere"  -> mounts \cap Else # {}
       [] p = "assigned"   -> section # "none"
       [] p = "pool"       -> member}

InspectionInit ==
  /\ configured \in BOOLEAN /\ holders = FALSE /\ mounts = {} /\ section = "none" /\ rewriting = FALSE /\ member = FALSE
  /\ next = "idle" /\ inventory = {} /\ lasting = {} /\ unread = {}

-----------------------------------------------------------------------------
(* Unraid.                                                                     *)
UnraidActs ==
  /\ \/ holders' = ~holders /\ UNCHANGED <<mounts, section, rewriting, member>>
     \/ /\ \/ \E m \in UD \cup Else \cup Boot :
                Cardinality(mounts) < MaxMounts /\ mounts' = mounts \cup {m}
           \/ \E m \in mounts : mounts' = mounts \ {m}
        /\ UNCHANGED <<holders, section, rewriting, member>>
     \/ rewriting' = ~rewriting /\ UNCHANGED <<holders, mounts, section, member>>
     \/ /\ \E s \in Sections \cup {"none"} : section' = s
        /\ UNCHANGED <<holders, mounts, rewriting, member>>
     \/ member' = ~member /\ UNCHANGED <<holders, mounts, section, rewriting>>
  /\ UNCHANGED <<configured, next, inventory, unread>>
  /\ lasting' = lasting \cap Protections'

-----------------------------------------------------------------------------
(* The inspection.                                                             *)
Reads(what, then, reasons) ==
  /\ next = what
  /\ next' = IF reasons = {} THEN then ELSE "refused"
  /\ UNCHANGED <<worldVars, lasting>>

Start ==
  /\ next \in {"idle", "eligible", "refused"}
  /\ next' = "device"
  /\ inventory' = {} /\ lasting' = Protections /\ unread' = {}
  /\ UNCHANGED worldVars

(* Classes of the interfaces; a descriptor that cannot be read has none.       *)
Composition(classes) ==
  CASE "" \in classes      -> {"inspection_failed"}
    [] "other" \in classes -> {"composite_usb"}
    [] classes = {}        -> {"inspection_failed"}
    [] OTHER               -> {}

(* The list of protected devices, disks of the USB device, remove control,     *)
(* identity and interfaces: what does not change.                              *)
ReadDevice ==
  \E classes \in SUBSET {"08", "other", ""}, disks \in {1, 2}, removable, identified \in BOOLEAN :
    /\ Reads("device", "holders",
         Composition(classes)
         \cup (IF configured THEN {"configured_protected"} ELSE {})
         \cup (IF disks > 1 THEN {"multi_lun_usb"} ELSE {})
         \cup (IF removable /\ identified THEN {} ELSE {"inspection_failed"}))
    /\ UNCHANGED <<inventory, unread>>

(* The error of this read is dropped.                                          *)
ReadHolders ==
  /\ UNCHANGED inventory
  /\ \/ Reads("holders", "mounts", IF holders THEN {"holder_active"} ELSE {}) /\ UNCHANGED unread
     \/ Reads("holders", "mounts", {}) /\ unread' = unread \cup {"holders"}

MountReasons(m) ==
  CASE m \in {"/", "/boot"} -> {"protected_boot"}
    [] m = "/boot/x"        -> {"protected_boot", "inspection_failed"}
    [] m \in Else           -> {"inspection_failed"}
    [] m \in UD             -> {}

ReadDeviceMounts ==
  /\ UNCHANGED <<inventory, unread>>
  /\ \/ Reads("mounts", "inventory1", UNION {MountReasons(m) : m \in mounts})
     \/ Reads("mounts", "inventory1", {"inspection_failed"})

(* The two files of the inventory; one of them is enough.  Read while it is     *)
(* written, a file is empty or half there: text in which the device is not yet. *)
Contents == {section} \cup IF rewriting THEN {"empty", "half"} ELSE {}
ReadInventory ==
  \E f \in {<<"inventory1", "inventory2">>, <<"inventory2", "judge">>} :
    /\ Reads(f[1], f[2], {})
    /\ inventory' \in {inventory} \cup {inventory \cup {c} : c \in Contents}
    /\ UNCHANGED unread

(* Variant: an inventory without a line is one without the device.             *)
JudgeLines ==
  /\ UNCHANGED <<inventory, unread>>
  /\ Reads("judge", "btrfs",
       IF inventory = {} THEN {"inspection_failed"}
       ELSE IF inventory \subseteq {"empty", "half", "none"} THEN {} ELSE {"protected_pool"})

Judge ==
  /\ UNCHANGED <<inventory, unread>>
  /\ Reads("judge", "btrfs",
       IF inventory \subseteq {"empty"} THEN {"inspection_failed"}
       ELSE UNION {CASE s = "flash" -> {"protected_boot"}
                     [] s \in {"disk1", "parity"} -> {"protected_array"}
                     [] s = "cache" -> {"protected_pool"}
                     [] OTHER -> {} : s \in inventory})

(* Without /sys/fs/btrfs, or with one that cannot be read, there is no pool.   *)
ReadBtrfs ==
  /\ UNCHANGED inventory
  /\ \/ Reads("btrfs", "layout", IF member THEN {"protected_pool"} ELSE {}) /\ UNCHANGED unread
     \/ Reads("btrfs", "layout", {}) /\ unread' = unread \cup {"pool"}

(* More than one mount at a time is refused.                                   *)
ReadLayout ==
  /\ UNCHANGED <<inventory, unread>>
  /\ \/ Reads("layout", "eligible",
          IF Cardinality(mounts) > 1 THEN {"unsupported_mount_layout"} ELSE {})
     \/ Reads("layout", "eligible", {"inspection_failed"})

Inspection ==
  \/ Start \/ ReadDevice \/ ReadHolders \/ ReadDeviceMounts \/ ReadInventory
  \/ Judge \/ ReadBtrfs \/ ReadLayout

InspectionNext == UnraidActs \/ Inspection
InspectionSpec == InspectionInit /\ [][InspectionNext]_inspectionVars

-----------------------------------------------------------------------------
(* What an inspection may overlook: a protection whose read failed without a    *)
(* reason, and the assignment when there was nothing to read but half a file.   *)
Overlooked ==
  unread \cup IF "half" \in inventory /\ inventory \subseteq {"empty", "half"}
             THEN {"assigned"} ELSE {}

(* A device that has been protected in one way from the beginning of the       *)
(* inspection to its end is not found eligible, whatever else changes, unless  *)
(* the very read that would tell failed and its error was dropped              *)
(* (topology.go:332, :474), or it is assigned and all that was read of the      *)
(* inventory was cut short before its line (topology.go:436: only an inventory *)
(* without any text is refused).                                              *)
ProtectedIsRefused == next = "eligible" => lasting \subseteq Overlooked
=============================================================================
