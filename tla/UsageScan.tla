------------------------------ MODULE UsageScan ------------------------------
(***************************************************************************)
(* Who still uses the target (procscan.go, mountinfo.go and the Safety        *)
(* functions of eject.go).  A scan reads /proc and /sys file by file while    *)
(* processes fork, exit, open, close and change their mount namespace; the    *)
(* worker makes four of them around a strict unmount and an O_EXCL open.      *)
(* Neither is enough alone: a lazily detached filesystem with open files is   *)
(* invisible to a scan and only O_EXCL is refused by it; a plain reader of    *)
(* the block node does not disturb O_EXCL and only the scan sees it.          *)
(***************************************************************************)
EXTENDS FiniteSets

CONSTANTS
  Pids,       (* other processes                                              *)
  Daemons,    (* those whose name is that of a FUSE daemon                    *)
  Slots,      (* file descriptors of a process, cwd, root, exe, mapped files  *)
  None        (* no process                                                   *)

ScanAssumption ==
  /\ Daemons \subseteq Pids
  /\ None \notin Pids /\ "kernel" \notin Pids
  /\ Slots \cap {"host", "own", "swap", "holder", "loop", "blockloop", "none"} = {}

VARIABLES
  ns,         (* per process: gone, or the mount namespace: host or own       *)
  link,       (* per process and slot: none, the block node, or a file on the *)
              (* mount of a namespace                                         *)
  mounted,    (* namespaces that mount the target                             *)
  user,       (* use by the kernel itself                                     *)
  stage,      (* stage of the worker                                          *)
  step,       (* where the scan of this stage is                              *)
  points,     (* the mount point is among those the scan looks for            *)
  pids,       (* processes listed, not looked at yet                          *)
  cur, curNs, (* the one looked at, its namespace as read                     *)
  fds,        (* its descriptors listed, not read yet                         *)
  pardon,     (* a FUSE daemon's descriptor was seen in the preflight         *)
  steady      (* history: uses that have lasted since the scan began          *)
hostVars == <<ns, link, mounted, user>>
readVars == <<points, pids, cur, curNs, fds, pardon>>
usageVars == <<hostVars, stage, step, readVars, steady>>

Scans == {"preflight", "verify_idle", "post_finalize_idle", "final_idle"}
After == [preflight |-> "strict_unmount", verify_idle |-> "post_finalize_idle",
          post_finalize_idle |-> "exclusive_open", final_idle |-> "approved"]

UsageInit ==
  /\ ns \in [Pids -> {"gone", "host"}]
  /\ link = [p \in Pids |-> [s \in Slots |-> "none"]]
  /\ mounted \in SUBSET {"host"} /\ user = "none"
  /\ stage = "preflight" /\ step = "start"
  /\ points = FALSE /\ pids = {} /\ cur = None /\ curNs = "gone" /\ fds = {} /\ pardon = FALSE
  /\ steady = {}

-----------------------------------------------------------------------------
(* The host.                                                                  *)
RawLinks == {u \in Pids \X Slots : link[u[1]][u[2]] = "raw"}
FileLinks == {u \in Pids \X Slots : link[u[1]][u[2]] \in {"host", "own"}}
Uses == RawLinks \cup {u \in Pids \X mounted : ns[u[1]] = u[2]} \cup {"kernel"} \X ({user} \ {"none"})

(* The superblock lives as long as a mount, or a file after a lazy unmount,   *)
(* and claims the disk as swap, a holder and O_EXCL do.                       *)
Alive == mounted # {} \/ FileLinks # {} \/ user = "loop"
HandleOpen == stage \in {"final_idle", "approved"}

Fork(p, q) ==
  /\ ns[p] # "gone" /\ ns[q] = "gone"
  /\ ns' = [ns EXCEPT ![q] = ns[p]] /\ link' = [link EXCEPT ![q] = link[p]]
  /\ UNCHANGED <<mounted, user>>
(* A namespace ends with its last process, unless something pins it.          *)
Exit(p) ==
  /\ ns[p] # "gone"
  /\ ns' = [ns EXCEPT ![p] = "gone"] /\ link' = [link EXCEPT ![p] = [s \in Slots |-> "none"]]
  /\ \/ UNCHANGED mounted
     \/ ns[p] = "own" /\ (\A q \in Pids \ {p} : ns[q] # "own") /\ mounted' = mounted \ {"own"}
  /\ UNCHANGED user
Unshare(p) ==
  /\ ns[p] = "host"
  /\ ns' = [ns EXCEPT ![p] = "own"]
  /\ \/ UNCHANGED mounted
     \/ "host" \in mounted /\ mounted' = mounted \cup {"own"}
  /\ UNCHANGED <<link, user>>
Open(p, s, what) ==
  /\ ns[p] # "gone" /\ link[p][s] = "none"
  /\ what = "raw" \/ what \in mounted \cap {ns[p]}
  /\ link' = [link EXCEPT ![p][s] = what]
  /\ UNCHANGED <<ns, mounted, user>>
Close(p, s) ==
  /\ link[p][s] # "none"
  /\ link' = [link EXCEPT ![p][s] = "none"]
  /\ UNCHANGED <<ns, mounted, user>>
Mount(p) ==
  /\ ns[p] # "gone" /\ user \notin {"swap", "holder"} /\ ~HandleOpen
  /\ mounted' = mounted \cup {ns[p]}
  /\ UNCHANGED <<ns, link, user>>
LazyUnmount(n) ==
  /\ n \in mounted
  /\ mounted' = mounted \ {n}
  /\ UNCHANGED <<ns, link, user>>
(* A loop device over a file of the target, or over its block node.           *)
KernelUse(u) ==
  /\ user = "none"
  /\ CASE u \in {"swap", "holder"} -> ~Alive /\ ~HandleOpen
       [] u = "loop" -> "host" \in mounted
       [] u = "blockloop" -> TRUE
  /\ user' = u
  /\ UNCHANGED <<ns, link, mounted>>
KernelRelease == user # "none" /\ user' = "none" /\ UNCHANGED <<ns, link, mounted>>

HostStep ==
  \/ \E p, q \in Pids : Fork(p, q)
  \/ \E p \in Pids : Exit(p) \/ Unshare(p) \/ Mount(p)
  \/ \E p \in Pids, s \in Slots :
       \/ Close(p, s)
       \/ \E what \in {"raw", "host", "own"} : Open(p, s, what)
  \/ \E n \in {"host", "own"} : LazyUnmount(n)
  \/ \E u \in {"swap", "holder", "loop", "blockloop"} : KernelUse(u)
  \/ KernelRelease
HostActs ==
  /\ HostStep
  /\ steady' = steady \cap Uses'
  /\ UNCHANGED <<stage, step, readVars>>

-----------------------------------------------------------------------------
(* ScanUsage.  A reference that stops the worker ends the scan at once here;  *)
(* the code reads on and stops then.                                          *)
Scanning(s) == stage \in Scans /\ step = s
Found == stage' = "refused" /\ step' = "start" /\ UNCHANGED <<hostVars, readVars, steady>>

(* Mount points of the target in the worker's own namespace.                  *)
ReadMountPoints ==
  /\ Scanning("start")
  /\ step' = "list" /\ points' = ("host" \in mounted)
  /\ steady' = Uses
  /\ UNCHANGED <<hostVars, stage, pids, cur, curNs, fds, pardon>>

ListProcesses ==
  /\ Scanning("list")
  /\ step' = "pids" /\ pids' = {p \in Pids : ns[p] # "gone"}
  /\ UNCHANGED <<hostVars, stage, points, cur, curNs, fds, pardon, steady>>

ReadNamespace(p) ==
  /\ Scanning("pids") /\ p \in pids
  /\ step' = "mounts" /\ pids' = pids \ {p} /\ cur' = p /\ curNs' = ns[p]
  /\ UNCHANGED <<hostVars, stage, points, fds, pardon, steady>>

(* A mount that counts: any but those of the worker's own namespace in the    *)
(* preflight, by the namespace that was read first.                           *)
Foreign == ns[cur] \in mounted /\ ~(stage = "preflight" /\ curNs = "host")

(* Its mountinfo, then the listing of its descriptors; a process that is gone *)
(* has none.                                                                  *)
ReadMounts == Scanning("mounts") /\ Foreign /\ Found
ListLinks ==
  /\ Scanning("mounts") /\ ~Foreign
  /\ step' = "links" /\ fds' = {s \in Slots : link[cur][s] # "none"}
  /\ UNCHANGED <<hostVars, stage, points, pids, cur, curNs, pardon, steady>>

(* matchesTargetPath: the block node, or a path below a mount point that was  *)
(* known when the scan began and still is attached.                           *)
Matches(what) == what = "raw" \/ (what = "host" /\ points /\ "host" \in mounted)

(* Variant: a FUSE daemon's descriptor is excused in each scan.               *)
ExcusedAlways(s) == cur \in Daemons /\ link[cur][s] = "raw"

(* expectedFuseDaemonReference, as far as the process goes.                   *)
Excused(s) == stage = "preflight" /\ cur \in Daemons /\ link[cur][s] = "raw"

ReadLink(s) ==
  /\ Scanning("links") /\ s \in fds
  /\ \/ Matches(link[cur][s]) /\ ~Excused(s) /\ Found
     \/ /\ Excused(s) \/ ~Matches(link[cur][s])
        /\ fds' = fds \ {s}
        /\ pardon' = (pardon \/ Excused(s))
        /\ UNCHANGED <<hostVars, stage, step, points, pids, cur, curNs, steady>>

NextProcess ==
  /\ Scanning("links") /\ fds = {}
  /\ step' = "pids" /\ cur' = None /\ curNs' = "gone"
  /\ UNCHANGED <<hostVars, stage, points, pids, fds, pardon, steady>>

(* What cannot be read is a reason to stop; what no longer exists is not.     *)
ReadFails ==
  /\ \E s \in {"start", "list", "mounts", "links", "kernel"} : Scanning(s)
  /\ Found

ScanKernel ==
  /\ Scanning("pids") /\ pids = {}
  /\ \/ /\ user \in {"swap", "holder"} \/ (user = "loop" /\ points /\ "host" \in mounted)
        /\ Found
     \/ /\ user \notin {"swap", "holder"} /\ ~(user = "loop" /\ points /\ "host" \in mounted)
        /\ step' = "kernel"
        /\ UNCHANGED <<hostVars, stage, readVars, steady>>

(* dynamicSafetyReasons: the daemon was excused for a mount that must still   *)
(* be there.                                                                  *)
EndScan ==
  /\ Scanning("kernel")
  /\ \/ pardon /\ "host" \notin mounted /\ Found
     \/ /\ pardon => "host" \in mounted
        /\ stage' = After[stage] /\ step' = "start"
        /\ points' = FALSE /\ pardon' = FALSE
        /\ UNCHANGED <<hostVars, pids, cur, curNs, fds, steady>>

-----------------------------------------------------------------------------
(* The worker between the scans.                                              *)
Busy == (\E u \in FileLinks : link[u[1]][u[2]] = "host") \/ user = "loop"

Unmount ==
  /\ stage = "strict_unmount"
  /\ \/ "host" \in mounted /\ Busy /\ Found
     \/ /\ ~("host" \in mounted /\ Busy)
        /\ mounted' = mounted \ {"host"}
        /\ stage' = "verify_idle"
        /\ steady' = {}
        /\ UNCHANGED <<ns, link, user, step, readVars>>

(* Variant: the node is opened without O_EXCL.                                *)
OpenShared ==
  /\ stage = "exclusive_open"
  /\ stage' = "final_idle"
  /\ UNCHANGED <<hostVars, step, readVars, steady>>

OpenExclusive ==
  /\ stage = "exclusive_open"
  /\ stage' = IF Alive \/ user \in {"swap", "holder"} THEN "refused" ELSE "final_idle"
  /\ UNCHANGED <<hostVars, step, readVars, steady>>

WorkerActs ==
  \/ ReadMountPoints \/ ListProcesses
  \/ \E p \in Pids : ReadNamespace(p)
  \/ ReadMounts \/ ListLinks
  \/ \E s \in Slots : ReadLink(s)
  \/ NextProcess \/ ReadFails \/ ScanKernel \/ EndScan
  \/ Unmount \/ OpenExclusive

UsageNext == HostActs \/ WorkerActs
UsageSpec == UsageInit /\ [][UsageNext]_usageVars

-----------------------------------------------------------------------------
(* A use that lasts as long as a scan is not missed by it, whatever happens    *)
(* meanwhile (procscan.go:14): when the worker goes on, none is left of those  *)
(* the scan is there to find.  Only the preflight leaves the mount that is     *)
(* about to be unmounted, and the FUSE daemon behind it (eject.go:695).        *)
SteadyStops ==
  /\ stage \in {"exclusive_open", "approved"} \/ (stage = "post_finalize_idle" /\ step = "start") =>
       steady \subseteq {"kernel"} \X {"loop", "blockloop"}
  /\ stage = "strict_unmount" =>
       \A u \in steady : u[1] = "kernel" \/ u[2] = "host" \/ (u[1] \in Daemons /\ u[2] \in Slots)

(* Between the final scan and the removal no namespace mounts the target, no   *)
(* process has a file open on it, not even on a detached mount, and no swap,   *)
(* holder or loop file is on it (eject.go:379-413).                            *)
NoFilesystemLeft ==
  HandleOpen => ~Alive /\ user \notin {"swap", "holder"}
=============================================================================
