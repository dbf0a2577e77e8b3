---------------------------- MODULE ScannerProofs ----------------------------
(***************************************************************************)
(* The readings of a system that changes under them, for any number of        *)
(* processes: who uses the target (UsageScan), whether shfs is  *)
(* still the one it was (ShfsWatch) and whether the device may be ejected at   *)
(* all (Protection).  Each invariant follows a reading item by item: what has  *)
(* been true since it began is either still to be read or was let pass for a   *)
(* reason the property names.                                                 *)
(***************************************************************************)
EXTENDS UsageScan, ShfsWatch, Protection, TLAPS

-----------------------------------------------------------------------------
(* UsageScan.                                                                 *)

Namespaces == {"host", "own"}
Ways == {"none", "raw", "host", "own"}
Steps == {"start", "list", "pids", "mounts", "links", "kernel"}
Typed ==
  /\ ns \in [Pids -> Namespaces \cup {"gone"}]
  /\ link \in [Pids -> [Slots -> Ways]]
  /\ mounted \subseteq Namespaces
  /\ user \in {"none", "swap", "holder", "loop", "blockloop"}
  /\ stage \in Scans \cup {"strict_unmount", "exclusive_open", "approved", "refused"}
  /\ step \in Steps /\ (stage \notin Scans => step = "start")
  /\ pids \subseteq Pids /\ fds \subseteq Slots
  /\ step \in {"mounts", "links"} => cur \in Pids

(* A process that is gone has nothing open.                                   *)
GoneIsClosed == \A p \in Pids : ns[p] = "gone" => \A s \in Slots : link[p][s] = "none"

(* What the preflight lets pass.                                              *)
Passed(u) == stage = "preflight" /\ (u[2] = "host" \/ (u[1] \in Daemons /\ u[2] \in Slots))
OfKernel(u) == u[1] = "kernel" /\ u[2] \in {"loop", "blockloop"}

(* A use as old as the scan is of a process still to be looked at, of the one *)
(* that is being looked at, or was let pass.                                  *)
StillToCome ==
  /\ step = "pids" => \A u \in steady : u[1] \in Pids => u[1] \in pids \/ Passed(u)
  /\ step = "mounts" =>
       /\ \A u \in steady : u[1] \in Pids => u[1] \in pids \cup {cur} \/ Passed(u)
       /\ \A n \in Namespaces : <<cur, n>> \in steady => curNs = n
  /\ step = "links" =>
       \A u \in steady : u[1] \in Pids =>
         u[1] \in pids \/ (u[1] = cur /\ u[2] \in fds) \/ Passed(u)
  /\ step = "kernel" => \A u \in steady : Passed(u) \/ OfKernel(u)

Concluded ==
  /\ stage \in {"exclusive_open", "approved"} \/ (stage = "post_finalize_idle" /\ step = "start") =>
       \A u \in steady : OfKernel(u)
  /\ stage = "strict_unmount" =>
       \A u \in steady : u[1] = "kernel" \/ u[2] = "host" \/ (u[1] \in Daemons /\ u[2] \in Slots)

ScanInv == Typed /\ GoneIsClosed /\ steady \subseteq Uses /\ StillToCome /\ Concluded

(* What a use is.                                                             *)
LEMMA UsesAre ==
  ASSUME Typed, ScanAssumption, NEW u \in Uses
  PROVE  \/ u[1] \in Pids /\ u[2] \in Slots /\ u = <<u[1], u[2]>> /\ link[u[1]][u[2]] = "raw"
         \/ u[1] \in Pids /\ u[2] \in Namespaces /\ u = <<u[1], u[2]>> /\ ns[u[1]] = u[2]
              /\ u[2] \in mounted /\ u[2] \notin Slots
         \/ u[1] = "kernel" /\ u[2] = user /\ u = <<u[1], u[2]>> /\ user # "none" /\ u[1] \notin Pids
BY DEF Uses, RawLinks, Typed, Namespaces, ScanAssumption

LEMMA ScanInit == ScanAssumption /\ UsageInit => ScanInv /\ NoFilesystemLeft
<1> SUFFICES ASSUME ScanAssumption, UsageInit PROVE ScanInv /\ NoFilesystemLeft
  OBVIOUS
<1>1. Typed
  BY DEF UsageInit, Typed, Namespaces, Ways, Scans, Steps
<1>2. GoneIsClosed /\ steady \subseteq Uses /\ StillToCome /\ Concluded /\ NoFilesystemLeft
  BY DEF UsageInit, GoneIsClosed, StillToCome, Concluded, NoFilesystemLeft, HandleOpen
<1> QED BY <1>1, <1>2 DEF ScanInv

LEMMA TypedStep == Typed /\ [UsageNext]_usageVars => Typed'
<1> SUFFICES ASSUME Typed, [UsageNext]_usageVars PROVE Typed'
  OBVIOUS
<1> USE DEF Typed, Namespaces, Ways, Steps, Scans
<1>1. CASE HostActs
  <2>1. UNCHANGED <<stage, step, points, pids, cur, curNs, fds, pardon>>
    BY <1>1 DEF HostActs, readVars
  <2>2. CASE \E p, q \in Pids : Fork(p, q)
    BY <2>1, <2>2 DEF Fork
  <2>3. ASSUME NEW p \in Pids, Exit(p) PROVE Typed'
    <3>1. ns' \in [Pids -> {"host", "own", "gone"}] /\ user' = user /\ mounted' \subseteq mounted
      BY <2>3 DEF Exit
    <3>2. link' \in [Pids -> [Slots -> Ways]]
      BY <2>3 DEF Exit
    <3> QED BY <2>1, <3>1, <3>2
  <2>4. CASE \E p \in Pids : Unshare(p) \/ Mount(p)
    BY <2>1, <2>4 DEF Unshare, Mount
  <2>5. CASE \E p \in Pids, s \in Slots : Close(p, s)
    BY <2>1, <2>5 DEF Close
  <2>6. CASE \E p \in Pids, s \in Slots : \E what \in {"raw", "host", "own"} : Open(p, s, what)
    BY <2>1, <2>6 DEF Open
  <2>7. CASE (\E n \in {"host", "own"} : LazyUnmount(n)) \/ KernelRelease
             \/ \E u \in {"swap", "holder", "loop", "blockloop"} : KernelUse(u)
    BY <2>1, <2>7 DEF LazyUnmount, KernelRelease, KernelUse
  <2> QED BY <1>1, <2>2, <2>3, <2>4, <2>5, <2>6, <2>7 DEF HostActs, HostStep
<1>2. CASE ReadMountPoints \/ ListProcesses \/ (\E p \in Pids : ReadNamespace(p)) \/ NextProcess
  BY <1>2 DEF ReadMountPoints, ListProcesses, ReadNamespace, NextProcess, Scanning, hostVars
<1>3. CASE ReadMounts \/ ReadFails
  BY <1>3 DEF ReadMounts, ReadFails, Found, hostVars, readVars
<1>4. CASE ListLinks
  BY <1>4 DEF ListLinks, Scanning, hostVars
<1>5. CASE \E s \in Slots : ReadLink(s)
  BY <1>5 DEF ReadLink, Found, hostVars, readVars
<1>6. CASE ScanKernel
  BY <1>6 DEF ScanKernel, Scanning, Found, hostVars, readVars
<1>7. CASE EndScan
  <2>1. After[stage] \in Scans \cup {"strict_unmount", "exclusive_open", "approved"}
    BY <1>7 DEF EndScan, Scanning, After
  <2> QED BY <1>7, <2>1 DEF EndScan, Found, hostVars, readVars
<1>8. CASE Unmount \/ OpenExclusive
  BY <1>8 DEF Unmount, OpenExclusive, Found, hostVars, readVars
<1>9. CASE UNCHANGED usageVars
  BY <1>9 DEF usageVars, hostVars, readVars
<1> QED BY <1>1, <1>2, <1>3, <1>4, <1>5, <1>6, <1>7, <1>8, <1>9 DEF UsageNext, WorkerActs

LEMMA GoneStep ==
  ASSUME Typed, GoneIsClosed, [UsageNext]_usageVars
  PROVE  GoneIsClosed'
<1> USE DEF Typed, GoneIsClosed
<1>1. CASE HostActs
  <2>2. CASE \E p, q \in Pids : Fork(p, q)
    BY <2>2 DEF Fork
  <2>3. CASE \E p \in Pids : Exit(p)
    BY <2>3 DEF Exit
  <2>4. CASE \E p \in Pids : Unshare(p) \/ Mount(p)
    BY <2>4 DEF Unshare, Mount
  <2>5. CASE \E p \in Pids, s \in Slots : Close(p, s)
    BY <2>5 DEF Close
  <2>6. CASE \E p \in Pids, s \in Slots : \E what \in {"raw", "host", "own"} : Open(p, s, what)
    BY <2>6 DEF Open
  <2>7. CASE (\E n \in {"host", "own"} : LazyUnmount(n)) \/ KernelRelease
             \/ \E u \in {"swap", "holder", "loop", "blockloop"} : KernelUse(u)
    BY <2>7 DEF LazyUnmount, KernelRelease, KernelUse
  <2> QED BY <1>1, <2>2, <2>3, <2>4, <2>5, <2>6, <2>7 DEF HostActs, HostStep
<1>2. CASE WorkerActs
  <2>1. UNCHANGED <<ns, link>>
    BY <1>2 DEF WorkerActs, ReadMountPoints, ListProcesses, ReadNamespace, ReadMounts, ListLinks,
                ReadLink, NextProcess, ReadFails, ScanKernel, EndScan, Unmount, OpenExclusive,
                Found, hostVars
  <2> QED BY <2>1
<1>3. CASE UNCHANGED usageVars
  BY <1>3 DEF usageVars, hostVars
<1> QED BY <1>1, <1>2, <1>3 DEF UsageNext

LEMMA SteadyUsed ==
  ASSUME Typed, steady \subseteq Uses, [UsageNext]_usageVars
  PROVE  steady' \subseteq Uses'
<1>1. CASE HostActs
  BY <1>1 DEF HostActs
<1>2. CASE Unmount /\ stage' = "verify_idle"
  BY <1>2 DEF Unmount, Found
<1>3. CASE ReadMountPoints
  <2>1. Uses' = Uses
    BY <1>3 DEF ReadMountPoints, hostVars, Uses, RawLinks
  <2> QED BY <1>3, <2>1 DEF ReadMountPoints
<1>4. CASE \/ ListProcesses \/ \E p \in Pids : ReadNamespace(p)
           \/ ReadMounts \/ ListLinks \/ \E s \in Slots : ReadLink(s)
           \/ NextProcess \/ ReadFails \/ ScanKernel \/ EndScan \/ OpenExclusive \/ UNCHANGED usageVars
           \/ (Unmount /\ stage' # "verify_idle")
  <2>1. UNCHANGED <<ns, link, mounted, user, steady>>
    BY <1>4 DEF ListProcesses, ReadNamespace, ReadMounts, ListLinks, ReadLink, NextProcess,
                ReadFails, ScanKernel, EndScan, OpenExclusive, Unmount, Found, hostVars, usageVars
  <2>2. Uses' = Uses
    BY <2>1 DEF Uses, RawLinks
  <2> QED BY <2>1, <2>2
<1> QED BY <1>1, <1>2, <1>3, <1>4 DEF UsageNext, WorkerActs

LEMMA ScanStep ==
  ASSUME ScanAssumption, ScanInv, [UsageNext]_usageVars
  PROVE  StillToCome' /\ Concluded'
<1>0. Typed /\ GoneIsClosed /\ steady \subseteq Uses /\ StillToCome /\ Concluded
  BY DEF ScanInv
<1>a. ASSUME steady' \subseteq steady,
             UNCHANGED <<stage, step, pids, cur, curNs, fds>>
      PROVE  StillToCome' /\ Concluded'
  <2>1. StillToCome'
    BY <1>0, <1>a DEF StillToCome, Passed, OfKernel
  <2>2. Concluded'
    BY <1>0, <1>a DEF Concluded, OfKernel
  <2> QED BY <2>1, <2>2
<1>b. ASSUME Found PROVE StillToCome' /\ Concluded'
  BY <1>b DEF Found, StillToCome, Concluded
<1>1. CASE HostActs
  <2>1. steady' \subseteq steady /\ UNCHANGED <<stage, step, pids, cur, curNs, fds>>
    BY <1>1 DEF HostActs, readVars
  <2> QED BY <1>a, <2>1
<1>2. CASE ReadMountPoints
  <2>1. stage' = stage /\ stage \in Scans /\ step' = "list"
    BY <1>2 DEF ReadMountPoints, Scanning
  <2> QED BY <2>1 DEF StillToCome, Concluded, Scans
<1>3. CASE ListProcesses
  <2>1. /\ stage' = stage /\ stage \in Scans /\ step' = "pids" /\ steady' = steady
        /\ pids' = {p \in Pids : ns[p] # "gone"}
    BY <1>3 DEF ListProcesses, Scanning
  <2>2. ASSUME NEW u \in steady, u[1] \in Pids PROVE ns[u[1]] # "gone"
    BY <1>0, <2>2, UsesAre DEF GoneIsClosed, Namespaces
  <2> QED BY <2>1, <2>2 DEF StillToCome, Concluded, Scans
<1>4. ASSUME NEW p \in Pids, ReadNamespace(p) PROVE StillToCome' /\ Concluded'
  <2>1. /\ stage' = stage /\ stage \in Scans /\ step = "pids" /\ step' = "mounts" /\ steady' = steady
        /\ pids' = pids \ {p} /\ cur' = p /\ curNs' = ns[p]
    BY <1>4 DEF ReadNamespace, Scanning
  <2>2. ASSUME NEW n \in Namespaces, <<p, n>> \in steady PROVE ns[p] = n
    <3>1. p # "kernel" /\ n \notin Slots
      BY DEF ScanAssumption, Namespaces
    <3> QED BY <1>0, <2>2, <3>1, UsesAre
  <2>3. \A u \in steady : u[1] \in Pids => u[1] \in pids' \cup {p} \/ Passed(u)
    BY <1>0, <2>1 DEF StillToCome
  <2>4. Concluded'
    BY <2>1 DEF Concluded, Scans
  <2> QED BY <2>1, <2>2, <2>3, <2>4 DEF StillToCome, Passed
<1>5. CASE ReadMounts \/ ReadFails
  BY <1>b, <1>5 DEF ReadMounts, ReadFails
<1>6. CASE ListLinks
  <2>1. /\ stage' = stage /\ stage \in Scans /\ step = "mounts" /\ step' = "links" /\ steady' = steady
        /\ pids' = pids /\ cur' = cur /\ fds' = {s \in Slots : link[cur][s] # "none"} /\ ~Foreign
    BY <1>6 DEF ListLinks, Scanning
  <2>2. ASSUME NEW u \in steady, u[1] = cur, cur \in Pids PROVE u[2] \in fds' \/ Passed(u)
    <3>1. CASE u[2] \in Slots
      BY <1>0, <2>1, <2>2, <3>1, UsesAre
    <3>2. CASE u[2] \notin Slots
      <4>1. u[2] \in Namespaces /\ u = <<cur, u[2]>> /\ ns[cur] = u[2] /\ u[2] \in mounted
        BY <1>0, <2>2, <3>2, UsesAre
      <4>2. curNs = u[2]
        BY <1>0, <2>1, <2>2, <4>1 DEF StillToCome
      <4> QED BY <2>1, <4>1, <4>2 DEF Foreign, Passed
    <3> QED BY <3>1, <3>2
  <2>3. \A u \in steady : u[1] \in Pids => u[1] \in pids \cup {cur} \/ Passed(u)
    BY <1>0, <2>1 DEF StillToCome
  <2>4. Concluded'
    BY <2>1 DEF Concluded, Scans
  <2> QED BY <2>1, <2>2, <2>3, <2>4 DEF StillToCome, Passed
<1>7. ASSUME NEW s \in Slots, ReadLink(s) PROVE StillToCome' /\ Concluded'
  <2>1. CASE Found
    BY <1>b, <2>1
  <2>2. CASE ~Found
    <3>1. /\ stage' = stage /\ stage \in Scans /\ step = "links" /\ step' = "links" /\ steady' = steady
          /\ pids' = pids /\ cur' = cur /\ fds' = fds \ {s}
          /\ Excused(s) \/ ~Matches(link[cur][s])
      BY <1>7, <2>2 DEF ReadLink, Scanning
    <3>2. ASSUME NEW u \in steady, u[1] = cur, cur \in Pids, u[2] = s PROVE Passed(u)
      <4>1. link[cur][s] = "raw"
        BY <1>0, <3>2, UsesAre
      <4>2. Excused(s)
        BY <3>1, <4>1 DEF Matches
      <4> QED BY <3>2, <4>2 DEF Excused, Passed
    <3>3. \A u \in steady : u[1] \in Pids =>
            u[1] \in pids \/ (u[1] = cur /\ u[2] \in fds) \/ Passed(u)
      BY <1>0, <3>1 DEF StillToCome
    <3>4. Concluded'
      BY <3>1 DEF Concluded, Scans
    <3> QED BY <3>1, <3>2, <3>3, <3>4 DEF StillToCome, Passed
  <2> QED BY <2>1, <2>2
<1>8. CASE NextProcess
  <2>1. /\ stage' = stage /\ stage \in Scans /\ step = "links" /\ step' = "pids" /\ steady' = steady
        /\ pids' = pids /\ fds = {}
    BY <1>8 DEF NextProcess, Scanning
  <2> QED BY <1>0, <2>1 DEF StillToCome, Concluded, Passed, Scans
<1>9. CASE ScanKernel
  <2>1. CASE Found
    BY <1>b, <2>1
  <2>2. CASE ~Found
    <3>1. /\ stage' = stage /\ stage \in Scans /\ step = "pids" /\ step' = "kernel" /\ steady' = steady
          /\ pids = {} /\ user \notin {"swap", "holder"}
      BY <1>9, <2>2 DEF ScanKernel, Scanning
    <3>2. ASSUME NEW u \in steady PROVE Passed(u) \/ OfKernel(u)
      <4>1. CASE u[1] \in Pids
        BY <1>0, <3>1, <4>1 DEF StillToCome
      <4>2. CASE u[1] \notin Pids
        BY <1>0, <3>1, <4>2, UsesAre DEF OfKernel, Typed
      <4> QED BY <4>1, <4>2
    <3> QED BY <3>1, <3>2 DEF StillToCome, Concluded, Passed, OfKernel, Scans
  <2> QED BY <2>1, <2>2
<1>10. CASE EndScan
  <2>1. CASE Found
    BY <1>b, <2>1
  <2>2. CASE ~Found
    <3>1. /\ stage' = After[stage] /\ stage \in Scans /\ step = "kernel" /\ step' = "start" /\ steady' = steady
      BY <1>10, <2>2 DEF EndScan, Scanning
    <3>2. \A u \in steady : Passed(u) \/ OfKernel(u)
      BY <1>0, <3>1 DEF StillToCome
    <3>3. stage' = "strict_unmount" <=> stage = "preflight"
      BY <3>1 DEF After, Scans
    <3> QED BY <3>1, <3>2, <3>3 DEF StillToCome, Concluded, Passed, OfKernel
  <2> QED BY <2>1, <2>2
<1>11. CASE Unmount
  <2>1. CASE Found
    BY <1>b, <2>1
  <2>2. CASE ~Found
    <3>1. stage' = "verify_idle" /\ steady' = {}
      BY <1>11, <2>2 DEF Unmount
    <3> QED BY <3>1 DEF StillToCome, Concluded
  <2> QED BY <2>1, <2>2
<1>12. CASE OpenExclusive
  <2>1. stage \notin Scans /\ step' = step /\ stage' \in {"refused", "final_idle"}
    BY <1>12 DEF OpenExclusive, Scans
  <2>2. step' = "start"
    BY <1>0, <2>1 DEF Typed
  <2> QED BY <2>1, <2>2 DEF StillToCome, Concluded
<1>13. CASE UNCHANGED usageVars
  BY <1>a, <1>13 DEF usageVars, readVars
<1> QED BY <1>1, <1>2, <1>3, <1>4, <1>5, <1>6, <1>7, <1>8, <1>9, <1>10, <1>11, <1>12, <1>13
        DEF UsageNext, WorkerActs

LEMMA ScanInvariant == ScanAssumption => (UsageSpec => []ScanInv)
<1> SUFFICES ASSUME ScanAssumption PROVE UsageSpec => []ScanInv
  OBVIOUS
<1>1. UsageInit => ScanInv
  BY ScanInit
<1>2. ScanInv /\ [UsageNext]_usageVars => ScanInv'
  BY TypedStep, GoneStep, SteadyUsed, ScanStep DEF ScanInv
<1> QED BY <1>1, <1>2, PTL DEF UsageSpec

(* No scan misses a use as old as the scan itself (procscan.go:14), whatever  *)
(* forks, exits, opens, closes, mounts and unmounts meanwhile; only the       *)
(* preflight leaves the mount and its FUSE daemon.                            *)
THEOREM NoSteadyUseIsMissed ==
  ASSUME ScanAssumption
  PROVE  UsageSpec => []SteadyStops
<1>1. ScanInv => SteadyStops
  <2> SUFFICES ASSUME ScanInv PROVE SteadyStops
    OBVIOUS
  <2>1. \A u \in steady : OfKernel(u) => u \in {"kernel"} \X {"loop", "blockloop"}
    BY UsesAre DEF ScanInv, OfKernel
  <2> QED BY <2>1 DEF ScanInv, Concluded, SteadyStops
<1> QED BY <1>1, ScanInvariant, PTL

(* The O_EXCL handle keeps every filesystem, swap, holder and loop file off   *)
(* the target until it is removed (eject.go:379-413).                         *)
THEOREM HandleKeepsOff ==
  ASSUME ScanAssumption
  PROVE  UsageSpec => []NoFilesystemLeft
<1>1. UsageInit => Typed /\ NoFilesystemLeft
  BY ScanInit DEF ScanInv
<1>2. ASSUME Typed, NoFilesystemLeft, [UsageNext]_usageVars PROVE NoFilesystemLeft'
  <2> USE <1>2 DEF HandleOpen
  <2>1. CASE HostActs
    <3> SUFFICES ASSUME HandleOpen PROVE ~Alive' /\ user' \notin {"swap", "holder"}
      BY <2>1 DEF HostActs, NoFilesystemLeft
    <3>0. /\ mounted = {} /\ user \notin {"loop", "swap", "holder"}
          /\ \A p \in Pids, s \in Slots : link[p][s] \notin {"host", "own"}
      <4>1. ~Alive /\ user \notin {"swap", "holder"}
        BY DEF NoFilesystemLeft
      <4>2. ASSUME NEW p \in Pids, NEW s \in Slots PROVE link[p][s] \notin {"host", "own"}
        <5>1. <<p, s>> \notin FileLinks
          BY <4>1 DEF Alive
        <5> QED BY <5>1 DEF FileLinks
      <4> QED BY <4>1, <4>2 DEF Alive
    <3>1. /\ mounted' = {} /\ user' \notin {"loop", "swap", "holder"}
          /\ \A p \in Pids, s \in Slots : link'[p][s] \notin {"host", "own"}
      <4>2. CASE \E p, q \in Pids : Fork(p, q)
        BY <3>0, <4>2 DEF Fork, Typed
      <4>3. CASE \E p \in Pids : Exit(p)
        BY <3>0, <4>3 DEF Exit, Typed
      <4>4. CASE \E p \in Pids : Unshare(p) \/ Mount(p)
        BY <3>0, <4>4 DEF Unshare, Mount
      <4>5. CASE \E p \in Pids, s \in Slots : Close(p, s)
        BY <3>0, <4>5 DEF Close, Typed
      <4>6. CASE \E p \in Pids, s \in Slots : \E what \in {"raw", "host", "own"} : Open(p, s, what)
        BY <3>0, <4>6 DEF Open, Typed
      <4>7. CASE (\E n \in {"host", "own"} : LazyUnmount(n)) \/ KernelRelease
                 \/ \E u \in {"swap", "holder", "loop", "blockloop"} : KernelUse(u)
        BY <3>0, <4>7 DEF LazyUnmount, KernelRelease, KernelUse
      <4> QED BY <2>1, <4>2, <4>3, <4>4, <4>5, <4>6, <4>7 DEF HostActs, HostStep
    <3> QED BY <3>1 DEF Alive, FileLinks
  <2>2. CASE OpenExclusive
    <3>1. UNCHANGED <<link, mounted, user>>
          /\ stage' = IF Alive \/ user \in {"swap", "holder"} THEN "refused" ELSE "final_idle"
      BY <2>2 DEF OpenExclusive, hostVars
    <3>2. Alive' = Alive
      BY <3>1 DEF Alive, FileLinks
    <3> QED BY <3>1, <3>2 DEF NoFilesystemLeft
  <2>3. CASE WorkerActs /\ ~OpenExclusive /\ ~Unmount
    <3>1. UNCHANGED <<link, mounted, user>> /\ (HandleOpen' => HandleOpen)
      BY <2>3 DEF WorkerActs, ReadMountPoints, ListProcesses, ReadNamespace, ReadMounts, ListLinks,
                  ReadLink, NextProcess, ReadFails, ScanKernel, EndScan, Found, hostVars, Scanning,
                  Scans, After
    <3>2. Alive' = Alive
      BY <3>1 DEF Alive, FileLinks
    <3> QED BY <3>1, <3>2 DEF NoFilesystemLeft
  <2>4. CASE Unmount
    BY <2>4 DEF Unmount, Found, NoFilesystemLeft
  <2>5. CASE UNCHANGED usageVars
    BY <2>5 DEF usageVars, hostVars, NoFilesystemLeft, Alive, FileLinks
  <2> QED BY <1>2, <2>1, <2>2, <2>3, <2>4, <2>5 DEF UsageNext, WorkerActs
<1> QED BY <1>1, <1>2, TypedStep, PTL DEF UsageSpec

-----------------------------------------------------------------------------
(* ShfsWatch.                                                                 *)

ServerStates == {"new", "running", "stuck", "zombie", "gone"}
WatchTyped ==
  /\ proc \in [Servers -> ServerStates]
  /\ served \subseteq Servers \X Places
  /\ watch \in {"preflight", "window", "refused"} /\ look \in {"mounts", "probe", "list", "status"}
  /\ found \subseteq Servers /\ left \subseteq Servers

(* What had ended when the look began is not running when its state is read.  *)
LostStay ==
  /\ lost \subseteq {p \in Servers : proc[p] \in Ended}
  /\ look = "status" => \A p \in found : p \in lost => p \in left
  /\ watch = "window" /\ look = "mounts" => lost \cap expected = {}

(* While all has been well since the look began, it sees what there is.       *)
CalmIsWell ==
  /\ watch = "refused" => ~calm
  /\ calm /\ look # "mounts" => Well /\ conns = Connections
  /\ calm /\ look = "status" => found = Listed /\ left \subseteq Listed

WatchInv == WatchTyped /\ LostStay /\ CalmIsWell

LEMMA WatchTypes == WatchTyped /\ [WatchNext]_watchVars => WatchTyped'
<1> SUFFICES ASSUME WatchTyped, [WatchNext]_watchVars PROVE WatchTyped'
  OBVIOUS
<1> USE DEF WatchTyped, ServerStates, Places
<1>1. CASE ShfsActs
  <2>1. UNCHANGED <<watch, look, found, left>>
    BY <1>1 DEF ShfsActs
  <2>2. ASSUME NEW p \in Servers, NEW from, NEW to \in ServerStates, Becomes(p, from, to)
        PROVE  WatchTyped'
    BY <2>1, <2>2 DEF Becomes
  <2>3. ASSUME NEW p \in Servers, NEW place \in Places, Serve(p, place) PROVE WatchTyped'
    BY <2>1, <2>3 DEF Serve
  <2>4. ASSUME NEW m, Detach(m) PROVE WatchTyped'
    BY <2>1, <2>4 DEF Detach
  <2> QED BY <1>1, <2>2, <2>3, <2>4 DEF ShfsActs, Bind, Unbind, Disturb
<1>2. CASE WatchActs
  BY <1>2 DEF WatchActs, ReadConnections, Probe, ListPids, JudgeLook, ReadStatus,
              Unhealthy, shfsVars, Listed
<1>3. CASE UNCHANGED watchVars
  BY <1>3 DEF watchVars, shfsVars
<1> QED BY <1>1, <1>2, <1>3 DEF WatchNext

LEMMA LostStep ==
  ASSUME WatchTyped, LostStay, [WatchNext]_watchVars
  PROVE  LostStay'
<1> USE DEF LostStay, Ended
<1>1. CASE ShfsActs
  <2>1. UNCHANGED <<watch, look, found, left, lost, expected>>
    BY <1>1 DEF ShfsActs
  <2>2. \A p \in Servers : proc[p] \in Ended => proc'[p] \in Ended
    <3>1. ASSUME NEW p \in Servers, NEW from, NEW to, Becomes(p, from, to),
                 from \cap {"zombie", "gone"} = {} \/ to = "gone"
          PROVE  \A q \in Servers : proc[q] \in Ended => proc'[q] \in Ended
      BY <3>1 DEF Becomes, WatchTyped
    <3>2. ASSUME proc' = proc
          PROVE  \A q \in Servers : proc[q] \in Ended => proc'[q] \in Ended
      BY <3>2
    <3>3. CASE \E p \in Servers : Serve(p, "bind") \/ Serve(p, "user") \/ Serve(p, "user0")
      BY <3>2, <3>3 DEF Serve
    <3>4. CASE \E m : Detach(m)
      BY <3>2, <3>4 DEF Detach
    <3> QED BY <1>1, <3>1, <3>3, <3>4 DEF ShfsActs, Bind, Unbind, Disturb
  <2> QED BY <2>1, <2>2
<1>2. CASE ReadConnections \/ Probe \/ ListPids
  BY <1>2 DEF ReadConnections, Probe, ListPids, Unhealthy, shfsVars, watchHistory
<1>3. CASE \E p \in Servers : ReadStatus(p)
  BY <1>3 DEF ReadStatus, Unhealthy, shfsVars, watchHistory
<1>4. CASE JudgeLook
  <2>1. proc' = proc /\ lost' = lost /\ look' = "mounts" /\ look = "status" /\ left = {}
        /\ (watch' = "window" => expected' = found)
    BY <1>4 DEF JudgeLook, SamePids, shfsVars, watchHistory
  <2> QED BY <2>1
<1>5. CASE UNCHANGED watchVars
  BY <1>5 DEF watchVars, shfsVars, watchHistory
<1> QED BY <1>1, <1>2, <1>3, <1>4, <1>5 DEF WatchNext, WatchActs

LEMMA CalmStep ==
  ASSUME WatchTyped, CalmIsWell, [WatchNext]_watchVars
  PROVE  CalmIsWell'
<1>a. ASSUME UNCHANGED <<watch, expected, proc>>, Connections' = Connections,
             UserServers' = UserServers
      PROVE  Well' = Well /\ Listed' = Listed
  BY <1>a DEF Well, Listed
<1>b. ASSUME UNCHANGED <<proc, served>>
      PROVE  /\ Connections' = Connections /\ UserServers' = UserServers
             /\ Listed' = Listed
  BY <1>b DEF Connections, UserServers, Listed
<1>1. CASE ShfsActs
  <2>0. UNCHANGED <<watch, look, conns, found, left, expected, lost>>
    BY <1>1 DEF ShfsActs
  <2>1. CASE calm' = FALSE
    BY <2>1 DEF CalmIsWell
  <2>2. CASE Bind /\ calm' = calm
    <3>1. PICK p \in Servers : /\ proc' = proc /\ served' = served \cup {<<p, "bind">>}
                               /\ \E m \in served : m[1] = p
      BY <2>2 DEF Bind, Serve
    <3>2. Connections' = Connections
      BY <3>1 DEF Connections
    <3>3. UserServers' = UserServers
      BY <3>1 DEF UserServers
    <3> QED BY <1>a, <2>0, <2>2, <3>1, <3>2, <3>3 DEF CalmIsWell
  <2>3. CASE Unbind /\ calm' = calm
    <3>1. PICK m \in served : /\ m[2] = "bind" /\ served' = served \ {m} /\ proc' = proc
                              /\ \E o \in served' : o[1] = m[1]
      BY <2>3 DEF Unbind, Detach
    <3>2. Connections' = Connections
      BY <3>1 DEF Connections
    <3>3. UserServers' = UserServers
      BY <3>1 DEF UserServers
    <3> QED BY <1>a, <2>0, <2>3, <3>1, <3>2, <3>3 DEF CalmIsWell
  <2> QED BY <1>1, <2>1, <2>2, <2>3 DEF ShfsActs
<1>2. CASE ReadConnections
  <2>1. /\ UNCHANGED <<proc, served, expected>> /\ calm' = Well /\ look' = "probe"
        /\ conns' = Connections
        /\ IF UserServers = {} THEN watch' = "refused" ELSE watch' = watch
        /\ watch # "refused"
    BY <1>2 DEF ReadConnections, shfsVars
  <2>2. CASE UserServers = {}
    BY <2>1, <2>2 DEF Well, CalmIsWell
  <2>3. CASE UserServers # {}
    BY <1>a, <1>b, <2>1, <2>3 DEF CalmIsWell
  <2> QED BY <2>2, <2>3
<1>u. ASSUME Unhealthy, ~calm PROVE CalmIsWell'
  BY <1>u DEF Unhealthy, watchHistory, CalmIsWell
<1>w. calm /\ look # "mounts" =>
        /\ UserServers # {} /\ Listed # {} /\ conns = Listed
        /\ \A p \in Listed : proc[p] = "running"
        /\ UserServers \subseteq Listed
        /\ watch = "window" => Listed = expected
  <2>1. UserServers \subseteq Connections
    BY DEF UserServers, Connections
  <2> QED BY <2>1 DEF CalmIsWell, Well
<1>3. CASE Probe
  <2>1. CASE Unhealthy /\ (UserServers = {} \/ \E p \in UserServers : proc[p] # "running")
    <3>1. ~calm
      BY <1>3, <1>w, <2>1 DEF Probe
    <3> QED BY <1>u, <2>1, <3>1
  <2>2. CASE look' = "list" /\ look = "probe"
             /\ UNCHANGED <<proc, served, watch, conns, found, left, expected, lost, calm>>
    BY <1>a, <1>b, <2>2 DEF CalmIsWell
  <2> QED BY <1>3, <2>1, <2>2 DEF Probe, shfsVars, watchHistory
<1>4. CASE ListPids
  <2>1. CASE Unhealthy
    <3>1. watch' = "refused" /\ watch # "refused" /\ look = "list"
      BY <1>4, <2>1 DEF ListPids, Unhealthy
    <3>2. ~calm
      BY <1>4, <1>w, <3>1 DEF ListPids
    <3> QED BY <1>u, <2>1, <3>2
  <2>2. CASE look' = "status" /\ look = "list" /\ found' = Listed /\ left' = Listed
             /\ UNCHANGED <<proc, served, watch, conns, expected, lost, calm>>
    <3>1. Well' = Well /\ Connections' = Connections /\ Listed' = Listed
      BY <1>a, <1>b, <2>2
    <3>2. calm => Well /\ conns = Connections
      BY <2>2 DEF CalmIsWell
    <3>3. calm' /\ look' # "mounts" => Well' /\ conns' = Connections'
      BY <2>2, <3>1, <3>2
    <3>4. found' = Listed' /\ left' \subseteq Listed'
      BY <2>2, <3>1
    <3>5. watch' = "refused" => ~calm'
      BY <2>2 DEF CalmIsWell
    <3> QED BY <3>3, <3>4, <3>5 DEF CalmIsWell
  <2> QED BY <1>4, <2>1, <2>2 DEF ListPids, shfsVars, watchHistory
<1>5. ASSUME NEW p \in Servers, ReadStatus(p) PROVE CalmIsWell'
  <2>1. CASE Unhealthy /\ proc[p] # "running"
    <3>1. ~calm
      BY <1>5, <1>w, <2>1 DEF ReadStatus, CalmIsWell
    <3> QED BY <1>u, <2>1, <3>1
  <2>2. CASE left' = left \ {p}
             /\ UNCHANGED <<proc, served, watch, look, conns, found, expected, lost, calm>>
    BY <1>a, <1>b, <2>2 DEF CalmIsWell
  <2> QED BY <1>5, <2>1, <2>2 DEF ReadStatus, shfsVars, watchHistory
<1>6. CASE JudgeLook
  <2>1. look = "status" /\ look' = "mounts" /\ calm' = calm
        /\ (watch' = "refused" => watch = "refused" \/ (watch = "window" /\ found # expected))
    BY <1>6 DEF JudgeLook, SamePids, watchHistory
  <2>2. watch' = "refused" => ~calm
    BY <1>w, <2>1 DEF CalmIsWell
  <2> QED BY <2>1, <2>2 DEF CalmIsWell
<1>7. CASE UNCHANGED watchVars
  BY <1>a, <1>b, <1>7 DEF watchVars, shfsVars, watchHistory, CalmIsWell
<1> QED BY <1>1, <1>2, <1>3, <1>4, <1>5, <1>6, <1>7 DEF WatchNext, WatchActs

LEMMA WatchInvariant == WatchSpec => []WatchInv
<1>1. WatchInit => WatchInv
  <2> SUFFICES ASSUME WatchInit PROVE WatchInv
    OBVIOUS
  <2>1. WatchTyped
    BY DEF WatchInit, WatchTyped, ServerStates, Places
  <2> QED BY <2>1 DEF WatchInit, WatchInv, LostStay, CalmIsWell
<1>2. WatchInv /\ [WatchNext]_watchVars => WatchInv'
  BY WatchTypes, LostStep, CalmStep DEF WatchInv
<1> QED BY <1>1, <1>2, PTL DEF WatchSpec

(* A look that ends well has lost no shfs of the preflight to what had        *)
(* happened before it began (eject.go:639).                                   *)
THEOREM NoServerIsLost == WatchSpec => []NoneLost
<1>1. WatchInv => NoneLost
  BY DEF WatchInv, LostStay, NoneLost
<1> QED BY <1>1, WatchInvariant, PTL

(* A look at a healthy shfs to which nothing happens is good, whatever share  *)
(* is bound or let go meanwhile (diagnostics.go:106-123).                     *)
THEOREM NoneIsStoppedForNothing == WatchSpec => []NoFalseAlarm
<1>1. WatchInv => NoFalseAlarm
  BY DEF WatchInv, CalmIsWell, NoFalseAlarm
<1> QED BY <1>1, WatchInvariant, PTL

-----------------------------------------------------------------------------
(* Protection.                                                                *)

AfterHolders == {"mounts", "inventory1", "inventory2", "judge", "btrfs", "layout", "eligible"}
AfterMounts == AfterHolders \ {"mounts"}
AfterJudge == {"btrfs", "layout", "eligible"}
Truths == {"configured", "holders", "boot", "elsewhere", "assigned", "pool"}

InspectionTyped ==
  /\ mounts \subseteq UD \cup Else \cup Boot /\ section \in Sections \cup {"none"}
  /\ lasting \subseteq Protections /\ lasting \subseteq Truths
  /\ inventory \subseteq Sections \cup {"none", "empty", "half"}

(* A protection that has lasted has been read, or its read has failed.        *)
ReadSoFar ==
  /\ next = "holders" \/ next \in AfterHolders => "configured" \notin lasting
  /\ next \in AfterHolders => ("holders" \in lasting => "holders" \in unread)
  /\ next \in AfterMounts => "boot" \notin lasting /\ "elsewhere" \notin lasting
  /\ next \notin AfterJudge /\ "assigned" \in lasting => "none" \notin inventory
  /\ next \in AfterJudge /\ "assigned" \in lasting
       => "half" \in inventory /\ inventory \subseteq {"empty", "half"}
  /\ next \in {"layout", "eligible"} => ("pool" \in lasting => "pool" \in unread)

LEMMA Truth ==
  /\ "configured" \in Protections <=> configured
  /\ "holders" \in Protections <=> holders
  /\ "boot" \in Protections <=> mounts \cap Boot # {}
  /\ "elsewhere" \in Protections <=> mounts \cap Else # {}
  /\ "assigned" \in Protections <=> section # "none"
  /\ "pool" \in Protections <=> member
  /\ Protections \subseteq Truths
BY DEF Protections, Truths

LEMMA InspectionTypes == InspectionTyped /\ [InspectionNext]_inspectionVars => InspectionTyped'
<1> SUFFICES ASSUME InspectionTyped, [InspectionNext]_inspectionVars PROVE InspectionTyped'
  OBVIOUS
<1>1. CASE UnraidActs
  <2>1. mounts' \subseteq UD \cup Else \cup Boot /\ section' \in Sections \cup {"none"}
    BY <1>1 DEF UnraidActs, InspectionTyped
  <2>2. inventory' = inventory /\ lasting' \subseteq lasting /\ lasting' \subseteq Protections'
    BY <1>1 DEF UnraidActs
  <2> QED BY <2>1, <2>2 DEF InspectionTyped
<1>2. ASSUME UNCHANGED worldVars PROVE Protections' = Protections
  BY <1>2 DEF worldVars, Protections
<1>3. CASE Inspection
  <2>1. UNCHANGED worldVars /\ (lasting' = lasting \/ lasting' = Protections)
        /\ \/ inventory' \in {inventory, {}}
           \/ \E c \in Contents : inventory' = inventory \cup {c}
    BY <1>3 DEF Inspection, Start, ReadDevice, ReadHolders, ReadDeviceMounts,
                ReadInventory, Judge, ReadBtrfs, ReadLayout, Reads
  <2>2. Contents \subseteq Sections \cup {"none", "empty", "half"}
    BY DEF Contents, InspectionTyped
  <2> QED BY <1>2, <2>1, <2>2, Truth DEF InspectionTyped, worldVars
<1>4. CASE UNCHANGED inspectionVars
  BY <1>2, <1>4 DEF inspectionVars, worldVars, InspectionTyped
<1> QED BY <1>1, <1>3, <1>4 DEF InspectionNext

LEMMA ReadStep ==
  ASSUME ProtectionAssumption, InspectionTyped, ReadSoFar, [InspectionNext]_inspectionVars
  PROVE  ReadSoFar'
<1> USE DEF AfterHolders, AfterMounts, AfterJudge
<1>0. /\ "configured" \in lasting => configured
      /\ "holders" \in lasting => holders
      /\ "boot" \in lasting => mounts \cap Boot # {}
      /\ "elsewhere" \in lasting => mounts \cap Else # {}
      /\ "assigned" \in lasting => section # "none"
      /\ "pool" \in lasting => member
  BY Truth DEF InspectionTyped
<1>1. CASE UnraidActs
  <2>1. lasting' \subseteq lasting /\ UNCHANGED <<next, inventory, unread>>
    BY <1>1 DEF UnraidActs
  <2> QED BY <2>1 DEF ReadSoFar
<1>2. CASE Start
  BY <1>2 DEF Start, ReadSoFar
<1>3. CASE ReadDevice
  <2>1. next = "device" /\ next' \in {"holders", "refused"} /\ UNCHANGED <<lasting, inventory, unread>>
        /\ (next' = "holders" => ~configured)
    <3>1. PICK classes \in SUBSET {"08", "other", ""}, disks \in {1, 2},
               removable \in BOOLEAN, identified \in BOOLEAN :
            Reads("device", "holders",
              Composition(classes)
              \cup (IF configured THEN {"configured_protected"} ELSE {})
              \cup (IF disks > 1 THEN {"multi_lun_usb"} ELSE {})
              \cup (IF removable /\ identified THEN {} ELSE {"inspection_failed"}))
      BY <1>3 DEF ReadDevice
    <3>2. UNCHANGED <<inventory, unread>>
      BY <1>3 DEF ReadDevice
    <3> HIDE DEF AfterHolders, AfterMounts, AfterJudge
    <3> QED BY <3>1, <3>2 DEF Reads
  <2> QED BY <1>0, <2>1 DEF ReadSoFar
<1>4. CASE ReadHolders
  <2>1. next = "holders" /\ next' \in {"mounts", "refused"} /\ UNCHANGED <<lasting, inventory>>
        /\ (next' = "mounts" => ~holders \/ "holders" \in unread')
    BY <1>4 DEF ReadHolders, Reads
  <2> QED BY <1>0, <2>1 DEF ReadSoFar
<1>5. CASE ReadDeviceMounts
  <2>1. next = "mounts" /\ next' \in {"inventory1", "refused"}
        /\ UNCHANGED <<lasting, inventory, unread>>
        /\ (next' = "inventory1" => UNION {MountReasons(m) : m \in mounts} = {})
    BY <1>5 DEF ReadDeviceMounts, Reads
  <2>2. ASSUME NEW m \in mounts, m \in Boot \/ m \in Else PROVE MountReasons(m) # {}
    <3>1. /\ m \in UD => m \notin Else /\ m \notin Boot
          /\ m \in Else => m \notin UD /\ m \notin Boot
      BY DEF ProtectionAssumption
    <3>2. CASE m \in {"/", "/boot"}
      <4>1. MountReasons(m) = {"protected_boot"}
        BY <3>1, <3>2 DEF MountReasons, Boot
      <4> QED BY <4>1
    <3>3. CASE m = "/boot/x"
      <4>1. MountReasons(m) = {"protected_boot", "inspection_failed"}
        BY <3>1, <3>3 DEF MountReasons, Boot
      <4> QED BY <4>1
    <3>4. CASE m \in Else
      <4>1. MountReasons(m) = {"inspection_failed"}
        BY <3>1, <3>4 DEF MountReasons, Boot
      <4> QED BY <4>1
    <3> QED BY <2>2, <3>2, <3>3, <3>4 DEF Boot
  <2>3. next' = "inventory1" => mounts \cap Boot = {} /\ mounts \cap Else = {}
    <3> SUFFICES ASSUME next' = "inventory1", NEW m \in mounts, m \in Boot \/ m \in Else
                 PROVE  FALSE
      OBVIOUS
    <3>1. PICK r : r \in MountReasons(m)
      BY <2>2
    <3> QED BY <2>1, <3>1
  <2> QED BY <1>0, <2>1, <2>3 DEF ReadSoFar
<1>6. CASE ReadInventory
  <2>1. /\ \/ next = "inventory1" /\ next' = "inventory2"
           \/ next = "inventory2" /\ next' = "judge"
        /\ inventory' = inventory \/ \E c \in Contents : inventory' = inventory \cup {c}
        /\ UNCHANGED <<lasting, unread>>
    BY <1>6 DEF ReadInventory, Reads
  <2>2. section # "none" => "none" \notin Contents
    BY DEF Contents
  <2> QED BY <1>0, <2>1, <2>2 DEF ReadSoFar
<1>7. CASE Judge
  <2> DEFINE Reasons(s) == CASE s = "flash" -> {"protected_boot"}
                             [] s \in {"disk1", "parity"} -> {"protected_array"}
                             [] s = "cache" -> {"protected_pool"}
                             [] OTHER -> {}
  <2>1. next = "judge" /\ next' \in {"btrfs", "refused"} /\ UNCHANGED <<lasting, inventory, unread>>
        /\ (next' = "btrfs" => ~(inventory \subseteq {"empty"})
                               /\ UNION {Reasons(s) : s \in inventory} = {})
    BY <1>7 DEF Judge, Reads
  <2>2. \A s \in Sections : Reasons(s) # {}
    BY DEF Sections
  <2> HIDE DEF Reasons
  <2>3. next' = "btrfs" => inventory \cap Sections = {}
    <3> SUFFICES ASSUME next' = "btrfs", NEW s \in inventory, s \in Sections PROVE FALSE
      OBVIOUS
    <3>1. PICK r : r \in Reasons(s)
      BY <2>2
    <3> QED BY <2>1, <3>1
  <2>4. ASSUME next' = "btrfs", "none" \notin inventory
        PROVE  "half" \in inventory /\ inventory \subseteq {"empty", "half"}
    BY <2>1, <2>3, <2>4 DEF InspectionTyped
  <2> QED BY <2>1, <2>4 DEF ReadSoFar
<1>8. CASE ReadBtrfs
  <2>1. next = "btrfs" /\ next' \in {"layout", "refused"} /\ UNCHANGED <<lasting, inventory>>
        /\ unread \subseteq unread' /\ (next' = "layout" => ~member \/ "pool" \in unread')
    BY <1>8 DEF ReadBtrfs, Reads
  <2> QED BY <1>0, <2>1 DEF ReadSoFar
<1>9. CASE ReadLayout
  <2>1. next = "layout" /\ next' \in {"eligible", "refused"}
        /\ UNCHANGED <<lasting, inventory, unread>>
    BY <1>9 DEF ReadLayout, Reads
  <2> QED BY <2>1 DEF ReadSoFar
<1>10. CASE UNCHANGED inspectionVars
  BY <1>10 DEF inspectionVars, ReadSoFar
<1> QED BY <1>1, <1>2, <1>3, <1>4, <1>5, <1>6, <1>7, <1>8, <1>9, <1>10 DEF InspectionNext, Inspection

(* A device protected from the beginning of the inspection to its end is not  *)
(* eligible, whatever is moved meanwhile, unless the read that would tell      *)
(* failed (topology.go:332, :474) or found half an inventory only (:436).      *)
THEOREM ProtectedIsNotEligible ==
  ASSUME ProtectionAssumption
  PROVE  InspectionSpec => []ProtectedIsRefused
<1>1. InspectionInit => InspectionTyped /\ ReadSoFar
  BY DEF InspectionInit, InspectionTyped, ReadSoFar, AfterHolders, AfterMounts, AfterJudge
<1>2. InspectionTyped /\ ReadSoFar /\ [InspectionNext]_inspectionVars => (InspectionTyped /\ ReadSoFar)'
  BY InspectionTypes, ReadStep
<1>3. InspectionTyped /\ ReadSoFar => ProtectedIsRefused
  BY DEF InspectionTyped, ReadSoFar, ProtectedIsRefused, Overlooked, Truths, AfterHolders, AfterMounts,
         AfterJudge
<1> QED BY <1>1, <1>2, <1>3, PTL DEF InspectionSpec
=============================================================================
