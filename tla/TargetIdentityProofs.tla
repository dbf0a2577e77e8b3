------------------------ MODULE TargetIdentityProofs ------------------------
(***************************************************************************)
(* The four properties of TargetIdentity for any number of names, paths and   *)
(* device numbers.  One idea carries them: a sequence number, once gone, does *)
(* not come back, so that what was seen with it before and after held in      *)
(* between.                                                                   *)
(***************************************************************************)
EXTENDS TargetIdentity, TLAPS

Tokens == [name : Names \cup {""}, path : Paths \cup {""}, seq : Nat, dev : Nat]

BornDisks == [name : Names, path : Paths, dev : Nat]
History == born \in Seq(BornDisks)

(* A disk has the name, and its USB device the number, it was born with.      *)
Kernel ==
  /\ disk \in [Names -> Nat] /\ usb \in [Paths -> Nat] /\ node \in [Names -> Nat]
  /\ \A n \in Names : disk[n] # 0 =>
        /\ disk[n] \in 1 .. Len(born) /\ born[disk[n]].name = n
        /\ usb[born[disk[n]].path] = born[disk[n]].dev
        /\ born[disk[n]].path \in Paths /\ born[disk[n]].dev # 0
  /\ \A n \in Names : node[n] # 0 => node[n] \in 1 .. Len(born) /\ born[node[n]].name = n

(* If the token has the path of its disk at all, it has its devnum.           *)
DevFollowsPath ==
  token.seq # 0 /\ born[token.seq].path = token.path => born[token.seq].dev = token.dev

TokenWhen ==
  /\ token \in Tokens /\ token.seq \in 0 .. Len(born) /\ since \in 0 .. Len(born)
  /\ at = "idle" => token = Nothing
  /\ at = "scan" => (for = "list" => token = Nothing) /\ (for # "list" => token.seq <= since)
  /\ token.seq # 0 => token.name \in Names /\ born[token.seq].name = token.name

(* As long as the token's disk is there, that is so, and the handle is its.   *)
TokenHeld == \A n \in Names : disk[n] = token.seq => DevFollowsPath
HandleHeld == at = "opened" \/ (at = "scan" /\ for = "verify") =>
                \A n \in Names : disk[n] # 0 /\ disk[n] = token.seq => handle = token.seq

ScanType ==
  /\ half \in Tokens /\ entries \subseteq Tokens /\ todo \subseteq Names \cup Looks
  /\ half # Nothing => at = "scan" /\ half.name \in Names /\ half.path \in Paths
  /\ at = "scan" \/ at = "verify_usb" \/ entries = {}
  /\ at = "scan" => todo \subseteq Names

(* What a scan has read is true of every disk that was there when it began.   *)
HalfRead == half # Nothing /\ disk[half.name] \in 1 .. since
              => half.path = born[disk[half.name]].path

Read(e) ==
  /\ e.name \in Names /\ e.path \in Paths /\ e.seq \in 0 .. Len(born)
  /\ e.seq # 0 =>
       /\ born[e.seq].name = e.name
       /\ e.seq <= since => e.path = born[e.seq].path
       /\ for # "list" /\ e.seq = token.seq => DevFollowsPath
       /\ for = "verify" /\ e.seq = token.seq => handle = token.seq
AllRead == \A e \in entries : Read(e)

NoneMissed ==
  at = "scan" => \A n \in Names : disk[n] \in 1 .. since =>
    \/ n \in todo
    \/ half # Nothing /\ half.name = n
    \/ \E e \in entries : e.name = n /\ e.path = born[disk[n]].path /\ e.seq = disk[n]

(* The order of the looks: the USB device, and its disks with it, before the  *)
(* nodes udev keeps for them.                                                 *)
Settling ==
  /\ at \in {"settle", "settled"} => todo \subseteq Looks
  /\ at = "settle" /\ "usb" \notin todo =>
       \A n \in Names : /\ disk[n] # token.seq
                        /\ disk[n] # 0 => disk[n] > token.seq \/ born[disk[n]].path # token.path
  /\ at = "settle" /\ "class" \notin todo => "usb" \notin todo
  /\ at = "settle" /\ "node" \notin todo =>
       /\ "usb" \notin todo /\ "class" \notin todo
       /\ \A n \in Names : node[n] # token.seq

Scanning == ScanType /\ HalfRead /\ AllRead /\ NoneMissed
Holding == TokenWhen /\ TokenHeld /\ HandleHeld
Promised == Genuine /\ HandleIsTarget /\ NoSiblingOverlooked /\ SettledIsGone

IdentityInv == History /\ Kernel /\ Holding /\ Scanning /\ Settling /\ Promised

LEMMA EmptySeqIsSeq == \A S : <<>> \in Seq(S)
OBVIOUS

LEMMA AppendFacts ==
  ASSUME NEW S, NEW q \in Seq(S), NEW e \in S
  PROVE  /\ Append(q, e) \in Seq(S) /\ Len(Append(q, e)) = Len(q) + 1
         /\ \A i \in 1 .. Len(q) : Append(q, e)[i] = q[i]
         /\ Append(q, e)[Len(q) + 1] = e
OBVIOUS

LEMMA InitHolds == Init => IdentityInv
<1> SUFFICES ASSUME Init PROVE IdentityInv
  OBVIOUS
<1> USE DEF Init, Nothing
<1>1. History
  BY EmptySeqIsSeq DEF History
<1>2. Kernel
  BY DEF Kernel
<1>3. /\ token = Nothing /\ Nothing \in Tokens /\ token.seq = 0
      /\ Len(born) = 0 /\ at = "idle" /\ since = 0
  BY DEF Tokens
<1>4. TokenWhen
  <2> HIDE DEF Init, Nothing
  <2>0. token \in Tokens
    BY <1>3
  <2>1. token.seq \in 0 .. Len(born) /\ since \in 0 .. Len(born)
    BY <1>3
  <2>2. at # "scan" /\ token.seq = 0
    BY <1>3
  <2> QED BY <1>3, <2>0, <2>1, <2>2 DEF TokenWhen
<1>5. TokenHeld /\ HandleHeld
  BY <1>3 DEF TokenHeld, HandleHeld, DevFollowsPath
<1>6. Scanning
  BY DEF Scanning, ScanType, HalfRead, AllRead, NoneMissed, Tokens
<1>7. Settling /\ Promised
  BY DEF Settling, Promised, Genuine, HandleIsTarget, NoSiblingOverlooked, SettledIsGone,
         Identified
<1> QED BY <1>1, <1>2, <1>4, <1>5, <1>6, <1>7 DEF IdentityInv, Holding

-----------------------------------------------------------------------------
(* Kernel steps: the numbers they hand out are new, the disks they take away  *)
(* do not come back.                                                          *)

(* A disk with a new number comes, from an earlier one or not.                *)
LEMMA NewDiskHolds ==
  ASSUME IdentityInv, NEW n \in Names, NEW one \in BornDisks,
         born' = Append(born, one), disk' = [disk EXCEPT ![n] = Len(born) + 1],
         UNCHANGED <<usb, node, at, for, since, todo, half, entries, token, handle>>,
         one.name = n, one.dev = usb[one.path], one.dev # 0
  PROVE  IdentityInv'
<1> DEFINE last == Len(born)
<1>1. /\ History /\ Kernel /\ Holding /\ Scanning /\ Settling /\ Promised
  BY DEF IdentityInv
<1>2. last \in Nat
  BY <1>1 DEF History
<1>3. /\ \A s \in 1 .. last : born'[s] = born[s]
      /\ Len(born') = last + 1
      /\ born'[last + 1] = one
      /\ History'
  BY <1>1, AppendFacts DEF History
<1>4. /\ disk' = [disk EXCEPT ![n] = last + 1]
      /\ UNCHANGED <<usb, node, at, for, since, todo, half, entries, token, handle>>
  OBVIOUS
<1> HIDE DEF last
<1> one.path \in Paths
  BY DEF BornDisks
<1>5. /\ disk \in [Names -> Nat] /\ disk'[n] = last + 1
      /\ \A m \in Names : m # n => disk'[m] = disk[m] /\ disk[m] \in 0 .. last
      /\ \A m \in Names : node[m] \in 0 .. last
  BY <1>1, <1>2, <1>4 DEF Kernel, last
<1>6. Kernel'
  <2>1. ASSUME NEW m \in Names, disk'[m] # 0
        PROVE  /\ disk'[m] \in 1 .. Len(born') /\ born'[disk'[m]].name = m
               /\ usb'[born'[disk'[m]].path] = born'[disk'[m]].dev
               /\ born'[disk'[m]].path \in Paths /\ born'[disk'[m]].dev # 0
    <3>1. CASE m = n
      BY <1>2, <1>3, <1>4, <1>5, <3>1
    <3>2. CASE m # n
      BY <1>1, <1>2, <1>3, <1>4, <1>5, <2>1, <3>2 DEF Kernel
    <3> QED BY <3>1, <3>2
  <2>2. disk' \in [Names -> Nat] /\ usb' \in [Paths -> Nat] /\ node' \in [Names -> Nat]
    BY <1>1, <1>2, <1>4 DEF Kernel
  <2>3. \A m \in Names : node'[m] # 0 =>
          node'[m] \in 1 .. Len(born') /\ born'[node'[m]].name = m
    BY <1>1, <1>2, <1>3, <1>4, <1>5 DEF Kernel
  <2> QED BY <2>1, <2>2, <2>3 DEF Kernel
<1>7. TokenWhen'
  BY <1>1, <1>2, <1>3, <1>4 DEF Holding, TokenWhen, last
<1>8. DevFollowsPath' <=> DevFollowsPath
  BY <1>1, <1>2, <1>3, <1>4 DEF Holding, TokenWhen, DevFollowsPath, last
<1>9. token.seq \in 0 .. last /\ since \in 0 .. last
  BY <1>1 DEF Holding, TokenWhen, last
<1>10. TokenHeld'
  BY <1>1, <1>2, <1>4, <1>5, <1>8, <1>9 DEF Holding, TokenHeld
<1>11. HandleHeld'
  BY <1>1, <1>2, <1>4, <1>5, <1>9 DEF Holding, HandleHeld
<1>12. ScanType' /\ HalfRead'
  <2>1. ScanType'
    BY <1>1, <1>4 DEF Scanning, ScanType
  <2>2. HalfRead'
    BY <1>1, <1>2, <1>3, <1>4, <1>5, <1>9 DEF Scanning, ScanType, HalfRead
  <2> QED BY <2>1, <2>2
<1>13. AllRead'
  <2>1. ASSUME NEW e \in entries PROVE Read(e)'
    <3>1. Read(e)
      BY <1>1 DEF Scanning, AllRead
    <3> QED BY <3>1, <1>2, <1>3, <1>4, <1>8, <1>9 DEF Read, last
  <2> QED BY <2>1, <1>4 DEF AllRead
<1>14. NoneMissed'
  <2>1. ASSUME at = "scan", NEW m \in Names, disk'[m] \in 1 .. since
        PROVE  \/ m \in todo
               \/ half # Nothing /\ half.name = m
               \/ \E e \in entries : e.name = m /\ e.path = born'[disk'[m]].path /\ e.seq = disk'[m]
    <3>1. m # n /\ disk'[m] = disk[m] /\ born'[disk[m]] = born[disk[m]]
      BY <1>2, <1>3, <1>5, <1>9, <2>1
    <3>2. disk[m] \in 1 .. since /\ NoneMissed
      BY <1>1, <2>1, <3>1 DEF Scanning
    <3>3. \/ m \in todo
          \/ half # Nothing /\ half.name = m
          \/ \E e \in entries : e.name = m /\ e.path = born[disk[m]].path /\ e.seq = disk[m]
      BY <2>1, <3>2 DEF NoneMissed
    <3> QED BY <3>1, <3>3
  <2> QED BY <2>1, <1>4 DEF NoneMissed
<1>15. Settling'
  <2>1. ASSUME at = "settle", "usb" \notin todo, NEW m \in Names
        PROVE  /\ disk'[m] # token.seq
               /\ disk'[m] # 0 => disk'[m] > token.seq \/ born'[disk'[m]].path # token.path
    <3>1. CASE m = n
      BY <1>2, <1>5, <1>9, <3>1
    <3>2. CASE m # n
      BY <1>1, <1>2, <1>3, <1>5, <1>9, <2>1, <3>2 DEF Settling
    <3> QED BY <3>1, <3>2
  <2> QED BY <2>1, <1>1, <1>4 DEF Settling
<1>16. Genuine' /\ HandleIsTarget'
  BY <1>1, <1>2, <1>3, <1>4 DEF Promised, Genuine, HandleIsTarget, last
<1>17. NoSiblingOverlooked'
  BY <1>1, <1>2, <1>3, <1>4, <1>5, <1>9 DEF Promised, NoSiblingOverlooked
<1>18. SettledIsGone'
  <2>1. ASSUME at = "settled", NEW m \in Names
        PROVE  /\ disk'[m] # token.seq /\ node[m] # token.seq
               /\ disk'[m] # 0 => disk'[m] > token.seq \/ born'[disk'[m]].path # token.path
    <3>1. CASE m = n
      BY <1>1, <1>2, <1>5, <1>9, <2>1, <3>1 DEF Promised, SettledIsGone
    <3>2. CASE m # n
      BY <1>1, <1>2, <1>3, <1>5, <1>9, <2>1, <3>2 DEF Promised, SettledIsGone
    <3> QED BY <3>1, <3>2
  <2> QED BY <2>1, <1>4 DEF SettledIsGone
<1> QED BY <1>3, <1>6, <1>7, <1>10, <1>11, <1>12, <1>13, <1>14, <1>15, <1>16, <1>17, <1>18
        DEF IdentityInv, Holding, Scanning, Promised

LEMMA AddDiskHolds ==
  ASSUME IdentityInv, KernelActs, NEW n \in Names, NEW p \in Paths, AddDisk(n, p)
  PROVE  IdentityInv'
<1> DEFINE one == [name |-> n, path |-> p, dev |-> usb[p]]
<1>1. one \in BornDisks /\ one.name = n /\ one.dev = usb[one.path] /\ one.dev # 0
  BY DEF IdentityInv, Kernel, BornDisks, AddDisk
<1>2. /\ born' = Append(born, one) /\ disk' = [disk EXCEPT ![n] = Len(born) + 1]
      /\ UNCHANGED <<usb, node, at, for, since, todo, half, entries, token, handle>>
  BY DEF AddDisk, KernelActs
<1> HIDE DEF one
<1> QED BY <1>1, <1>2, NewDiskHolds

LEMMA ChangeMediumHolds ==
  ASSUME IdentityInv, KernelActs, NEW n \in Names, ChangeMedium(n)
  PROVE  IdentityInv'
<1> DEFINE one == born[disk[n]]
<1>0. History /\ Kernel /\ disk[n] # 0
  BY DEF IdentityInv, ChangeMedium
<1>1. one \in BornDisks /\ one.name = n /\ one.dev = usb[one.path] /\ one.dev # 0
  <2>1. disk[n] \in 1 .. Len(born)
    BY <1>0 DEF Kernel
  <2>2. one \in BornDisks
    BY <1>0, <2>1 DEF History
  <2> QED BY <1>0, <2>2 DEF Kernel
<1>2. /\ born' = Append(born, one) /\ disk' = [disk EXCEPT ![n] = Len(born) + 1]
      /\ UNCHANGED <<usb, node, at, for, since, todo, half, entries, token, handle>>
  BY DEF ChangeMedium, KernelActs
<1> HIDE DEF one
<1> QED BY <1>1, <1>2, NewDiskHolds

LEMMA AttachUsbHolds ==
  ASSUME IdentityInv, KernelActs, NEW p \in Paths, AttachUsb(p)
  PROVE  IdentityInv'
<1>1. UNCHANGED <<born, disk, node, at, for, since, todo, half, entries, token, handle>>
  BY DEF AttachUsb, KernelActs
<1>2. History /\ Kernel /\ Holding /\ Scanning /\ Settling /\ Promised
  BY DEF IdentityInv
<1>3. Kernel'
  <2>1. usb' \in [Paths -> Nat]
    BY <1>2, IdentityAssumption, ZenonT(60) DEF AttachUsb, Kernel
  <2>2. ASSUME NEW q \in Paths, usb[q] # 0 PROVE usb'[q] = usb[q]
    BY <1>2, <2>2 DEF AttachUsb, Kernel
  <2> QED BY <1>1, <1>2, <2>1, <2>2 DEF Kernel
<1> QED BY <1>1, <1>2, <1>3
        DEF IdentityInv, History, Holding, TokenWhen, TokenHeld, HandleHeld, DevFollowsPath,
            Scanning, ScanType, HalfRead, AllRead, Read, NoneMissed, Settling, Promised,
            Genuine, HandleIsTarget, NoSiblingOverlooked, SettledIsGone

LEMMA DetachUsbHolds ==
  ASSUME IdentityInv, KernelActs, NEW p \in Paths, DetachUsb(p)
  PROVE  IdentityInv'
<1>1. UNCHANGED <<born, disk, node, at, for, since, todo, half, entries, token, handle>>
  BY DEF DetachUsb, KernelActs
<1>2. History /\ Kernel /\ Holding /\ Scanning /\ Settling /\ Promised
  BY DEF IdentityInv
<1>3. Kernel'
  <2>1. usb' \in [Paths -> Nat] /\ \A q \in Paths : q # p => usb'[q] = usb[q]
    BY <1>2 DEF DetachUsb, Kernel
  <2>2. \A n \in Names : disk[n] # 0 => born[disk[n]].path # p
    BY DEF DetachUsb
  <2> QED BY <1>1, <1>2, <2>1, <2>2 DEF Kernel
<1> QED BY <1>1, <1>2, <1>3
        DEF IdentityInv, History, Holding, TokenWhen, TokenHeld, HandleHeld, DevFollowsPath,
            Scanning, ScanType, HalfRead, AllRead, Read, NoneMissed, Settling, Promised,
            Genuine, HandleIsTarget, NoSiblingOverlooked, SettledIsGone

LEMMA RemoveDiskHolds ==
  ASSUME IdentityInv, KernelActs, NEW n \in Names, RemoveDisk(n)
  PROVE  IdentityInv'
<1>1. UNCHANGED <<born, usb, node, at, for, since, todo, half, entries, token, handle>>
  BY DEF RemoveDisk, KernelActs
<1>2. History /\ Kernel /\ Holding /\ Scanning /\ Settling /\ Promised
  BY DEF IdentityInv
<1>3. /\ disk' \in [Names -> Nat] /\ disk'[n] = 0
      /\ \A m \in Names : m # n => disk'[m] = disk[m]
  BY <1>2 DEF RemoveDisk, Kernel
<1>4. Kernel'
  BY <1>1, <1>2, <1>3 DEF Kernel
<1>5. TokenWhen' /\ ScanType' /\ AllRead' /\ Genuine' /\ HandleIsTarget'
  BY <1>1, <1>2 DEF Holding, TokenWhen, Scanning, ScanType, AllRead, Read, DevFollowsPath,
                    Promised, Genuine, HandleIsTarget
<1>6. TokenHeld' /\ HandleHeld'
  BY <1>1, <1>2, <1>3 DEF Holding, TokenHeld, HandleHeld, DevFollowsPath
<1>7. HalfRead' /\ NoneMissed'
  BY <1>1, <1>2, <1>3 DEF Scanning, ScanType, HalfRead, NoneMissed
<1>8. at \in {"settle", "settled"} => token.seq # 0
  BY <1>2 DEF Promised, Genuine, Identified
<1>9. Settling' /\ NoSiblingOverlooked' /\ SettledIsGone'
  BY <1>1, <1>2, <1>3, <1>8 DEF Promised, Settling, NoSiblingOverlooked, SettledIsGone
<1>10. History'
  BY <1>1, <1>2 DEF History
<1> QED BY <1>4, <1>5, <1>6, <1>7, <1>9, <1>10 DEF IdentityInv, Holding, Scanning, Promised

LEMMA UdevFollowsHolds ==
  ASSUME IdentityInv, KernelActs, NEW n \in Names, UdevFollows(n)
  PROVE  IdentityInv'
<1>1. UNCHANGED <<born, usb, disk, at, for, since, todo, half, entries, token, handle>>
  BY DEF UdevFollows, KernelActs
<1>2. History /\ Kernel /\ Holding /\ Scanning /\ Settling /\ Promised
  BY DEF IdentityInv
<1>3. /\ node' \in [Names -> Nat] /\ node'[n] = disk[n]
      /\ \A m \in Names : m # n => node'[m] = node[m]
  BY <1>2 DEF UdevFollows, Kernel
<1>4. Kernel'
  BY <1>1, <1>2, <1>3 DEF Kernel
<1>5. Settling' /\ SettledIsGone'
  BY <1>1, <1>2, <1>3 DEF Settling, Promised, SettledIsGone
<1> QED BY <1>1, <1>2, <1>4, <1>5
        DEF IdentityInv, History, Holding, TokenWhen, TokenHeld, HandleHeld, DevFollowsPath,
            Scanning, ScanType, HalfRead, AllRead, Read, NoneMissed, Promised,
            Genuine, HandleIsTarget, NoSiblingOverlooked

LEMMA KernelHolds == IdentityInv /\ KernelActs => IdentityInv'
BY AddDiskHolds, ChangeMediumHolds, AttachUsbHolds, DetachUsbHolds, RemoveDiskHolds,
   UdevFollowsHolds DEF KernelActs, KernelStep

-----------------------------------------------------------------------------
(* Steps of the session.                                                      *)

(* Whatever forgets the scan and keeps the token needs to account only for    *)
(* what it promises.                                                          *)
LEMMA StopHolds ==
  ASSUME IdentityInv, NEW step, Stop(step), UNCHANGED <<token, handle>>,
         step \notin {"idle", "scan", "opened", "settle"},
         Genuine', HandleIsTarget', NoSiblingOverlooked', SettledIsGone'
  PROVE  IdentityInv'
<1>1. /\ UNCHANGED <<born, disk, usb, node, for, since, token, handle>>
      /\ at' = step /\ todo' = {} /\ entries' = {} /\ half' = Nothing
  BY DEF Stop, kernelVars
<1>2. History /\ Kernel /\ Holding /\ Scanning
  BY DEF IdentityInv
<1>3. History' /\ Kernel'
  BY <1>1, <1>2 DEF History, Kernel
<1>4. Holding'
  BY <1>1, <1>2 DEF Holding, TokenWhen, TokenHeld, HandleHeld, DevFollowsPath
<1>5. Nothing \in Tokens
  BY DEF Nothing, Tokens
<1>6. Scanning' /\ Settling'
  BY <1>1, <1>5 DEF Scanning, ScanType, HalfRead, AllRead, NoneMissed, Settling, Looks
<1> QED BY <1>3, <1>4, <1>6 DEF IdentityInv, Promised

LEMMA StartScanHolds ==
  ASSUME IdentityInv, NEW purpose, StartScan(purpose)
  PROVE  IdentityInv'
<1>1. /\ UNCHANGED <<born, disk, usb, node, token, handle>>
      /\ at' = "scan" /\ for' = purpose /\ since' = Len(born)
      /\ todo' = {n \in Names : disk[n] # 0} /\ half' = Nothing /\ entries' = {}
  BY DEF StartScan, kernelVars
<1>2. History /\ Kernel /\ Holding /\ Scanning
  BY DEF IdentityInv
<1>3. History' /\ Kernel'
  BY <1>1, <1>2 DEF History, Kernel
<1>4. (purpose = "list" => at = "idle") /\ (purpose = "verify" => at = "opened")
  BY DEF StartScan, NextScan
<1>5. Holding'
  <2>1. Len(born) \in Nat
    BY <1>2 DEF History
  <2>2. TokenWhen'
    BY <1>1, <1>2, <1>4, <2>1 DEF Holding, TokenWhen
  <2>3. TokenHeld' /\ HandleHeld'
    BY <1>1, <1>2, <1>4 DEF Holding, TokenHeld, HandleHeld, DevFollowsPath
  <2> QED BY <2>2, <2>3 DEF Holding
<1>6. Nothing \in Tokens
  BY DEF Nothing, Tokens
<1>7. Scanning'
  BY <1>1, <1>6 DEF Scanning, ScanType, HalfRead, AllRead, NoneMissed
<1>8. Settling' /\ Promised'
  BY <1>1 DEF Settling, Promised, Genuine, Identified, HandleIsTarget, NoSiblingOverlooked,
              SettledIsGone
<1> QED BY <1>3, <1>5, <1>7, <1>8 DEF IdentityInv

(* The steps of a scan leave the rest as it was.                              *)
LEMMA ScanStepHolds ==
  ASSUME IdentityInv, at = "scan", UNCHANGED <<kernelVars, at, for, since, token, handle>>,
         ScanType', HalfRead', AllRead', NoneMissed'
  PROVE  IdentityInv'
<1>1. UNCHANGED <<born, disk, usb, node, at, for, since, token, handle>>
  BY DEF kernelVars
<1>2. History /\ Kernel /\ Holding
  BY DEF IdentityInv
<1>3. History' /\ Kernel' /\ Holding'
  BY <1>1, <1>2 DEF History, Kernel, Holding, TokenWhen, TokenHeld, HandleHeld, DevFollowsPath
<1>4. Settling' /\ Promised'
  BY <1>1 DEF Settling, Promised, Genuine, Identified, HandleIsTarget, NoSiblingOverlooked,
              SettledIsGone
<1> QED BY <1>3, <1>4 DEF IdentityInv, Scanning

LEMMA ReadPathHolds == IdentityInv /\ ReadPath => IdentityInv'
<1> SUFFICES ASSUME IdentityInv, ReadPath PROVE IdentityInv'
  OBVIOUS
<1>1. PICK n \in todo :
        /\ todo' = todo \ {n}
        /\ half' = IF disk[n] = 0 THEN Nothing
                   ELSE [Nothing EXCEPT !.name = n, !.path = born[disk[n]].path]
  BY DEF ReadPath
<1>2. /\ at = "scan" /\ half = Nothing
      /\ UNCHANGED <<kernelVars, at, for, since, entries, token, handle>>
      /\ UNCHANGED <<born, disk>>
  BY DEF ReadPath, kernelVars
<1>3. Kernel /\ Holding /\ Scanning
  BY DEF IdentityInv
<1>4. n \in Names
  BY <1>2, <1>3 DEF Scanning, ScanType
<1>5. CASE disk[n] = 0
  <2>1. half' = Nothing
    BY <1>1, <1>5
  <2>2. ScanType' /\ HalfRead' /\ AllRead' /\ NoneMissed'
    BY <1>1, <1>2, <1>3, <1>5, <2>1
       DEF Scanning, ScanType, HalfRead, AllRead, Read, NoneMissed, DevFollowsPath
  <2> QED BY <1>2, <2>2, ScanStepHolds
<1>6. CASE disk[n] # 0
  <2>1. born[disk[n]].path \in Paths
    BY <1>3, <1>4, <1>6 DEF Kernel
  <2>2. half' = [name |-> n, path |-> born[disk[n]].path, seq |-> 0, dev |-> 0]
    BY <1>1, <1>6 DEF Nothing
  <2>3. half' \in Tokens /\ half'.name = n /\ half'.path = born[disk[n]].path
    BY <1>4, <2>1, <2>2 DEF Tokens
  <2>4. half' # Nothing
    BY <1>4, <2>2, IdentityAssumption DEF Nothing
  <2>5. ScanType'
    BY <1>1, <1>2, <1>3, <1>4, <2>1, <2>3 DEF Scanning, ScanType
  <2>6. HalfRead' /\ AllRead'
    BY <1>2, <1>3, <2>3 DEF Scanning, HalfRead, AllRead, Read, DevFollowsPath
  <2>7. NoneMissed'
    BY <1>1, <1>2, <1>3, <2>3, <2>4 DEF Scanning, NoneMissed
  <2> QED BY <1>2, <2>5, <2>6, <2>7, ScanStepHolds
<1> QED BY <1>5, <1>6

LEMMA ReadAttributesHolds == IdentityInv /\ ReadAttributes => IdentityInv'
<1> SUFFICES ASSUME IdentityInv, ReadAttributes PROVE IdentityInv'
  OBVIOUS
<1> DEFINE e == [half EXCEPT !.seq = disk[half.name]]
<1>1. /\ at = "scan" /\ half # Nothing /\ half' = Nothing
      /\ UNCHANGED <<kernelVars, at, for, since, todo, token, handle>>
      /\ UNCHANGED <<born, disk>>
      /\ entries' = entries \cup {e} \/ (disk[half.name] = 0 /\ entries' = entries)
  BY DEF ReadAttributes, kernelVars
<1>2. Kernel /\ Holding /\ Scanning
  BY DEF IdentityInv
<1>3. half \in Tokens /\ half.name \in Names /\ half.path \in Paths /\ disk[half.name] \in Nat
  BY <1>1, <1>2 DEF Scanning, ScanType, Kernel
<1>4. /\ e \in Tokens /\ e.name = half.name /\ e.path = half.path /\ e.seq = disk[half.name]
  BY <1>3 DEF Tokens
<1> HIDE DEF e
<1>5. Nothing \in Tokens
  BY DEF Nothing, Tokens
<1>6. ScanType' /\ HalfRead'
  BY <1>1, <1>2, <1>4, <1>5 DEF Scanning, ScanType, HalfRead
<1>7. Read(e)
  <2>1. e.seq \in 0 .. Len(born)
    BY <1>2, <1>3, <1>4 DEF Kernel, Holding, TokenWhen
  <2>2. ASSUME e.seq # 0 PROVE /\ born[e.seq].name = e.name
                               /\ e.seq <= since => e.path = born[e.seq].path
    BY <1>1, <1>2, <1>3, <1>4, <2>1, <2>2 DEF Kernel, Scanning, HalfRead
  <2>3. e.seq # 0 /\ for # "list" /\ e.seq = token.seq => DevFollowsPath
    BY <1>2, <1>3, <1>4 DEF Holding, TokenHeld
  <2>4. e.seq # 0 /\ for = "verify" /\ e.seq = token.seq => handle = token.seq
    BY <1>1, <1>2, <1>3, <1>4 DEF Holding, HandleHeld
  <2> QED BY <1>3, <1>4, <2>1, <2>2, <2>3, <2>4 DEF Read
<1>8. AllRead'
  <2>1. \A r \in entries' : r = e \/ r \in entries
    BY <1>1
  <2>2. \A r \in entries' : Read(r)
    BY <1>2, <1>7, <2>1 DEF Scanning, AllRead
  <2> QED BY <1>1, <2>2 DEF AllRead, Read, DevFollowsPath
<1>9. NoneMissed'
  <2>1. ASSUME NEW n \in Names, disk[n] \in 1 .. since
        PROVE  \/ n \in todo
               \/ \E r \in entries' : r.name = n /\ r.path = born[disk[n]].path /\ r.seq = disk[n]
    <3>1. CASE n = half.name
      <4>1. e \in entries'
        BY <1>1, <2>1, <3>1
      <4> QED BY <1>1, <1>2, <1>4, <2>1, <3>1, <4>1 DEF Scanning, HalfRead
    <3>2. CASE n # half.name
      BY <1>1, <1>2, <2>1, <3>2 DEF Scanning, NoneMissed
    <3> QED BY <3>1, <3>2
  <2> QED BY <1>1, <2>1 DEF NoneMissed
<1> QED BY <1>1, <1>6, <1>8, <1>9, ScanStepHolds

(* The list may sign a chimera; if its disk is the one on the path, though,   *)
(* the devnum it reads is that disk's.                                        *)
LEMMA ListHolds == IdentityInv /\ List => IdentityInv'
<1> SUFFICES ASSUME IdentityInv, List PROVE IdentityInv'
  OBVIOUS
<1>1. PICK e \in entries : token' = [e EXCEPT !.dev = usb[e.path]]
  BY DEF List
<1>2. /\ at = "scan" /\ at' = "listed" /\ todo' = {} /\ entries' = {} /\ half' = Nothing
      /\ UNCHANGED <<born, disk, usb, node, for, since, handle>>
  BY DEF List, Scanned, Stop, kernelVars
<1>3. History /\ Kernel /\ Holding /\ Scanning
  BY DEF IdentityInv
<1>4. Read(e) /\ e \in Tokens /\ usb[e.path] \in Nat
  BY <1>3 DEF Scanning, AllRead, ScanType, Read, Kernel
<1>5. /\ token' \in Tokens /\ token'.seq = e.seq /\ token'.name = e.name
      /\ token'.path = e.path /\ token'.dev = usb[e.path]
  BY <1>1, <1>4 DEF Tokens
<1>6. History' /\ Kernel'
  BY <1>2, <1>3 DEF History, Kernel
<1>7. TokenWhen' /\ HandleHeld'
  BY <1>2, <1>3, <1>4, <1>5 DEF Holding, TokenWhen, HandleHeld, Read
<1>8. TokenHeld'
  <2>1. ASSUME NEW n \in Names, disk[n] = e.seq, e.seq # 0, born[e.seq].path = e.path
        PROVE  born[e.seq].dev = usb[e.path]
    BY <1>3, <2>1 DEF Kernel
  <2> QED BY <1>2, <1>5, <2>1 DEF TokenHeld, DevFollowsPath
<1>9. Nothing \in Tokens
  BY DEF Nothing, Tokens
<1>10. Scanning' /\ Settling' /\ Promised'
  BY <1>2, <1>9 DEF Scanning, ScanType, HalfRead, AllRead, NoneMissed, Settling, Looks, Promised,
                    Genuine, Identified, HandleIsTarget, NoSiblingOverlooked, SettledIsGone
<1> QED BY <1>6, <1>7, <1>8, <1>10 DEF IdentityInv, Holding

(* The heart of it: an entry with the token's number was read when its disk,  *)
(* there since before the scan, was there still.                              *)
LEMMA SingleIsGenuine ==
  ASSUME IdentityInv, at = "scan", for # "list", Single
  PROVE  /\ token.seq \in 1 .. Len(born)
         /\ born[token.seq] = [name |-> token.name, path |-> token.path, dev |-> token.dev]
         /\ for = "verify" => handle = token.seq
<1>1. PICK e \in entries : SameBlock(e)
  BY DEF Single
<1>2. History /\ Holding /\ Scanning
  BY DEF IdentityInv
<1>3. Read(e) /\ e.seq # 0 /\ e.seq = token.seq /\ e.path = token.path /\ e.name = token.name
  BY <1>1, <1>2 DEF Scanning, AllRead, SameBlock
<1>4. token.seq <= since /\ token.seq \in 1 .. Len(born)
  BY <1>2, <1>3 DEF Holding, TokenWhen
<1>5. born[token.seq].name = token.name /\ born[token.seq].path = token.path
  BY <1>3, <1>4 DEF Read
<1>6. born[token.seq].dev = token.dev
  BY <1>3, <1>5 DEF Read, DevFollowsPath
<1>7. born[token.seq] \in BornDisks
  BY <1>2, <1>4 DEF History
<1>8. born[token.seq] = [name |-> token.name, path |-> token.path, dev |-> token.dev]
  BY <1>5, <1>6, <1>7 DEF BornDisks
<1> QED BY <1>3, <1>4, <1>8 DEF Read

LEMMA ResolveHolds == IdentityInv /\ Resolve => IdentityInv'
<1> SUFFICES ASSUME IdentityInv, Resolve PROVE IdentityInv'
  OBVIOUS
<1> DEFINE step == IF for = "resolve" THEN "resolved" ELSE "rollback_approved"
<1>1. /\ at = "scan" /\ for # "list" /\ Single /\ Stop(step) /\ UNCHANGED <<token, handle>>
  BY DEF Resolve, Scanned
<1>2. at' = step /\ UNCHANGED <<born, token>>
  BY <1>1 DEF Stop, kernelVars
<1>3. step \in {"resolved", "rollback_approved"}
  OBVIOUS
<1> HIDE DEF step
<1>4. Genuine'
  BY <1>1, <1>2, SingleIsGenuine DEF Genuine
<1>5. HandleIsTarget' /\ NoSiblingOverlooked' /\ SettledIsGone'
  BY <1>2, <1>3 DEF HandleIsTarget, NoSiblingOverlooked, SettledIsGone
<1> QED BY <1>1, <1>3, <1>4, <1>5, StopHolds

LEMMA OpenHandleHolds == IdentityInv /\ OpenHandle => IdentityInv'
<1> SUFFICES ASSUME IdentityInv, OpenHandle PROVE IdentityInv'
  OBVIOUS
<1>1. /\ at = "resolved" /\ at' = "opened" /\ todo' = {} /\ entries' = {} /\ half' = Nothing
      /\ UNCHANGED <<born, disk, usb, node, for, since, token>>
      /\ handle' = disk[token.name]
  BY DEF OpenHandle, Stop, kernelVars
<1>2. History /\ Kernel /\ Holding /\ Genuine
  BY DEF IdentityInv, Promised
<1>3. History' /\ Kernel'
  BY <1>1, <1>2 DEF History, Kernel
<1>4. TokenWhen' /\ TokenHeld'
  BY <1>1, <1>2 DEF Holding, TokenWhen, TokenHeld, DevFollowsPath
<1>5. HandleHeld'
  <2>1. ASSUME NEW n \in Names, disk[n] # 0, disk[n] = token.seq PROVE disk[token.name] = token.seq
    BY <1>2, <2>1 DEF Kernel, Holding, TokenWhen
  <2> QED BY <1>1, <2>1 DEF HandleHeld
<1>6. Nothing \in Tokens
  BY DEF Nothing, Tokens
<1>7. Scanning' /\ Settling'
  BY <1>1, <1>6 DEF Scanning, ScanType, HalfRead, AllRead, NoneMissed, Settling, Looks
<1>8. Promised'
  BY <1>1, <1>2 DEF Promised, Genuine, Identified, HandleIsTarget, NoSiblingOverlooked,
                    SettledIsGone
<1> QED BY <1>3, <1>4, <1>5, <1>7, <1>8 DEF IdentityInv, Holding

LEMMA VerifyBlockHolds == IdentityInv /\ VerifyBlock => IdentityInv'
<1> SUFFICES ASSUME IdentityInv, VerifyBlock PROVE IdentityInv'
  OBVIOUS
<1>1. /\ at = "scan" /\ for = "verify" /\ Single /\ at' = "verify_usb"
      /\ todo = {} /\ half = Nothing
      /\ UNCHANGED <<born, disk, usb, node, for, since, todo, half, entries, token, handle>>
  BY DEF VerifyBlock, Scanned, kernelVars
<1>2. History /\ Kernel /\ Holding /\ Scanning
  BY DEF IdentityInv
<1>3. History' /\ Kernel' /\ Holding'
  BY <1>1, <1>2 DEF History, Kernel, Holding, TokenWhen, TokenHeld, HandleHeld, DevFollowsPath
<1>4. Scanning' /\ Settling'
  BY <1>1, <1>2 DEF Scanning, ScanType, HalfRead, AllRead, Read, DevFollowsPath, NoneMissed,
                    Settling
<1>5. Genuine' /\ HandleIsTarget' /\ SettledIsGone'
  BY <1>1, SingleIsGenuine DEF Genuine, HandleIsTarget, SettledIsGone
<1>6. NoSiblingOverlooked'
  <2>1. PICK e \in entries : SameBlock(e) /\ Roots(token.path) = {e}
    BY <1>1 DEF Single
  <2>2. ASSUME NEW n \in Names, disk[n] \in 1 .. since, born[disk[n]].path = token.path
        PROVE  disk[n] = token.seq
    <3>1. PICK r \in entries : r.name = n /\ r.path = born[disk[n]].path /\ r.seq = disk[n]
      BY <1>1, <1>2, <2>2 DEF Scanning, NoneMissed
    <3>2. r \in Roots(token.path)
      BY <2>2, <3>1 DEF Roots
    <3> QED BY <2>1, <3>1, <3>2 DEF SameBlock
  <2> QED BY <1>1, <2>2 DEF NoSiblingOverlooked
<1> QED BY <1>3, <1>4, <1>5, <1>6 DEF IdentityInv, Promised

LEMMA EndHolds ==
  IdentityInv /\ (VerifyUsb \/ Refuse \/ Settled \/ SettleTimeout) => IdentityInv'
<1> SUFFICES ASSUME IdentityInv, VerifyUsb \/ Refuse \/ Settled \/ SettleTimeout
             PROVE  IdentityInv'
  OBVIOUS
<1>1. Genuine /\ HandleIsTarget /\ NoSiblingOverlooked /\ Settling
  BY DEF IdentityInv, Promised
<1>2. CASE VerifyUsb
  <2>1. /\ at = "verify_usb" /\ at' = "verified" /\ Stop("verified")
        /\ UNCHANGED <<born, disk, usb, node, since, token, handle>>
    BY <1>2 DEF VerifyUsb, Stop, kernelVars
  <2>2. Genuine' /\ HandleIsTarget' /\ NoSiblingOverlooked' /\ SettledIsGone'
    BY <1>1, <2>1 DEF Genuine, Identified, HandleIsTarget, NoSiblingOverlooked, SettledIsGone
  <2> QED BY <2>1, <2>2, StopHolds
<1>3. CASE Refuse \/ SettleTimeout
  <2>1. at' = "refused" /\ Stop("refused") /\ UNCHANGED <<token, handle>>
    BY <1>3 DEF Refuse, SettleTimeout, Stop
  <2>2. Genuine' /\ HandleIsTarget' /\ NoSiblingOverlooked' /\ SettledIsGone'
    BY <2>1 DEF Genuine, Identified, HandleIsTarget, NoSiblingOverlooked, SettledIsGone
  <2> QED BY <2>1, <2>2, StopHolds
<1>4. CASE Settled
  <2>1. /\ at = "settle" /\ todo = {} /\ at' = "settled" /\ Stop("settled")
        /\ UNCHANGED <<born, disk, usb, node, since, token, handle>>
    BY <1>4 DEF Settled, Stop, kernelVars
  <2>2. Genuine' /\ HandleIsTarget' /\ NoSiblingOverlooked'
    BY <1>1, <2>1 DEF Genuine, Identified, HandleIsTarget, NoSiblingOverlooked
  <2>3. SettledIsGone'
    BY <1>1, <2>1 DEF Settling, SettledIsGone
  <2> QED BY <2>1, <2>2, <2>3, StopHolds
<1> QED BY <1>2, <1>3, <1>4

LEMMA SettleStepHolds == IdentityInv /\ (WriteRemove \/ Look) => IdentityInv'
<1> SUFFICES ASSUME IdentityInv, WriteRemove \/ Look PROVE IdentityInv'
  OBVIOUS
<1>1. /\ UNCHANGED <<born, disk, usb, node, for, since, half, entries, token, handle>>
      /\ at \in {"verified", "settle"} /\ at' = "settle" /\ todo' \subseteq Looks
  <2>1. CASE WriteRemove
    BY <2>1 DEF WriteRemove, kernelVars
  <2>2. CASE Look
    <3>1. at = "settle" => todo \subseteq Looks
      BY DEF IdentityInv, Settling
    <3> QED BY <2>2, <3>1 DEF Look, kernelVars
  <2> QED BY <2>1, <2>2
<1>2. History /\ Kernel /\ Holding /\ Scanning /\ Settling /\ Promised
  BY DEF IdentityInv
<1>3. History' /\ Kernel' /\ Holding'
  BY <1>1, <1>2 DEF History, Kernel, Holding, TokenWhen, TokenHeld, HandleHeld, DevFollowsPath
<1>4. Scanning' /\ Promised'
  BY <1>1, <1>2 DEF Scanning, ScanType, HalfRead, AllRead, NoneMissed, Promised, Genuine,
                    Identified, HandleIsTarget, NoSiblingOverlooked, SettledIsGone
<1>5. Settling'
  <2>1. CASE WriteRemove
    BY <1>1, <2>1 DEF WriteRemove, Settling, Looks
  <2>2. CASE Look
    <3>1. PICK look \in todo :
            /\ \A other \in todo : Rank[look] <= Rank[other]
            /\ todo' = IF Remains(look) THEN Looks ELSE todo \ {look}
      BY <2>2 DEF Look
    <3>2. at = "settle" /\ todo \subseteq Looks
      BY <1>2, <2>2 DEF Look, Settling
    <3>3. token.seq \in 1 .. Len(born) /\ born[token.seq].path = token.path
      BY <1>2, <3>2 DEF Promised, Genuine, Identified
    <3>4. CASE Remains(look)
      BY <1>1, <3>1, <3>4 DEF Settling, Looks
    <3>5. CASE look = "usb" /\ ~Remains(look)
      <4>1. usb[token.path] = 0
        BY <3>5 DEF Remains
      <4>2. \A n \in Names : disk[n] # 0 => born[disk[n]].path # token.path
        BY <1>2, <4>1 DEF Kernel
      <4>3. \A n \in Names : disk[n] # token.seq
        BY <3>3, <4>2
      <4>4. "class" \in todo /\ "node" \in todo
        BY <1>2, <3>1, <3>2, <3>5 DEF Settling
      <4> QED BY <1>1, <3>1, <3>2, <3>5, <4>2, <4>3, <4>4 DEF Settling
    <3>6. CASE look = "class" /\ ~Remains(look)
      <4>1. "usb" \notin todo
        BY <3>1, <3>6 DEF Rank
      <4>2. "node" \in todo
        BY <1>2, <3>1, <3>2, <3>6 DEF Settling
      <4> QED BY <1>1, <1>2, <3>1, <3>2, <3>6, <4>1, <4>2 DEF Settling
    <3>7. CASE look = "node" /\ ~Remains(look)
      <4>1. "usb" \notin todo /\ "class" \notin todo
        BY <3>1, <3>7 DEF Rank
      <4>2. node[token.name] = 0
        BY <3>7 DEF Remains
      <4>3. \A n \in Names : node[n] # token.seq
        BY <1>2, <3>3, <4>2 DEF Kernel, Holding, TokenWhen
      <4> QED BY <1>1, <1>2, <3>1, <3>2, <3>7, <4>1, <4>3 DEF Settling
    <3> QED BY <3>1, <3>2, <3>4, <3>5, <3>6, <3>7 DEF Looks
  <2> QED BY <2>1, <2>2
<1> QED BY <1>3, <1>4, <1>5 DEF IdentityInv

LEMMA StepHolds == IdentityInv /\ [Next]_vars => IdentityInv'
<1>1. IdentityInv /\ UNCHANGED vars => IdentityInv'
  BY DEF vars, kernelVars, IdentityInv, History, Kernel, Holding, TokenWhen, TokenHeld,
         HandleHeld, DevFollowsPath, Scanning, ScanType, HalfRead, AllRead, Read, NoneMissed,
         Settling, Promised, Genuine, HandleIsTarget, NoSiblingOverlooked, SettledIsGone
<1> QED BY <1>1, KernelHolds, StartScanHolds, ReadPathHolds, ReadAttributesHolds, ListHolds,
           ResolveHolds, OpenHandleHolds, VerifyBlockHolds, EndHolds, SettleStepHolds
        DEF Next, SessionActs

LEMMA IdentityHolds == Spec => []IdentityInv
BY InitHolds, StepHolds, PTL DEF Spec

(* Whatever the list read, what is resolved, rolled back or removed is one    *)
(* disk of the kernel with its own name, path and devnum (topology.go:78,     *)
(* 99; eject.go:490).                                                         *)
THEOREM IdentifiedIsGenuine == Spec => []Genuine
<1>1. IdentityInv => Genuine
  BY DEF IdentityInv, Promised
<1> QED BY IdentityHolds, <1>1, PTL

(* The handle whose identity was verified keeps the target's own disk         *)
(* (topology.go:150-165).                                                     *)
THEOREM VerifiedHandle == Spec => []HandleIsTarget
<1>1. IdentityInv => HandleIsTarget
  BY DEF IdentityInv, Promised
<1> QED BY IdentityHolds, <1>1, PTL

(* The USB device that is removed carries no other disk that the verification *)
(* could have seen (topology.go:170).                                         *)
THEOREM VerifiedAlone == Spec => []NoSiblingOverlooked
<1>1. IdentityInv => NoSiblingOverlooked
  BY DEF IdentityInv, Promised
<1> QED BY IdentityHolds, <1>1, PTL

(* The wait for the removal does not end while a trace of the target is left  *)
(* (platform.go:47).                                                          *)
THEOREM SettlingEndsGone == Spec => []SettledIsGone
<1>1. IdentityInv => SettledIsGone
  BY DEF IdentityInv, Promised
<1> QED BY IdentityHolds, <1>1, PTL
=============================================================================
