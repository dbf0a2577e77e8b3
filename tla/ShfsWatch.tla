------------------------------ MODULE ShfsWatch ------------------------------
(***************************************************************************)
(* Is shfs, which serves /mnt/user, still the one it was?  CheckSHFS of        *)
(* diagnostics.go looks at the mounts, probes the directory, lists the         *)
(* processes called shfs and reads the state of each, one after the other;     *)
(* checkSHFSWindow of eject.go repeats the look and compares the processes     *)
(* with those of the preflight.  shfs may get stuck, die, stay a zombie or     *)
(* leave its mount behind between any two reads.  A pid is not used again      *)
(* while the worker runs.                                                      *)
(***************************************************************************)
EXTENDS FiniteSets

CONSTANT Servers         (* processes called shfs, over time                     *)

VARIABLES
  proc,       (* new, running, stuck (in the kernel), zombie or gone          *)
  served,     (* connection, named by the process it was made for, and place  *)
  watch,      (* preflight, window or refused                                 *)
  look,       (* where the look is                                            *)
  conns,      (* connections seen by this look                                *)
  found,      (* processes listed by this look                                *)
  left,       (* those whose status is not read yet                           *)
  expected,   (* processes of the preflight                                   *)
  lost,       (* history: shfs processes not running when this look began     *)
  calm        (* history: nothing has happened to shfs since the look began,  *)
              (* and all was well then                                        *)
shfsVars == <<proc, served>>
watchHistory == <<lost, calm>>
watchVars == <<shfsVars, watch, look, conns, found, left, expected, watchHistory>>

Places == {"user", "user0", "bind"}
Ended == {"zombie", "gone"}

WatchInit ==
  /\ proc \in [Servers -> {"new", "running"}]
  /\ served \in SUBSET {m \in Servers \X {"user", "user0"} : proc[m[1]] = "running"}
  /\ \A m, o \in served : m[1] = o[1] => m = o
  /\ watch = "preflight" /\ look = "mounts"
  /\ conns = {} /\ found = {} /\ left = {} /\ expected = {}
  /\ lost = {} /\ calm = FALSE

-----------------------------------------------------------------------------
(* The host.  A mount outlives its process until somebody detaches it, and a   *)
(* container's bind mount of a share is one more mount of the same connection. *)
Becomes(p, from, to) == proc[p] \in from /\ proc' = [proc EXCEPT ![p] = to] /\ UNCHANGED served
Serve(p, place) ==
  /\ proc[p] = "running"
  /\ (\E m \in served : m[1] = p) <=> place = "bind"
  /\ served' = served \cup {<<p, place>>}
  /\ UNCHANGED proc
Detach(m) == m \in served /\ served' = served \ {m} /\ UNCHANGED proc

Bind == \E p \in Servers : Serve(p, "bind")
Unbind == \E m \in served : m[2] = "bind" /\ Detach(m) /\ \E o \in served' : o[1] = m[1]
Disturb ==
  \/ \E p \in Servers :
       \/ Becomes(p, {"new"}, "running")
       \/ Becomes(p, {"running"}, "stuck")
       \/ Becomes(p, {"stuck"}, "running")
       \/ Becomes(p, {"running", "stuck"}, "zombie")
       \/ Becomes(p, {"zombie"}, "gone")
       \/ Serve(p, "user") \/ Serve(p, "user0")
  \/ \E m \in served : Detach(m)

ShfsActs ==
  /\ \/ Bind /\ UNCHANGED calm
     \/ Unbind /\ UNCHANGED calm
     \/ Disturb /\ calm' = FALSE
  /\ UNCHANGED <<watch, look, conns, found, left, expected, lost>>

-----------------------------------------------------------------------------
(* One look.                                                                   *)
Connections == {m[1] : m \in served}
Listed == {p \in Servers : proc[p] \in {"running", "stuck", "zombie"}}
UserServers == {m[1] : m \in {o \in served : o[2] = "user"}}
Well ==
  /\ Connections = Listed /\ UserServers # {}
  /\ \A p \in Listed : proc[p] = "running"
  /\ watch = "window" => Listed = expected

Unhealthy ==
  /\ watch' = "refused"
  /\ UNCHANGED <<shfsVars, look, conns, found, left, expected, watchHistory>>

(* Variant: every fuse.shfs mount is taken for a connection of its own.        *)
ReadEachMount ==
  /\ watch \in {"preflight", "window"} /\ look = "mounts"
  /\ lost' = {p \in Servers : proc[p] \in Ended} /\ calm' = Well
  /\ IF UserServers = {} THEN watch' = "refused" ELSE UNCHANGED watch
  /\ look' = "probe" /\ conns' = served
  /\ UNCHANGED <<shfsVars, found, left, expected>>

(* Mounts of one device number are one connection; /mnt/user must be one.      *)
ReadConnections ==
  /\ watch \in {"preflight", "window"} /\ look = "mounts"
  /\ lost' = {p \in Servers : proc[p] \in Ended} /\ calm' = Well
  /\ IF UserServers = {} THEN watch' = "refused" ELSE UNCHANGED watch
  /\ look' = "probe" /\ conns' = Connections
  /\ UNCHANGED <<shfsVars, found, left, expected>>

(* The top mount of /mnt/user answers, or does not within three seconds.       *)
Probe ==
  /\ watch \in {"preflight", "window"} /\ look = "probe"
  /\ \/ /\ \E p \in UserServers : proc[p] = "running"
        /\ look' = "list"
        /\ UNCHANGED <<shfsVars, watch, conns, found, left, expected, watchHistory>>
     \/ (UserServers = {} \/ \E p \in UserServers : proc[p] # "running") /\ Unhealthy

(* One shfs process per connection.                                            *)
ListPids ==
  /\ watch \in {"preflight", "window"} /\ look = "list"
  /\ \/ (Listed = {} \/ Cardinality(Listed) # Cardinality(conns)) /\ Unhealthy
     \/ /\ Listed # {} /\ Cardinality(Listed) = Cardinality(conns)
        /\ look' = "status" /\ found' = Listed /\ left' = Listed
        /\ UNCHANGED <<shfsVars, watch, conns, expected, watchHistory>>

(* The process must be there, called shfs, sleeping or running.                *)
ReadStatus(p) ==
  /\ look = "status" /\ watch \in {"preflight", "window"} /\ p \in left
  /\ \/ proc[p] # "running" /\ Unhealthy
     \/ /\ proc[p] = "running"
        /\ left' = left \ {p}
        /\ UNCHANGED <<shfsVars, watch, look, conns, found, expected, watchHistory>>

(* Variant: only the number of processes is compared.                          *)
SameNumber == Cardinality(found) = Cardinality(expected)

(* equalIntSets of the processes now and then.                                 *)
SamePids == found = expected

(* The preflight remembers the processes; a look of a window compares them and *)
(* is followed by the next, of this window or a later one.                     *)
JudgeLook ==
  /\ look = "status" /\ left = {}
  /\ \/ /\ watch = "preflight"
        /\ watch' = "window" /\ expected' = found
     \/ watch = "window" /\ SamePids /\ UNCHANGED <<watch, expected>>
     \/ watch = "window" /\ ~SamePids /\ watch' = "refused" /\ UNCHANGED expected
  /\ look' = "mounts" /\ conns' = {} /\ found' = {}
  /\ UNCHANGED <<shfsVars, left, watchHistory>>

WatchActs ==
  \/ ReadConnections \/ Probe \/ ListPids \/ JudgeLook
  \/ \E p \in Servers : ReadStatus(p)

WatchNext == ShfsActs \/ WatchActs
WatchSpec == WatchInit /\ [][WatchNext]_watchVars

-----------------------------------------------------------------------------
(* A good look shows that no shfs of the preflight had ended when it began,    *)
(* neither replaced by another nor kept as a zombie behind a mount that is     *)
(* still there, although only /mnt/user is probed (eject.go:639, README.md:46).*)
NoneLost == watch = "window" /\ look = "mounts" => lost \cap expected = {}

(* The watch stops nobody for nothing: when all was well with shfs and nothing *)
(* happened to it during a look, the look is good, whatever share a container  *)
(* binds or lets go meanwhile (diagnostics.go:106-123).                        *)
NoFalseAlarm == watch = "refused" => ~calm
=============================================================================
