-------------------------------- MODULE MCLogs --------------------------------
(***************************************************************************)
(* The logs, for TLC: LogStore (who changes the store, and what a rotation    *)
(* leaves), DurableFiles (one write and a power failure) and LogMount (where  *)
(* the store is).  They share no state: a behaviour is one of a single part,  *)
(* chosen in its first state, and the variables of the others stay.          *)
(***************************************************************************)
EXTENDS LogStore, DurableFiles, LogMount, TLC

VARIABLE part         (* store, rolls, files or mount                         *)
allVars == <<part, vars, filesVars, mountVars>>

MCLogDir == <<"boot", "config", "logs">>
MCPoints == {<<"boot">>, <<"boot", "config">>, MCLogDir, Append(MCLogDir, "transactions"),
             <<"boot", "configs">>}

ASSUME FilesAssumption /\ MountAssumption

LogsInit ==
  /\ Init /\ FilesInit /\ MountInit
  /\ part \in {"store", "rolls", "files", "mount"}
  /\ part \in {"files", "mount"} => \A n \in Logs, g \in Generations : ~IsLog(n, g)

(* The store twice: with workers, and no log rolled by its own writer; and     *)
(* with such rolls beside `list` and clear_logs, and no worker.  The page      *)
(* clears the logs early on, if at all: how old a log is when it is cleared    *)
(* makes no difference to what comes after.                                   *)
StoreActs ==
  /\ \/ part = "store" /\ crossed' = {}
     \/ part = "rolls" /\ listed' = listed
  /\ Next /\ UNCHANGED <<part, filesVars, mountVars>>
  /\ pc'[Clearer] # "idle" => now' = 0
FilesAct == part = "files" /\ FilesNext /\ UNCHANGED <<part, vars, mountVars>>
MountsAct == part = "mount" /\ MountNext /\ UNCHANGED <<part, vars, filesVars>>
Symmetry == Permutations(Jobs)

LogBehaviour == LogsInit /\ [][StoreActs \/ FilesAct \/ MountsAct]_allVars
=============================================================================
