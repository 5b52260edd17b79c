------------------------------ MODULE Upgrade ------------------------------
(***************************************************************************)
(* "htn-server upgrade" (cmd/server/upgrade.go): a release is downloaded   *)
(* to a temporary file, and replaceBinary swaps it for the binary that the *)
(* command itself runs from.  Each system call is a step, which may fail,  *)
(* and the command may be killed before any of them.                       *)
(*                                                                         *)
(* Files as Linux has them: renaming keeps a running program, a file that  *)
(* is being executed cannot be opened for writing, and in a directory that *)
(* is not writable nothing can be renamed or created.                      *)
(***************************************************************************)
EXTENDS Naturals, Sequences

CONSTANT Latest    \* the newest release; the machine starts with release 1

ASSUME LatestAssumption == Latest \in Nat \ {0}

Releases == 1..Latest
NoFile == <<>>
Part(v) == <<v>>           \* the beginning of release v
Whole(v) == <<v, "end">>
IsWhole(b) == Len(b) = 2
Binaries == {NoFile} \cup {Part(v) : v \in Releases} \cup {Whole(v) : v \in Releases}

VARIABLES
  current,   \* the binary at currentPath
  bak,       \* the one at backupPath
  writable,  \* the command may write to their directory
  exe,       \* where the file of the running command is: "current" or "bak"
  version,   \* the release of the running command
  step,      \* the next system call of the command
  temp       \* the downloaded release

upgradeVars == <<current, bak, writable, exe, version, step, temp>>

Steps == {"idle", "rename", "create", "copy", "restart", "failed", "unopened"}

UpgradeTypeOK ==
  /\ current \in Binaries /\ bak \in Binaries /\ writable \in BOOLEAN
  /\ exe \in {"current", "bak"} /\ version \in Releases
  /\ step \in Steps /\ temp \in Releases

UpgradeInit ==
  /\ current = Whole(1) /\ bak = NoFile /\ writable = TRUE
  /\ exe = "current" /\ version = 1 /\ step = "idle" /\ temp = 1

Goto(s) == step' = s

(* runUpgrade, when getLatestRelease finds another release than this one,  *)
(* up to the end of downloadBinary; an error so far changes nothing.       *)
runUpgrade ==
  /\ step = "idle" /\ IsWhole(current)
  /\ version' = current[1] /\ writable' \in BOOLEAN
  /\ temp' \in {v \in Releases : v > version'}
  /\ Goto("rename")
  /\ UNCHANGED <<current, bak, exe>>

(* replaceBinary.  os.Rename(currentPath, backupPath): an error is ignored.*)
RenameCurrent ==
  /\ step = "rename" /\ Goto("create")
  /\ IF writable THEN current' = NoFile /\ bak' = current /\ exe' = "bak"
                 ELSE UNCHANGED <<current, bak, exe>>
  /\ UNCHANGED <<writable, version, temp>>

(* os.Rename(backupPath, currentPath), errors ignored.                     *)
Revert ==
  IF writable /\ bak # NoFile
  THEN current' = bak /\ bak' = NoFile /\ exe' = "current"
  ELSE UNCHANGED <<current, bak, exe>>

(* os.Open(newPath), whose error is returned at once, and                  *)
(* os.OpenFile(currentPath, O_TRUNC).                                      *)
CreateCurrent ==
  /\ step = "create"
  /\ \/ Goto("unopened") /\ UNCHANGED <<current, bak, exe>>
     \/ /\ IF current = NoFile THEN writable ELSE exe # "current"
        /\ current' = Part(temp) /\ Goto("copy")
        /\ UNCHANGED <<bak, exe>>
     \/ Revert /\ Goto("failed")
  /\ UNCHANGED <<writable, version, temp>>

CopyDone ==
  /\ step = "copy"
  /\ current' = Whole(temp) /\ Goto("restart")
  /\ UNCHANGED <<bak, writable, exe, version, temp>>

(* Faulty variant: the error is returned without putting the binary back.  *)
CopyFails_NoRevert ==
  /\ step = "copy" /\ Goto("failed")
  /\ UNCHANGED <<current, bak, writable, exe, version, temp>>

CopyFails ==
  /\ step = "copy"
  /\ Revert /\ Goto("failed")
  /\ UNCHANGED <<writable, version, temp>>

(* The command ends, or is killed before its next step.                    *)
CommandEnds ==
  /\ step # "idle" /\ Goto("idle")
  /\ writable' = TRUE /\ exe' = "current" /\ version' = 1 /\ temp' = 1
  /\ UNCHANGED <<current, bak>>

(* Without a binary that runs, the operator moves the .bak file back.      *)
OperatorReverts ==
  /\ step = "idle" /\ ~ IsWhole(current) /\ IsWhole(bak)
  /\ current' = bak /\ bak' = NoFile
  /\ UNCHANGED <<writable, exe, version, step, temp>>

UpgradeNext ==
  \/ RenameCurrent \/ CreateCurrent \/ CopyDone \/ CopyFails
  \/ CommandEnds \/ OperatorReverts

---------------------------------------------------------------------------
(* Whichever step of an upgrade fails, and wherever it is killed, a        *)
(* complete binary is left at the path or beside it as .bak.  An upgrade   *)
(* that reports success has put the downloaded release in place, and one   *)
(* that reports an error has put the old one back; only after an error of  *)
(* os.Open does the old one stay behind as .bak.                           *)
UpgradeIsSafe ==
  /\ IsWhole(current) \/ IsWhole(bak)
  /\ step = "restart" => current = Whole(temp)
  /\ step = "failed" => current = Whole(version)
  /\ step = "unopened" => Whole(version) \in {current, bak}
=============================================================================
