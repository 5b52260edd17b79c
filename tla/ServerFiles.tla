---------------------------- MODULE ServerFiles ----------------------------
(***************************************************************************)
(* What the server keeps on disk: server.yaml, written by the setup wizard *)
(* and by the admin dashboard of a running server (config_provider.go),    *)
(* keys.json, written by the key store, and the archive that the commands  *)
(* "backup" and "restore" of cmd/server/backup.go make and unpack, in      *)
(* processes of their own, while the server may be running.                *)
(*                                                                         *)
(* Every writer opens the file with O_TRUNC and then writes it, which is   *)
(* two steps here: other processes read, and write, in between, and each   *)
(* writer may fail or be killed there.                                     *)
(*                                                                         *)
(* Of the configuration one number stands for all of it: a field with a    *)
(* default, an environment variable and a place on the dashboard, such as  *)
(* max_tunnels_per_token.  The running server has it twice: in cfg, which  *)
(* the dashboard shows, changes and saves, and in the token store or the   *)
(* rate limiter, which enforce it and are built from cfg once, at the      *)
(* start.  A content of keys.json is a version number.                     *)
(***************************************************************************)
EXTENDS Naturals, Sequences

CONSTANTS Numbers,     \* values the number may be given on the dashboard
          Environment, \* values its environment variable may be given
          Default,     \* what defaults() puts for 0
          MaxKeys      \* bound on the key store's changes

ASSUME FilesAssumption ==
  /\ Numbers \subseteq Nat /\ Default \in Nat \ {0}
  /\ Environment \subseteq Numbers
  /\ MaxKeys \in Nat

Names == {"config", "keys"}
Absent == <<"absent">>
Empty == <<"empty">>
Cut == <<"cut">>       \* a part of a content, which does not parse
Holds(v) == <<"holds", v>>
Contents ==
  {Absent, Empty, Cut} \cup {Holds(v) : v \in Numbers \cup {Default} \cup 0..MaxKeys}

Short == <<"short">>   \* an entry with fewer bytes than its header says
Unset == <<>>          \* no value

VARIABLES
  file,       \* the content of each file
  env,        \* the environment variable of the number, Unset or <<n>>
  up,         \* the server is running
  number,     \* the number in cfg of the running server
  limit,      \* the number it enforces
  keys,       \* the version of the key store in memory
  saving,     \* what a save of the running server is about to write, or Unset
  wizard,     \* what the wizard is about to write, or Unset
  files,      \* the files runBackup has left to copy
  statted,    \* what the first of them held at its Stat
  archive,    \* [entries, ends]: the archive, and how it ends
  restore,    \* where runRestore is, or how it ended
  todo,       \* the entries it has left to unpack
  copied,     \* history: what each file held when the backup read it
  told,       \* history: the number of the last acknowledged change, and whether
              \* the server has been started since; Unset once it is overwritten
  taken       \* history: files somebody else wrote to after their restore began

serverVars == <<up, number, limit, keys, saving>>
backupVars == <<files, statted, archive, copied>>
restoreVars == <<restore, todo, taken>>
vars == <<file, env, serverVars, wizard, backupVars, restoreVars, told>>

Maybe(S) == {Unset} \cup S
Lists == {<<>>, <<"config">>, <<"keys">>, <<"config", "keys">>}
Nothing == [f \in Names |-> Unset]

FilesTypeOK ==
  /\ file \in [Names -> Contents]
  /\ env \in Maybe({<<n>> : n \in Environment})
  /\ up \in BOOLEAN /\ keys \in 0..MaxKeys
  /\ number \in Numbers \cup {Default} /\ limit \in Numbers \cup {Default}
  /\ saving \in [Names -> Maybe(Contents)] /\ wizard \in Maybe(Contents)
  /\ files \in Lists /\ statted \in Maybe(Contents)
  /\ archive \in [entries : [Names -> Maybe(Contents \cup {Short})],
                  ends : {"none", "partial", "failed", "closed"}]
  /\ restore \in {"idle", "opening", "writing", "failed", "done"}
  /\ todo \in Lists
  /\ copied \in [Names -> Maybe(Contents)]
  /\ told \in Maybe((Numbers \cup {Default}) \X BOOLEAN)
  /\ taken \subseteq Names

(* The machine before "htn-server init".                                   *)
Init ==
  /\ file = [f \in Names |-> Absent] /\ env = Unset
  /\ up = FALSE /\ number = Default /\ limit = Default /\ keys = 0
  /\ saving = Nothing /\ wizard = Unset
  /\ files = <<>> /\ statted = Unset
  /\ archive = [entries |-> Nothing, ends |-> "none"]
  /\ restore = "idle" /\ todo = <<>> /\ copied = Nothing /\ told = Unset
  /\ taken = {}

---------------------------------------------------------------------------
Change(f, c) == file' = [file EXCEPT ![f] = c]

(* A writer other than restore begins or ends its write: what restore put  *)
(* there, and what the dashboard acknowledged, are overwritten.            *)
Touched(F) == taken' = IF restore \in {"idle", "failed"} THEN taken ELSE taken \cup F
Unpromised(f) == told' = IF f = "config" THEN Unset ELSE told

(* A write after O_TRUNC.  When another writer has written in between, the *)
(* two texts overlap and the end of the longer one shows.                  *)
Written(f, c) == IF file[f] = Empty THEN {c} ELSE {c, Cut}

(* What an error in the write, or a kill, leaves behind.                   *)
Abandoned(f) == {file[f], Cut}

(* LoadServerConfig: a missing or an empty file gives all defaults; 0      *)
(* becomes the default before the environment has its say.                 *)
defaults(n) == IF n = 0 THEN Default ELSE n
applyEnv(n) == IF env = Unset THEN n ELSE env[1]
Parses(f) == file[f] # Cut
InFile(f) == IF Len(file[f]) = 2 THEN file[f][2] ELSE 0
LoadServerConfig == applyEnv(defaults(InFile("config")))

(* Faulty variant: the key store is opened at the path of server.yaml.     *)
serveCmd_WrongPath ==
  /\ ~ up /\ Parses("config") /\ Parses("keys")
  /\ up' = TRUE /\ number' = LoadServerConfig /\ limit' = number'
  /\ keys' = InFile("config")
  /\ UNCHANGED <<file, env, saving, wizard, backupVars, restoreVars, told>>

(* serveCmd: a file that does not parse ends the process; the service      *)
(* manager tries again.  NewServer hands the number to what enforces it.   *)
serveCmd ==
  /\ ~ up /\ Parses("config") /\ Parses("keys")
  /\ up' = TRUE /\ number' = LoadServerConfig /\ limit' = number'
  /\ keys' = InFile("keys")
  /\ told' = IF told = Unset THEN Unset ELSE <<told[1], TRUE>>
  /\ UNCHANGED <<file, env, saving, wizard, backupVars, restoreVars>>

(* A stop, a crash or a restart, possibly in the middle of saves.          *)
Killed ==
  /\ up /\ up' = FALSE
  /\ number' = Default /\ limit' = Default /\ keys' = 0 /\ saving' = Nothing
  /\ \E c \in [Names -> {file[f] : f \in Names} \cup {Cut}] :
       /\ \A f \in Names :
            c[f] \in IF saving[f] = Unset THEN {file[f]} ELSE Abandoned(f)
       /\ file' = c
  /\ Touched({f \in Names : saving[f] # Unset})
  /\ UNCHANGED <<env, wizard, backupVars, restore, todo, told>>

(* The operator edits the environment of the service while it is down.     *)
EditEnvironment ==
  /\ ~ up
  /\ env' \in Maybe({<<n>> : n \in Environment})
  /\ UNCHANGED <<file, serverVars, wizard, backupVars, restoreVars, told>>

---------------------------------------------------------------------------
(* os.WriteFile in the running server, under the mutex of the store: the   *)
(* file is emptied, or cannot be opened, which is an error to the caller.  *)
(* The change is in memory either way.                                     *)
BeginSave(f, c) ==
  /\ up /\ saving[f] = Unset
  /\ \/ /\ saving' = [saving EXCEPT ![f] = c]
        /\ Change(f, Empty) /\ Touched({f}) /\ Unpromised(f)
     \/ UNCHANGED <<file, saving, taken, told>>
  /\ UNCHANGED <<env, up, limit, wizard, backupVars, restore, todo>>

(* Faulty variant: the change is not saved.                                *)
UpdateConfig_MemoryOnly(n) ==
  /\ up /\ saving["config"] = Unset
  /\ number' = n /\ told' = <<n, FALSE>>
  /\ UNCHANGED <<file, env, up, limit, keys, saving, wizard, backupVars, restoreVars>>

(* UpdateConfig changes and saves cfg, and not what the server enforces; a *)
(* change of another field saves the number as it is.                      *)
UpdateConfig(n) ==
  /\ BeginSave("config", Holds(n))
  /\ number' = n /\ UNCHANGED keys

(* A change of the key store, with saveLocked.                             *)
ChangeKeys ==
  /\ keys < MaxKeys
  /\ BeginSave("keys", Holds(keys + 1))
  /\ keys' = keys + 1 /\ UNCHANGED number

(* The write succeeds and is acknowledged, or fails and the error is.      *)
SaveEnds(f) ==
  /\ saving[f] # Unset
  /\ saving' = [saving EXCEPT ![f] = Unset]
  /\ \/ \E c \in Written(f, saving[f]) :
          /\ Change(f, c)
          /\ told' = IF f = "config" /\ c = saving[f] THEN <<number, FALSE>> ELSE told
     \/ /\ \E c \in Abandoned(f) : Change(f, c)
        /\ UNCHANGED told
  /\ Touched({f})
  /\ UNCHANGED <<env, up, number, limit, keys, wizard, backupVars, restore, todo>>

(* The operator runs one command at a time.                                *)
AtPrompt == wizard = Unset /\ files = <<>> /\ restore \notin {"opening", "writing"}

(* runWizard, which may be run again on a machine in use, writes the       *)
(* defaults over the file, or nothing when the DNS check fails.            *)
runWizard ==
  /\ AtPrompt /\ wizard' = Holds(Default)
  /\ Change("config", Empty) /\ Touched({"config"}) /\ Unpromised("config")
  /\ UNCHANGED <<env, serverVars, backupVars, restore, todo>>

WizardEnds ==
  /\ wizard # Unset /\ wizard' = Unset
  /\ \E c \in Written("config", wizard) \cup Abandoned("config") : Change("config", c)
  /\ Touched({"config"}) /\ Unpromised("config")
  /\ UNCHANGED <<env, serverVars, backupVars, restore, todo>>

---------------------------------------------------------------------------
(* runBackup.  The path of keys.json comes from server.yaml, so with a     *)
(* server.yaml that does not parse keys.json is left out.  Without any     *)
(* file there is an error; else createTarGz empties the archive and opens  *)
(* the first file.                                                         *)
FilesToBackUp ==
  (IF file["config"] = Absent THEN <<>> ELSE <<"config">>)
  \o (IF file["keys"] = Absent \/ ~ Parses("config") THEN <<>> ELSE <<"keys">>)

runBackup ==
  /\ AtPrompt /\ FilesToBackUp # <<>>
  /\ files' = FilesToBackUp
  /\ statted' = file[Head(files')]
  /\ archive' = [entries |-> Nothing, ends |-> "partial"] /\ copied' = Nothing
  /\ restore' = "idle" /\ taken' = {}
  /\ UNCHANGED <<file, env, serverVars, wizard, todo, told>>

(* addFileToTar writes a header with the size Stat reported and then what  *)
(* the file holds by now: a shorter text leaves the entry short, a longer  *)
(* one is an error.                                                        *)
Entry(was, is) ==
  IF was = is THEN {is}
  ELSE IF is = Empty THEN {Short} ELSE IF was = Empty THEN {} ELSE {is, Short}

(* Copy a file and open the next, whose WriteHeader refuses to follow a    *)
(* short entry.  After the last file the deferred tw.Close would report    *)
(* that; its error is ignored and the backup is reported as made.          *)
addFileToTar ==
  /\ files # <<>>
  /\ LET f == Head(files)
         last == Tail(files) = <<>>
     IN /\ \E e \in Entry(statted, file[f]) :
             /\ last \/ e # Short
             /\ archive' = [entries |-> [archive.entries EXCEPT ![f] = e],
                            ends |-> IF last THEN "closed" ELSE "partial"]
        /\ copied' = [copied EXCEPT ![f] = file[f]]
        /\ files' = Tail(files)
        /\ statted' = IF last THEN Unset ELSE file[Head(Tail(files))]
  /\ UNCHANGED <<file, env, serverVars, wizard, restoreVars, told>>

(* The backup ends early: killed, or with an error, after which the        *)
(* deferred calls close an archive that lacks the file, or has too little  *)
(* of it, or as much as the header says of a text that has grown: a part,  *)
(* or nothing when Stat saw the file just emptied.                         *)
BackupFails ==
  /\ files # <<>>
  /\ files' = <<>> /\ statted' = Unset
  /\ \/ UNCHANGED archive
     \/ \E e \in {Unset, Short, Cut, Empty} :
          /\ e = Empty => statted = Empty
          /\ archive' = [entries |-> [archive.entries EXCEPT ![Head(files)] = e], ends |-> "failed"]
  /\ UNCHANGED <<file, copied, env, serverVars, wizard, restoreVars, told>>

---------------------------------------------------------------------------
(* runRestore, extractTarGz: the entries in the order they were copied.    *)
EntriesToUnpack ==
  (IF archive.entries["config"] = Unset THEN <<>> ELSE <<"config">>)
  \o (IF archive.entries["keys"] = Unset THEN <<>> ELSE <<"keys">>)

runRestore ==
  /\ AtPrompt /\ archive.ends # "none"
  /\ restore' = "opening" /\ taken' = {}
  /\ todo' = EntriesToUnpack
  /\ UNCHANGED <<file, env, serverVars, wizard, backupVars, told>>

(* Faulty variant: the old content is not cut off.                         *)
OpenEntry_NoTrunc ==
  /\ restore = "opening" /\ todo # <<>>
  /\ restore' = "writing" /\ Unpromised(Head(todo))
  /\ UNCHANGED <<file, env, serverVars, wizard, backupVars, todo, taken>>

(* tr.Next finds an entry, whose file is emptied.                          *)
OpenEntry ==
  /\ restore = "opening" /\ todo # <<>>
  /\ restore' = "writing"
  /\ Change(Head(todo), Empty) /\ Unpromised(Head(todo))
  /\ taken' = taken \ {Head(todo)}
  /\ UNCHANGED <<env, serverVars, wizard, backupVars, todo>>

(* io.Copy from the archive; a short entry ends the restore.               *)
WriteEntry ==
  /\ restore = "writing"
  /\ LET f == Head(todo)
         e == archive.entries[f]
     IN /\ \E c \in IF e = Short THEN {Cut} ELSE Written(f, e) : Change(f, c)
        /\ Unpromised(f)
        /\ restore' = IF e = Short THEN "failed" ELSE "opening"
  /\ todo' = Tail(todo)
  /\ UNCHANGED <<env, serverVars, wizard, backupVars, taken>>

(* The end of the archive; one whose backup was killed ends in an error,   *)
(* and so does one without entries.                                        *)
RestoreEnds ==
  /\ restore = "opening" /\ todo = <<>>
  /\ restore' = IF archive.ends # "partial" /\ archive.entries # Nothing
                THEN "done" ELSE "failed"
  /\ UNCHANGED <<file, env, serverVars, wizard, backupVars, todo, taken, told>>

(* Any error, or a kill, before that.                                      *)
RestoreFails ==
  /\ restore \in {"opening", "writing"}
  /\ restore' = "failed" /\ todo' = <<>> /\ taken' = {}
  /\ IF restore = "writing"
     THEN /\ \E c \in Abandoned(Head(todo)) : Change(Head(todo), c)
          /\ Unpromised(Head(todo))
     ELSE UNCHANGED <<file, told>>
  /\ UNCHANGED <<env, serverVars, wizard, backupVars>>

FilesNext ==
  \/ Killed \/ EditEnvironment
  \/ \E n \in Numbers \cup {number} : UpdateConfig(n)
  \/ ChangeKeys
  \/ \E f \in Names : SaveEnds(f)
  \/ WizardEnds
  \/ addFileToTar \/ BackupFails
  \/ OpenEntry \/ WriteEntry \/ RestoreEnds \/ RestoreFails

---------------------------------------------------------------------------
(* A change the admin dashboard acknowledged is what the server enforces   *)
(* from its next start on, with defaults and environment applied, through  *)
(* any crashes, restarts and saves that cannot open the file, until        *)
(* another writer empties server.yaml.  Until that start the server goes   *)
(* on enforcing the number it was started with, and a crash between the    *)
(* emptying and the end of a later save loses the change.                  *)
SettingsSurvive ==
  (up /\ told # Unset /\ told[2]) => limit = applyEnv(defaults(told[1]))

(* From backup to restore: when the backup was reported as made and the    *)
(* restore as complete, each file of the archive has, whole, the content   *)
(* it had when the backup read it, whatever the server saved in between,   *)
(* unless another process has written it since the restore emptied it.     *)
(* That content is the empty one if the server was just saving the file.   *)
(* For the archive of a backup that ended with an error nothing is         *)
(* promised: it may hold a part of a file, and is restored without one.    *)
RestoreIsFaithful ==
  (restore = "done" /\ archive.ends = "closed") =>
    \A f \in Names \ taken : copied[f] \in {Unset, file[f]}
=============================================================================
