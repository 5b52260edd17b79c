-------------------------- MODULE DeploymentProofs --------------------------
(***************************************************************************)
(* Proofs about the deployed server, for any numbers, any bound on the key *)
(* store's changes and any number of releases: an acknowledged setting is  *)
(* enforced from the next start on, a restore of a complete backup brings  *)
(* back what the backup read, and no upgrade, however it ends, leaves the  *)
(* machine without a complete binary.                                      *)
(***************************************************************************)
EXTENDS Deployment, SequenceTheorems, TLAPS

(* What each file may hold: keys.json never holds a configuration.         *)
Values(f) == IF f = "config" THEN Numbers \cup {Default} ELSE 0..MaxKeys
ContentsOf(f) == {Absent, Empty, Cut} \cup {Holds(v) : v \in Values(f)}

FileTypes ==
  /\ FilesTypeOK
  /\ \A f \in Names : /\ file[f] \in ContentsOf(f)
                      /\ saving[f] \in Maybe(ContentsOf(f))
                      /\ archive.entries[f] \in Maybe(ContentsOf(f) \cup {Short})
  /\ wizard \in Maybe(ContentsOf("config"))

(* An acknowledged number is what server.yaml holds, and nobody in the     *)
(* server is writing it; a save under way writes the number in memory.  A  *)
(* server started since then enforces the acknowledged number.             *)
SettingsInv ==
  /\ ~ up => saving = Nothing
  /\ saving["config"] # Unset => saving["config"] = Holds(number)
  /\ told # Unset =>
       /\ file["config"] = Holds(told[1]) /\ saving["config"] = Unset
       /\ up /\ told[2] => limit = applyEnv(defaults(told[1]))

(* The files a restore is done with hold what the archive has for them; a  *)
(* file it is writing and nobody else has touched is empty.  A backup and  *)
(* a restore are never under way together, so the archive stands still.    *)
Members(l) == {l[i] : i \in DOMAIN l}

RestoreInv ==
  /\ files # <<>> => restore = "idle"
  /\ restore = "writing" =>
       /\ todo # <<>>
       /\ Head(todo) \notin taken => file[Head(todo)] = Empty
  /\ restore \in {"opening", "writing", "done"} =>
       /\ \A f \in Members(todo) : archive.entries[f] # Unset
       /\ \A f \in Names \ (taken \cup Members(todo)) : archive.entries[f] \in {Unset, file[f]}
  /\ restore = "done" => todo = <<>>

(* A backup that was made to its end has every file as it was read, or too *)
(* little of the last one.                                                 *)
CopyInv ==
  /\ files # <<>> => archive.ends = "partial" /\ archive.entries = copied
  /\ archive.ends = "closed" => \A f \in Names : archive.entries[f] \in {copied[f], Short}

(* Where the old binary is at each step of an upgrade.                     *)
UpgradeInv ==
  /\ step = "idle" => IsWhole(current) \/ IsWhole(bak)
  /\ step = "rename" => current = Whole(version)
  /\ step = "create" => IF writable THEN current = NoFile /\ bak = Whole(version)
                                    ELSE current = Whole(version) /\ exe = "current"
  /\ step \in {"idle", "rename"} => exe = "current"
  /\ step = "copy" => writable /\ bak = Whole(version)
  /\ step = "restart" => current = Whole(temp)
  /\ step = "failed" => current = Whole(version)
  /\ step = "unopened" => Whole(version) \in {current, bak}

DeploymentInv == FileTypes /\ UpgradeTypeOK /\ SettingsInv /\ RestoreInv /\ CopyInv /\ UpgradeInv

---------------------------------------------------------------------------
(* The binary                                                              *)

LEMMA BinaryFacts ==
  /\ \A v \in Releases : /\ Whole(v) \in Binaries /\ Part(v) \in Binaries
                         /\ IsWhole(Whole(v)) /\ ~ IsWhole(Part(v))
                         /\ Whole(v) # NoFile /\ Part(v) # NoFile
  /\ NoFile \in Binaries /\ ~ IsWhole(NoFile)
  /\ \A b \in Binaries : IsWhole(b) => b[1] \in Releases /\ b = Whole(b[1])
BY DEF Binaries, Releases, Whole, Part, NoFile, IsWhole

LEMMA UpgradeStepInv ==
  ASSUME UpgradeTypeOK, UpgradeInv, runUpgrade \/ UpgradeNext \/ UNCHANGED upgradeVars
  PROVE  UpgradeTypeOK' /\ UpgradeInv'
<1> USE BinaryFacts, LatestAssumption DEF UpgradeTypeOK, UpgradeInv, Goto, Steps
<1>1. CASE runUpgrade
  <2>1. PICK v \in Releases : current = Whole(v) /\ v = current[1]
    BY <1>1 DEF runUpgrade
  <2> QED BY <1>1, <2>1 DEF runUpgrade
<1>2. CASE RenameCurrent
  BY <1>2 DEF RenameCurrent
<1>3. CASE CreateCurrent
  <2>0. step = "create" /\ UNCHANGED <<writable, version, temp>>
    BY <1>3 DEF CreateCurrent
  <2>1. CASE step' = "unopened" /\ UNCHANGED <<current, bak, exe>>
    BY <2>0, <2>1
  <2>2. CASE /\ IF current = NoFile THEN writable ELSE exe # "current"
             /\ current' = Part(temp) /\ step' = "copy" /\ UNCHANGED <<bak, exe>>
    BY <2>0, <2>2
  <2>3. CASE Revert /\ step' = "failed"
    BY <2>0, <2>3 DEF Revert
  <2> QED BY <1>3, <2>1, <2>2, <2>3 DEF CreateCurrent
<1>4. CASE CopyDone
  BY <1>4 DEF CopyDone
<1>5. CASE CopyFails
  BY <1>5 DEF CopyFails, Revert
<1>6. CASE CommandEnds
  BY <1>6 DEF CommandEnds, Releases
<1>7. CASE OperatorReverts
  BY <1>7 DEF OperatorReverts
<1>8. CASE UNCHANGED upgradeVars
  BY <1>8 DEF upgradeVars
<1> QED BY <1>1, <1>2, <1>3, <1>4, <1>5, <1>6, <1>7, <1>8 DEF UpgradeNext

---------------------------------------------------------------------------
(* The files                                                               *)

LEMMA ContentFacts ==
  /\ \A f \in Names : /\ ContentsOf(f) \subseteq Contents
                      /\ Absent \in ContentsOf(f) /\ Empty \in ContentsOf(f)
                      /\ Cut \in ContentsOf(f)
                      /\ Unset \notin ContentsOf(f) /\ Short \notin ContentsOf(f)
                      /\ \A v \in Values(f) : Holds(v) \in ContentsOf(f)
                      /\ \A c \in ContentsOf(f) : Len(c) = 2 => c[2] \in Values(f)
  /\ Unset \notin Contents /\ Unset # Short /\ Cut # Empty
  /\ \A v : /\ Len(Holds(v)) = 2 /\ Holds(v)[2] = v
            /\ Holds(v) # Cut /\ Holds(v) # Empty /\ Holds(v) # Unset
BY FilesAssumption DEF Names, ContentsOf, Contents, Values, Absent, Empty, Cut, Short, Unset, Holds

LEMMA NamesFacts == "config" \in Names /\ "keys" \in Names /\ "config" # "keys"
BY DEF Names

LEMMA ListFacts ==
  /\ <<>> \in Lists /\ Members(<<>>) = {}
  /\ \A l \in Lists : Members(l) \subseteq Names
  /\ \A l \in Lists \ {<<>>} : /\ Head(l) \in Names /\ Head(l) \in Members(l)
                               /\ Tail(l) \in Lists
                               /\ Members(Tail(l)) = Members(l) \ {Head(l)}
<1>1. <<>> \in Lists /\ Members(<<>>) = {}
  BY DEF Lists, Members
<1>2. \A l \in Lists : Members(l) \subseteq Names
  BY DEF Lists, Members, Names
<1>3. ASSUME NEW l \in Lists, l # <<>>
      PROVE  /\ Head(l) \in Names /\ Head(l) \in Members(l)
             /\ Tail(l) \in Lists
             /\ Members(Tail(l)) = Members(l) \ {Head(l)}
  <2>1. CASE l = <<"config">>
    <3>1. Head(l) = "config" /\ Tail(l) = <<>> /\ Members(l) = {"config"}
      BY <2>1 DEF Members
    <3> QED BY <1>1, <3>1 DEF Names
  <2>2. CASE l = <<"keys">>
    <3>1. Head(l) = "keys" /\ Tail(l) = <<>> /\ Members(l) = {"keys"}
      BY <2>2 DEF Members
    <3> QED BY <1>1, <3>1 DEF Names
  <2>3. CASE l = <<"config", "keys">>
    <3>1. Head(l) = "config" /\ Tail(l) = <<"keys">> /\ Members(l) = {"config", "keys"}
      BY <2>3 DEF Members
    <3>2. Members(<<"keys">>) = {"keys"} /\ <<"keys">> \in Lists
      BY DEF Members, Lists
    <3> QED BY <3>1, <3>2 DEF Names
  <2> QED BY <1>3, <2>1, <2>2, <2>3 DEF Lists
<1> QED BY <1>1, <1>2, <1>3

LEMMA ListParts ==
  ASSUME NEW a \in {<<>>, <<"config">>}, NEW b \in {<<>>, <<"keys">>}
  PROVE  /\ a \o b \in Lists
         /\ "config" \in Members(a \o b) <=> a # <<>>
         /\ "keys" \in Members(a \o b) <=> b # <<>>
<1>1. CASE a = <<>> /\ b = <<>>
  <2>1. a \o b = <<>>
    BY <1>1
  <2> QED BY <1>1, <2>1 DEF Lists, Members
<1>2. CASE a = <<>> /\ b = <<"keys">>
  <2>1. a \o b = <<"keys">>
    BY <1>2
  <2>2. Members(<<"keys">>) = {"keys"}
    BY DEF Members
  <2> QED BY <1>2, <2>1, <2>2 DEF Lists
<1>3. CASE a = <<"config">> /\ b = <<>>
  <2>1. a \o b = <<"config">>
    BY <1>3
  <2>2. Members(<<"config">>) = {"config"}
    BY DEF Members
  <2> QED BY <1>3, <2>1, <2>2 DEF Lists
<1>4. CASE a = <<"config">> /\ b = <<"keys">>
  <2>1. a \o b = <<"config", "keys">>
    <3> DEFINE l == <<"config", "keys">>
    <3>1. /\ a \in Seq(Names) /\ b \in Seq(Names) /\ Len(a) = 1 /\ Len(b) = 1
          /\ a[1] = "config" /\ b[1] = "keys"
      BY <1>4 DEF Names
    <3>2. l \in Seq(Names) /\ Len(l) = 2 /\ l[1] = "config" /\ l[2] = "keys"
      BY DEF Names
    <3>3. /\ a \o b \in Seq(Names) /\ Len(a \o b) = 2
          /\ (a \o b)[1] = "config" /\ (a \o b)[2] = "keys"
      BY <3>1, ConcatProperties
    <3> HIDE DEF l
    <3>4. a \o b = l
      BY <3>2, <3>3, SeqEqual
    <3> QED BY <3>4 DEF l
  <2>2. Members(<<"config", "keys">>) = {"config", "keys"}
    BY DEF Members
  <2> QED BY <1>4, <2>1, <2>2 DEF Lists
<1> QED BY <1>1, <1>2, <1>3, <1>4

FilesInv == FileTypes /\ SettingsInv /\ RestoreInv

(* What the writes of os.WriteFile can leave in a file.                    *)
LEMMA WriteFacts ==
  ASSUME FileTypes, NEW f \in Names, NEW c \in ContentsOf(f)
  PROVE  Written(f, c) \subseteq ContentsOf(f) /\ Abandoned(f) \subseteq ContentsOf(f)
BY ContentFacts DEF FileTypes, Written, Abandoned

LEMMA ChangedFile ==
  ASSUME FileTypes, NEW f \in Names, NEW c \in ContentsOf(f), Change(f, c)
  PROVE  /\ file' \in [Names -> Contents] /\ file'[f] = c
         /\ \A g \in Names : file'[g] \in ContentsOf(g)
         /\ \A g \in Names : g # f => file'[g] = file[g]
BY ContentFacts DEF FileTypes, FilesTypeOK, Change

LEMMA StartInv == ASSUME FilesInv, serveCmd PROVE FilesInv'
<1> USE DEF FilesInv
<1>1. /\ ~ up /\ up' = TRUE /\ number' = LoadServerConfig /\ limit' = number' /\ keys' = InFile("keys")
      /\ told' = (IF told = Unset THEN Unset ELSE <<told[1], TRUE>>)
      /\ UNCHANGED <<file, env, saving, wizard, files, statted, archive, copied, restore, todo,
                     taken>>
  BY DEF serveCmd, backupVars, restoreVars
<1>2. \A f \in Names : InFile(f) \in Values(f) \cup {0}
  BY ContentFacts DEF FileTypes, InFile
<1>2a. env # Unset => env[1] \in Numbers
  BY FilesAssumption DEF FileTypes, FilesTypeOK, Maybe
<1>3. LoadServerConfig \in Numbers \cup {Default} /\ InFile("keys") \in 0..MaxKeys
  BY <1>2, <1>2a, NamesFacts, FilesAssumption DEF LoadServerConfig, applyEnv, defaults, Values
<1>3a. told' \in Maybe((Numbers \cup {Default}) \X BOOLEAN)
  BY <1>1 DEF FileTypes, FilesTypeOK, Maybe
<1>4. FileTypes'
  BY <1>1, <1>3, <1>3a DEF FileTypes, FilesTypeOK
<1>5. SettingsInv'
  <2>1. told' # Unset => told # Unset /\ told'[1] = told[1]
    BY <1>1
  <2>2. told # Unset => LoadServerConfig = applyEnv(defaults(told[1]))
    BY ContentFacts DEF SettingsInv, LoadServerConfig, InFile
  <2> QED BY <1>1, <2>1, <2>2, NamesFacts DEF SettingsInv, applyEnv, defaults, Nothing
<1>6. RestoreInv'
  BY <1>1 DEF RestoreInv
<1> QED BY <1>4, <1>5, <1>6

LEMMA KilledInv == ASSUME FilesInv, Killed PROVE FilesInv'
<1> USE DEF FilesInv
<1>1. /\ up' = FALSE /\ number' = Default /\ limit' = Default /\ keys' = 0 /\ saving' = Nothing
      /\ Touched({f \in Names : saving[f] # Unset})
      /\ UNCHANGED <<env, wizard, files, statted, archive, copied, restore, todo, told>>
      /\ file' \in [Names -> {file[f] : f \in Names} \cup {Cut}]
      /\ \A f \in Names : file'[f] \in IF saving[f] = Unset THEN {file[f]} ELSE {file[f], Cut}
  BY DEF Killed, backupVars, Abandoned
<1>2. \A f \in Names : file'[f] \in ContentsOf(f)
  BY <1>1, ContentFacts DEF FileTypes
<1>3. file' \in [Names -> Contents]
  BY <1>1, <1>2, ContentFacts
<1>4. taken' \subseteq Names
  BY <1>1 DEF Touched, FileTypes, FilesTypeOK
<1>5. \A f \in Names : saving'[f] = Unset
  BY <1>1 DEF Nothing
<1>5a. /\ saving' \in [Names -> Maybe(Contents)]
       /\ \A f \in Names : saving'[f] \in Maybe(ContentsOf(f))
  BY <1>1, <1>5 DEF Maybe, Nothing
<1>5b. number' \in Numbers \cup {Default} /\ limit' \in Numbers \cup {Default} /\ keys' \in 0..MaxKeys
  BY <1>1, FilesAssumption
<1>5c. up' \in BOOLEAN
  BY <1>1
<1>6. FileTypes'
  BY <1>1, <1>2, <1>3, <1>4, <1>5a, <1>5b, <1>5c DEF FileTypes, FilesTypeOK
<1>7. SettingsInv'
  BY <1>1, <1>5, NamesFacts DEF SettingsInv
<1>8. RestoreInv'
  <2>1. restore \notin {"idle", "failed"} =>
          /\ taken \subseteq taken'
          /\ \A f \in Names \ taken' : file'[f] = file[f]
    BY <1>1 DEF Touched
  <2>2. restore = "writing" => Head(todo) \in Names
    BY ListFacts DEF RestoreInv, FileTypes, FilesTypeOK
  <2> QED BY <1>1, <2>1, <2>2 DEF RestoreInv
<1> QED BY <1>6, <1>7, <1>8

LEMMA EditInv == ASSUME FilesInv, EditEnvironment PROVE FilesInv'
<1> USE DEF FilesInv
<1>1. /\ ~ up /\ env' \in Maybe({<<n>> : n \in Environment})
      /\ UNCHANGED <<file, up, number, limit, keys, saving, wizard, files, statted, archive, copied,
                     restore, todo, taken, told>>
  BY DEF EditEnvironment, serverVars, backupVars, restoreVars
<1>2. FileTypes'
  BY <1>1 DEF FileTypes, FilesTypeOK
<1>3. SettingsInv' /\ RestoreInv'
  BY <1>1 DEF SettingsInv, RestoreInv
<1> QED BY <1>2, <1>3

(* A save begins: the promise about server.yaml is withdrawn with the      *)
(* emptying of the file, and a restored file counts as taken.              *)
LEMMA BeginSaveInv ==
  ASSUME FilesInv, NEW f \in Names, NEW c \in ContentsOf(f), BeginSave(f, c),
         number' \in Numbers \cup {Default}, keys' \in 0..MaxKeys,
         IF f = "config" THEN c = Holds(number') ELSE number' = number
  PROVE  FilesInv'
<1> USE DEF FilesInv
<1>1. /\ up /\ saving[f] = Unset
      /\ UNCHANGED <<env, up, limit, wizard, files, statted, archive, copied, restore, todo>>
  BY DEF BeginSave, backupVars
<1>3. CASE /\ saving' = [saving EXCEPT ![f] = c]
           /\ Change(f, Empty) /\ Touched({f}) /\ Unpromised(f)
  <2>0. /\ told' = (IF f = "config" THEN Unset ELSE told)
        /\ told' \in Maybe((Numbers \cup {Default}) \X BOOLEAN)
    BY <1>3 DEF Unpromised, FileTypes, FilesTypeOK, Maybe
  <2>1. /\ file' \in [Names -> Contents] /\ file'[f] = Empty
        /\ \A g \in Names : file'[g] \in ContentsOf(g)
        /\ \A g \in Names : g # f => file'[g] = file[g]
    BY <1>3, ChangedFile, ContentFacts
  <2>2. /\ saving' \in [Names -> Maybe(Contents)]
        /\ \A g \in Names : saving'[g] \in Maybe(ContentsOf(g))
        /\ saving'[f] = c /\ \A g \in Names : g # f => saving'[g] = saving[g]
    BY <1>3, ContentFacts DEF FileTypes, FilesTypeOK, Maybe
  <2>3. /\ taken' \subseteq Names
        /\ restore \notin {"idle", "failed"} => taken' = taken \cup {f}
    BY <1>3 DEF Touched, FileTypes, FilesTypeOK
  <2>4. FileTypes'
    BY <1>1, <2>0, <2>1, <2>2, <2>3 DEF FileTypes, FilesTypeOK
  <2>5. SettingsInv'
    BY <1>1, <2>0, <2>1, <2>2, NamesFacts, ContentFacts DEF SettingsInv, applyEnv
  <2>6. RestoreInv'
    <3>1. restore = "writing" => Head(todo) \in Names
      BY ListFacts DEF RestoreInv, FileTypes, FilesTypeOK
    <3> QED BY <1>1, <2>1, <2>3, <3>1 DEF RestoreInv
  <2> QED BY <2>4, <2>5, <2>6
<1>4. CASE UNCHANGED <<file, saving, taken, told>>
  <2>1. FileTypes'
    BY <1>1, <1>4 DEF FileTypes, FilesTypeOK
  <2>2. SettingsInv'
    BY <1>1, <1>4, NamesFacts DEF SettingsInv, applyEnv
  <2>3. RestoreInv'
    BY <1>1, <1>4 DEF RestoreInv
  <2> QED BY <2>1, <2>2, <2>3
<1> QED BY <1>3, <1>4 DEF BeginSave

LEMMA UpdateConfigInv ==
  ASSUME FilesInv, NEW n \in Numbers \cup {number}, UpdateConfig(n) PROVE FilesInv'
<1>1. n \in Values("config") /\ n \in Numbers \cup {Default}
  BY DEF FilesInv, FileTypes, FilesTypeOK, Values
<1>2. /\ BeginSave("config", Holds(n)) /\ number' = n /\ keys' = keys
      /\ keys \in 0..MaxKeys
  BY DEF UpdateConfig, FilesInv, FileTypes, FilesTypeOK
<1> QED BY <1>1, <1>2, BeginSaveInv, ContentFacts, NamesFacts

LEMMA ChangeKeysInv == ASSUME FilesInv, ChangeKeys PROVE FilesInv'
<1>1. keys + 1 \in Values("keys") /\ keys + 1 \in 0..MaxKeys
  BY FilesAssumption DEF ChangeKeys, FilesInv, FileTypes, FilesTypeOK, Values
<1>2. /\ BeginSave("keys", Holds(keys + 1)) /\ keys' = keys + 1 /\ number' = number
      /\ number \in Numbers \cup {Default}
  BY DEF ChangeKeys, FilesInv, FileTypes, FilesTypeOK
<1> QED BY <1>1, <1>2, BeginSaveInv, ContentFacts, NamesFacts

LEMMA SaveEndsInv ==
  ASSUME FilesInv, NEW f \in Names, SaveEnds(f) PROVE FilesInv'
<1> USE DEF FilesInv
<1>1. /\ saving[f] # Unset /\ saving' = [saving EXCEPT ![f] = Unset]
      /\ Touched({f})
      /\ UNCHANGED <<env, up, number, limit, keys, wizard, files, statted, archive, copied, restore, todo>>
  BY DEF SaveEnds, backupVars
<1>2. saving[f] \in ContentsOf(f)
  BY <1>1 DEF FileTypes, Maybe
<1>3. PICK c \in ContentsOf(f) :
        /\ Change(f, c)
        /\ \/ told' = IF f = "config" /\ c = saving[f] THEN <<number, FALSE>> ELSE told
           \/ told' = told
  BY <1>2, WriteFacts DEF SaveEnds
<1>4. /\ file' \in [Names -> Contents] /\ file'[f] = c
      /\ \A g \in Names : file'[g] \in ContentsOf(g)
      /\ \A g \in Names : g # f => file'[g] = file[g]
  BY <1>3, ChangedFile
<1>5. /\ saving' \in [Names -> Maybe(Contents)]
      /\ \A g \in Names : saving'[g] \in Maybe(ContentsOf(g))
      /\ saving'[f] = Unset /\ \A g \in Names : g # f => saving'[g] = saving[g]
  BY <1>1 DEF FileTypes, FilesTypeOK, Maybe
<1>6. /\ taken' \subseteq Names
      /\ restore \notin {"idle", "failed"} => taken' = taken \cup {f}
  BY <1>1 DEF Touched, FileTypes, FilesTypeOK
<1>6a. <<number, FALSE>> \in (Numbers \cup {Default}) \X BOOLEAN
  <2>1. number \in Numbers \cup {Default} /\ FALSE \in BOOLEAN
    BY DEF FileTypes, FilesTypeOK
  <2> QED BY <2>1, Zenon
<1>7. told' \in Maybe((Numbers \cup {Default}) \X BOOLEAN)
  <2>1. told' = <<number, FALSE>> \/ told' = told
    BY <1>3
  <2> QED BY <1>6a, <2>1 DEF FileTypes, FilesTypeOK, Maybe
<1>8. FileTypes'
  BY <1>1, <1>4, <1>5, <1>6, <1>7 DEF FileTypes, FilesTypeOK
<1>9. SettingsInv'
  <2>1. ~ up => saving' = Nothing
    BY <1>1 DEF SettingsInv, Nothing
  <2>2. CASE f = "config"
    <3>1. told = Unset /\ saving["config"] = Holds(number)
      BY <1>1, <2>2 DEF SettingsInv
    <3>2. told' = Unset \/ (told' = <<number, FALSE>> /\ file'["config"] = Holds(number))
      BY <1>3, <1>4, <2>2, <3>1
    <3>3. CASE told' = Unset
      BY <1>5, <2>1, <1>1, <2>2, <3>3 DEF SettingsInv
    <3>4. CASE told' # Unset
      <4>0. told' = <<number, FALSE>>
        BY <3>2, <3>4
      <4>1. told'[1] = number /\ told'[2] = FALSE
        BY <4>0
      <4>2. ~ told'[2]
        BY <4>1, Zenon
      <4> QED BY <1>1, <1>5, <2>1, <2>2, <3>2, <3>4, <4>1, <4>2 DEF SettingsInv
    <3> QED BY <3>3, <3>4
  <2>3. CASE f # "config"
    BY <1>1, <1>3, <1>4, <1>5, <2>1, <2>3, NamesFacts DEF SettingsInv, applyEnv
  <2> QED BY <2>2, <2>3
<1>10. RestoreInv'
  <2>1. restore = "writing" => Head(todo) \in Names
    BY ListFacts DEF RestoreInv, FileTypes, FilesTypeOK
  <2> QED BY <1>1, <1>4, <1>6, <2>1 DEF RestoreInv
<1> QED BY <1>8, <1>9, <1>10

(* The wizard writes server.yaml, at its start and at its end.             *)
LEMMA WizardInv ==
  ASSUME FilesInv, runWizard \/ WizardEnds PROVE FilesInv'
<1> USE DEF FilesInv
<1>1. /\ Touched({"config"}) /\ told' = Unset
      /\ UNCHANGED <<env, up, number, limit, keys, saving, files, statted, archive, copied, restore, todo>>
  BY DEF runWizard, WizardEnds, Unpromised, serverVars, backupVars
<1>2. wizard' \in Maybe(ContentsOf("config")) /\ wizard' \in Maybe(Contents)
  BY ContentFacts, NamesFacts DEF runWizard, WizardEnds, Maybe, Values
<1>3. PICK c \in ContentsOf("config") : Change("config", c)
  <2>1. CASE runWizard
    BY <2>1, ContentFacts, NamesFacts DEF runWizard
  <2>2. CASE WizardEnds
    <3>1. wizard \in ContentsOf("config")
      BY <2>2 DEF WizardEnds, FileTypes, Maybe
    <3> QED BY <2>2, <3>1, WriteFacts, NamesFacts DEF WizardEnds
  <2> QED BY <2>1, <2>2
<1>4. /\ file' \in [Names -> Contents]
      /\ \A g \in Names : file'[g] \in ContentsOf(g)
      /\ \A g \in Names : g # "config" => file'[g] = file[g]
  BY <1>3, ChangedFile, NamesFacts
<1>5. /\ taken' \subseteq Names
      /\ restore \notin {"idle", "failed"} => taken' = taken \cup {"config"}
  BY <1>1, NamesFacts DEF Touched, FileTypes, FilesTypeOK
<1>6. FileTypes'
  BY <1>1, <1>2, <1>4, <1>5 DEF FileTypes, FilesTypeOK, Maybe
<1>7. SettingsInv'
  BY <1>1 DEF SettingsInv
<1>8. RestoreInv'
  <2>1. restore = "writing" => Head(todo) \in Names
    BY ListFacts DEF RestoreInv, FileTypes, FilesTypeOK
  <2> QED BY <1>1, <1>4, <1>5, <2>1 DEF RestoreInv
<1> QED BY <1>6, <1>7, <1>8

(* A step of a backup leaves the files and the settings alone; a restore   *)
(* is not under way while it runs.                                         *)
LEMMA BackupInv ==
  ASSUME FilesInv, runBackup \/ addFileToTar \/ BackupFails PROVE FilesInv'
<1> USE DEF FilesInv
<1>1. UNCHANGED <<file, env, up, number, limit, keys, saving, wizard, todo, told>>
  BY DEF runBackup, addFileToTar, BackupFails, serverVars, restoreVars
<1>2. /\ restore' = "idle" /\ taken' \subseteq Names
      /\ files' \in Lists /\ statted' \in Maybe(Contents)
      /\ copied' \in [Names -> Maybe(Contents)]
      /\ archive' \in [entries : [Names -> Maybe(Contents \cup {Short})],
                       ends : {"none", "partial", "failed", "closed"}]
      /\ \A f \in Names : archive'.entries[f] \in Maybe(ContentsOf(f) \cup {Short})
  <2>1. CASE runBackup
    <3>1. FilesToBackUp \in Lists \ {<<>>}
      BY <2>1, ListParts DEF runBackup, FilesToBackUp
    <3>2. files' = FilesToBackUp /\ statted' = file[Head(files')]
      BY <2>1 DEF runBackup
    <3>3. statted' \in Contents
      BY <3>1, <3>2, ListFacts DEF FileTypes, FilesTypeOK
    <3> QED BY <2>1, <3>1, <3>2, <3>3 DEF runBackup, Maybe, Nothing
  <2>2. CASE addFileToTar
    <3>1. /\ files # <<>> /\ files \in Lists /\ restore = "idle" /\ taken \subseteq Names
          /\ UNCHANGED <<restore, taken>>
      BY <2>2 DEF addFileToTar, restoreVars, RestoreInv, FileTypes, FilesTypeOK
    <3>2. Head(files) \in Names /\ Tail(files) \in Lists
      BY <3>1, ListFacts
    <3>3. Tail(files) # <<>> => Head(Tail(files)) \in Names
      BY <3>2, ListFacts
    <3>4. files' = Tail(files) /\ statted' \in Maybe(Contents)
      BY <2>2, <3>3 DEF addFileToTar, Maybe, FileTypes, FilesTypeOK
    <3>4a. copied' \in [Names -> Maybe(Contents)]
      BY <2>2, <3>2 DEF addFileToTar, Maybe, FileTypes, FilesTypeOK
    <3>5. PICK e \in Entry(statted, file[Head(files)]) :
            archive' = [entries |-> [archive.entries EXCEPT ![Head(files)] = e],
                        ends |-> IF Tail(files) = <<>> THEN "closed" ELSE "partial"]
      BY <2>2 DEF addFileToTar
    <3>6. e \in ContentsOf(Head(files)) \cup {Short} /\ e \in Contents \cup {Short}
      BY <3>2, <3>5, ContentFacts DEF Entry, FileTypes
    <3> QED BY <3>1, <3>2, <3>4, <3>4a, <3>5, <3>6 DEF FileTypes, FilesTypeOK, Maybe
  <2>3. CASE BackupFails
    <3>1. /\ files # <<>> /\ files \in Lists /\ restore = "idle" /\ taken \subseteq Names
          /\ files' = <<>> /\ statted' = Unset
          /\ UNCHANGED <<restore, taken, copied>> /\ copied \in [Names -> Maybe(Contents)]
      BY <2>3 DEF BackupFails, restoreVars, RestoreInv, FileTypes, FilesTypeOK
    <3>2. Head(files) \in Names /\ <<>> \in Lists
      BY <3>1, ListFacts
    <3>3. CASE UNCHANGED archive
      BY <3>1, <3>2, <3>3 DEF FileTypes, FilesTypeOK, Maybe
    <3>4. ASSUME NEW e \in {Unset, Short, Cut, Empty},
                 archive' = [entries |-> [archive.entries EXCEPT ![Head(files)] = e],
                             ends |-> "failed"]
          PROVE  /\ archive' \in [entries : [Names -> Maybe(Contents \cup {Short})],
                                  ends : {"none", "partial", "failed", "closed"}]
                 /\ \A f \in Names : archive'.entries[f] \in Maybe(ContentsOf(f) \cup {Short})
      <4>1. e \in Maybe(ContentsOf(Head(files)) \cup {Short}) /\ e \in Maybe(Contents \cup {Short})
        BY <3>2, <3>4, ContentFacts DEF Maybe
      <4> QED BY <3>2, <3>4, <4>1 DEF FileTypes, FilesTypeOK
    <3> QED BY <2>3, <3>1, <3>2, <3>3, <3>4 DEF BackupFails, Maybe
  <2> QED BY <2>1, <2>2, <2>3
<1>3. FileTypes'
  BY <1>1, <1>2 DEF FileTypes, FilesTypeOK
<1>4. SettingsInv'
  BY <1>1 DEF SettingsInv, applyEnv
<1>5. RestoreInv'
  BY <1>2 DEF RestoreInv
<1> QED BY <1>3, <1>4, <1>5

LEMMA RunRestoreInv == ASSUME FilesInv, runRestore PROVE FilesInv'
<1> USE DEF FilesInv
<1>1. /\ files = <<>> /\ restore' = "opening" /\ taken' = {} /\ todo' = EntriesToUnpack
      /\ UNCHANGED <<file, env, up, number, limit, keys, saving, wizard, files, statted, archive, copied, told>>
  BY DEF runRestore, AtPrompt, serverVars, backupVars
<1>2. /\ todo' \in Lists
      /\ "config" \in Members(todo') <=> archive.entries["config"] # Unset
      /\ "keys" \in Members(todo') <=> archive.entries["keys"] # Unset
  BY <1>1, ListParts DEF EntriesToUnpack
<1>3. \A f \in Names : f \in Members(todo') <=> archive.entries[f] # Unset
  BY <1>2 DEF Names
<1>4. FileTypes'
  BY <1>1, <1>2 DEF FileTypes, FilesTypeOK
<1>5. SettingsInv'
  BY <1>1 DEF SettingsInv, applyEnv
<1>6. RestoreInv'
  <2>1. Members(todo') \subseteq Names
    BY <1>2, ListFacts
  <2> QED BY <1>1, <1>3, <2>1 DEF RestoreInv, Members
<1> QED BY <1>4, <1>5, <1>6

(* The restore opens the file of its next entry: from here on it is as     *)
(* good as its archive entry unless somebody else writes to it.            *)
LEMMA OpenEntryInv == ASSUME FilesInv, OpenEntry PROVE FilesInv'
<1> USE DEF FilesInv
<1>1. /\ restore = "opening" /\ todo # <<>> /\ restore' = "writing"
      /\ Change(Head(todo), Empty) /\ taken' = taken \ {Head(todo)}
      /\ told' = (IF Head(todo) = "config" THEN Unset ELSE told)
      /\ UNCHANGED <<env, up, number, limit, keys, saving, wizard, files, statted, archive, copied, todo>>
  BY DEF OpenEntry, Unpromised, serverVars, backupVars
<1>2. PICK f \in Names : f = Head(todo) /\ f \in Members(todo) /\ Members(todo) \subseteq Names
  BY <1>1, ListFacts DEF FileTypes, FilesTypeOK
<1>3. /\ file' \in [Names -> Contents] /\ file'[f] = Empty
      /\ \A g \in Names : file'[g] \in ContentsOf(g)
      /\ \A g \in Names : g # f => file'[g] = file[g]
  BY <1>1, <1>2, ChangedFile, ContentFacts
<1>4. told' \in Maybe((Numbers \cup {Default}) \X BOOLEAN)
  BY <1>1 DEF FileTypes, FilesTypeOK, Maybe
<1>5. FileTypes'
  BY <1>1, <1>3, <1>4 DEF FileTypes, FilesTypeOK
<1>6. SettingsInv'
  BY <1>1, <1>2, <1>3, NamesFacts DEF SettingsInv, applyEnv
<1>7. RestoreInv'
  BY <1>1, <1>2, <1>3 DEF RestoreInv, Members
<1> QED BY <1>5, <1>6, <1>7

LEMMA WriteEntryInv == ASSUME FilesInv, WriteEntry PROVE FilesInv'
<1> USE DEF FilesInv
<1>0. restore = "writing" /\ todo # <<>> /\ todo \in Lists
  BY DEF WriteEntry, RestoreInv, FileTypes, FilesTypeOK
<1>1. PICK f \in Names : f = Head(todo) /\ f \in Members(todo)
  BY <1>0, ListFacts
<1> DEFINE e == archive.entries[f]
<1>2. /\ restore' = (IF e = Short THEN "failed" ELSE "opening") /\ todo' = Tail(todo)
      /\ told' = (IF f = "config" THEN Unset ELSE told)
      /\ UNCHANGED <<env, up, number, limit, keys, saving, wizard, files, statted, archive, copied, taken>>
  BY <1>1 DEF WriteEntry, Unpromised, serverVars, backupVars
<1>3. e # Unset /\ e \in ContentsOf(f) \cup {Short}
  BY <1>0, <1>1 DEF RestoreInv, FileTypes, Maybe
<1>4. PICK c \in ContentsOf(f) : /\ Change(f, c)
                                 /\ e # Short => c \in Written(f, e)
  BY <1>1, <1>3, WriteFacts, ContentFacts DEF WriteEntry
<1>5. /\ file' \in [Names -> Contents] /\ file'[f] = c
      /\ \A g \in Names : file'[g] \in ContentsOf(g)
      /\ \A g \in Names : g # f => file'[g] = file[g]
  BY <1>4, ChangedFile
<1>6. todo' \in Lists /\ Members(todo') = Members(todo) \ {f} /\ Members(todo) \subseteq Names
  BY <1>0, <1>1, <1>2, ListFacts
<1>7. told' \in Maybe((Numbers \cup {Default}) \X BOOLEAN)
  BY <1>2 DEF FileTypes, FilesTypeOK, Maybe
<1>8. FileTypes'
  BY <1>2, <1>5, <1>6, <1>7 DEF FileTypes, FilesTypeOK
<1>9. SettingsInv'
  BY <1>2, <1>5, NamesFacts DEF SettingsInv, applyEnv
<1>10. f \notin taken /\ e # Short => file'[f] = e
  BY <1>0, <1>1, <1>4, <1>5 DEF RestoreInv, Written
<1>11. files' # <<>> => restore' = "idle"
  BY <1>0, <1>2 DEF RestoreInv
<1>12. RestoreInv'
  BY <1>0, <1>1, <1>2, <1>5, <1>6, <1>10, <1>11 DEF RestoreInv, Members
<1> QED BY <1>8, <1>9, <1>12

LEMMA RestoreEndsInv == ASSUME FilesInv, RestoreEnds PROVE FilesInv'
<1> USE DEF FilesInv
<1>1. /\ restore = "opening" /\ todo = <<>>
      /\ restore' \in {"failed", "done"}
      /\ UNCHANGED <<file, env, up, number, limit, keys, saving, wizard, files, statted, archive, copied,
                     todo, taken, told>>
  BY DEF RestoreEnds, serverVars, backupVars
<1>2. FileTypes'
  BY <1>1 DEF FileTypes, FilesTypeOK
<1>3. SettingsInv'
  BY <1>1 DEF SettingsInv, applyEnv
<1>4. RestoreInv'
  BY <1>1 DEF RestoreInv, Members
<1> QED BY <1>2, <1>3, <1>4

LEMMA RestoreFailsInv == ASSUME FilesInv, RestoreFails PROVE FilesInv'
<1> USE DEF FilesInv
<1>1. /\ restore \in {"opening", "writing"} /\ restore' = "failed" /\ todo' = <<>> /\ taken' = {}
      /\ UNCHANGED <<env, up, number, limit, keys, saving, wizard, files, statted, archive, copied>>
  BY DEF RestoreFails, serverVars, backupVars
<1>2. /\ told' \in {Unset, told} /\ file' \in [Names -> Contents]
      /\ \A g \in Names : file'[g] \in ContentsOf(g)
      /\ told' # Unset => file'["config"] = file["config"]
  <2>1. CASE restore = "opening"
    BY <1>1, <2>1 DEF RestoreFails, FileTypes, FilesTypeOK
  <2>2. CASE restore = "writing"
    <3>1. PICK f \in Names : f = Head(todo)
      BY <2>2, ListFacts DEF RestoreInv, FileTypes, FilesTypeOK
    <3>2. PICK c \in ContentsOf(f) : Change(f, c)
      BY <2>2, <3>1, WriteFacts, ContentFacts DEF RestoreFails
    <3>3. told' = (IF f = "config" THEN Unset ELSE told)
      BY <2>2, <3>1 DEF RestoreFails, Unpromised
    <3> QED BY <3>2, <3>3, ChangedFile, NamesFacts
  <2> QED BY <1>1, <2>1, <2>2
<1>3. told' \in Maybe((Numbers \cup {Default}) \X BOOLEAN)
  BY <1>2 DEF FileTypes, FilesTypeOK, Maybe
<1>4. FileTypes'
  BY <1>1, <1>2, <1>3, ListFacts DEF FileTypes, FilesTypeOK
<1>5. SettingsInv'
  BY <1>1, <1>2 DEF SettingsInv, applyEnv
<1>6. RestoreInv'
  BY <1>1 DEF RestoreInv
<1> QED BY <1>4, <1>5, <1>6

---------------------------------------------------------------------------
(* The machine                                                             *)

LEMMA FilesStepInv ==
  ASSUME FilesInv, serveCmd \/ Commands \/ FilesNext \/ UNCHANGED vars
  PROVE  FilesInv'
<1>1. CASE serveCmd \/ Commands
  BY <1>1, StartInv, WizardInv, BackupInv, RunRestoreInv DEF Commands
<1>2. CASE FilesNext
  BY <1>2, KilledInv, EditInv, UpdateConfigInv, ChangeKeysInv, SaveEndsInv, WizardInv,
    BackupInv, OpenEntryInv, WriteEntryInv, RestoreEndsInv, RestoreFailsInv DEF FilesNext
<1>3. CASE UNCHANGED vars
  <2> USE <1>3 DEF vars, serverVars, backupVars, restoreVars, FilesInv
  <2>1. FileTypes'
    BY DEF FileTypes, FilesTypeOK
  <2>2. SettingsInv' /\ RestoreInv'
    BY DEF SettingsInv, applyEnv, RestoreInv
  <2> QED BY <2>1, <2>2
<1> QED BY <1>1, <1>2, <1>3

(* Only a backup writes the archive, one file after the other.             *)
LEMMA CopyStepInv ==
  ASSUME FilesInv, CopyInv, serveCmd \/ Commands \/ FilesNext \/ UNCHANGED vars
  PROVE  CopyInv'
<1> USE DEF FilesInv
<1>1. CASE runBackup
  BY <1>1 DEF runBackup, CopyInv
<1>2. CASE addFileToTar
  <2>1. /\ files # <<>> /\ files \in Lists /\ archive.ends = "partial"
        /\ archive.entries = copied /\ files' = Tail(files)
    BY <1>2 DEF addFileToTar, CopyInv, FileTypes, FilesTypeOK
  <2>2. PICK f \in Names : f = Head(files)
    BY <2>1, ListFacts
  <2>3. PICK e \in Entry(statted, file[f]) :
          /\ Tail(files) = <<>> \/ e # Short
          /\ archive' = [entries |-> [archive.entries EXCEPT ![f] = e],
                         ends |-> IF Tail(files) = <<>> THEN "closed" ELSE "partial"]
    BY <1>2, <2>2 DEF addFileToTar
  <2>4. e \in {file[f], Short} /\ copied' = [copied EXCEPT ![f] = file[f]]
    BY <1>2, <2>2, <2>3 DEF addFileToTar, Entry
  <2>5. /\ copied \in [Names -> Maybe(Contents)]
        /\ archive'.entries = [copied EXCEPT ![f] = e]
        /\ archive'.ends = IF Tail(files) = <<>> THEN "closed" ELSE "partial"
    BY <2>1, <2>3 DEF FileTypes, FilesTypeOK
  <2>6. CASE Tail(files) = <<>>
    BY <2>1, <2>2, <2>4, <2>5, <2>6 DEF CopyInv
  <2>7. CASE Tail(files) # <<>>
    BY <2>1, <2>2, <2>3, <2>4, <2>5, <2>7 DEF CopyInv
  <2> QED BY <2>6, <2>7
<1>3. CASE BackupFails
  <2>1. archive' = archive \/ archive'.ends = "failed"
    BY <1>3 DEF BackupFails
  <2> QED BY <1>3, <2>1 DEF BackupFails, CopyInv
<1>4. CASE UNCHANGED backupVars
  BY <1>4 DEF backupVars, CopyInv
<1>5. CASE serveCmd \/ runWizard \/ runRestore \/ UNCHANGED vars
  BY <1>4, <1>5 DEF serveCmd, runWizard, runRestore, vars
<1>6. CASE Killed \/ EditEnvironment \/ ChangeKeys \/ WizardEnds \/ OpenEntry \/ WriteEntry
           \/ RestoreEnds \/ RestoreFails
  BY <1>4, <1>6 DEF Killed, EditEnvironment, ChangeKeys, BeginSave, WizardEnds, OpenEntry,
    WriteEntry, RestoreEnds, RestoreFails
<1>7. CASE (\E n \in Numbers \cup {number} : UpdateConfig(n)) \/ (\E f \in Names : SaveEnds(f))
  BY <1>4, <1>7 DEF UpdateConfig, BeginSave, SaveEnds
<1> QED BY <1>1, <1>2, <1>3, <1>5, <1>6, <1>7 DEF Commands, FilesNext

LEMMA DeploymentInitInv == DeploymentInit => DeploymentInv
<1> SUFFICES ASSUME DeploymentInit PROVE DeploymentInv
  OBVIOUS
<1> USE DEF DeploymentInit
<1>1. \A f \in Names : file[f] = Absent /\ saving[f] = Unset /\ archive.entries[f] = Unset
  BY DEF Init, Nothing
<1>2. /\ up \in BOOLEAN /\ number \in Numbers \cup {Default} /\ limit \in Numbers \cup {Default}
      /\ keys \in 0..MaxKeys
  <2>1. up \in BOOLEAN
    BY DEF Init
  <2> QED BY <2>1, FilesAssumption DEF Init
<1>3. FilesTypeOK
  BY <1>2, ContentFacts, ListFacts, NamesFacts DEF Init, FilesTypeOK, Maybe, Nothing
<1>4. FileTypes
  BY <1>1, <1>3, ContentFacts DEF FileTypes, Init, Maybe
<1>5. SettingsInv /\ RestoreInv /\ CopyInv
  BY <1>1, NamesFacts DEF Init, SettingsInv, RestoreInv, CopyInv
<1>6. UpgradeTypeOK /\ UpgradeInv
  BY BinaryFacts, LatestAssumption DEF UpgradeInit, UpgradeTypeOK, UpgradeInv, Releases, Steps
<1> QED BY <1>4, <1>5, <1>6 DEF DeploymentInv

LEMMA DeploymentNextInv == DeploymentInv /\ [DeploymentNext]_deploymentVars => DeploymentInv'
<1> SUFFICES ASSUME DeploymentInv, [DeploymentNext]_deploymentVars PROVE DeploymentInv'
  OBVIOUS
<1>1. /\ serveCmd \/ Commands \/ FilesNext \/ UNCHANGED vars
      /\ runUpgrade \/ UpgradeNext \/ UNCHANGED upgradeVars
  BY DEF DeploymentNext, deploymentVars, StartService, RestartService, FilesNext, UpgradeNext
<1> QED BY <1>1, FilesStepInv, CopyStepInv, UpgradeStepInv DEF DeploymentInv, FilesInv

LEMMA DeploymentInvHolds == Spec => []DeploymentInv
BY DeploymentInitInv, DeploymentNextInv, PTL DEF Spec

(* Every file of the deployed server holds what one of its own writers can *)
(* have put there, in every interleaving of server, wizard, backup,        *)
(* restore, upgrade and kills.                                             *)
THEOREM DeploymentTypes == Spec => []TypeOK
<1>1. DeploymentInv => TypeOK
  BY DEF DeploymentInv, FileTypes, TypeOK
<1> QED BY <1>1, DeploymentInvHolds, PTL

(* A change the dashboard acknowledged is what the server enforces from    *)
(* its next start on, through crashes, restarts and saves that cannot open *)
(* the file, until server.yaml is emptied by its next writer.              *)
THEOREM SettingsSurviveRestarts == Spec => []SettingsSurvive
<1>1. DeploymentInv => SettingsSurvive
  BY DEF DeploymentInv, SettingsInv, SettingsSurvive
<1> QED BY <1>1, DeploymentInvHolds, PTL

(* A restore reported as complete, of a backup reported as made, has put   *)
(* back into every file of the archive what the backup read there, unless  *)
(* somebody else has written the file since.  An archive with too little   *)
(* of a file, though reported as made, is never reported as restored.      *)
THEOREM RestoresAreFaithful == Spec => []RestoreIsFaithful
<1>1. ASSUME DeploymentInv, restore = "done", archive.ends = "closed", NEW f \in Names \ taken
      PROVE  copied[f] \in {Unset, file[f]}
  <2>1. Members(todo) = {}
    BY <1>1, ListFacts DEF DeploymentInv, RestoreInv
  <2>2. archive.entries[f] \in {Unset, file[f]} /\ archive.entries[f] \in {copied[f], Short}
    BY <1>1, <2>1 DEF DeploymentInv, RestoreInv, CopyInv
  <2>3. file[f] \in ContentsOf(f)
    BY <1>1 DEF DeploymentInv, FileTypes
  <2> QED BY <2>2, <2>3, ContentFacts
<1>2. DeploymentInv => RestoreIsFaithful
  BY <1>1 DEF RestoreIsFaithful
<1> QED BY <1>2, DeploymentInvHolds, PTL

(* Whichever system call of replaceBinary fails and wherever the upgrade   *)
(* is killed, a complete binary is left, and the reported outcome is true. *)
THEOREM UpgradesAreSafe == Spec => []UpgradeIsSafe
<1>1. DeploymentInv => UpgradeIsSafe
  BY BinaryFacts DEF DeploymentInv, UpgradeTypeOK, UpgradeInv, UpgradeIsSafe, Steps
<1> QED BY <1>1, DeploymentInvHolds, PTL
=============================================================================
