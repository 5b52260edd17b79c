-------------------------- MODULE ClientCLIProofs --------------------------
(***************************************************************************)
(* Proofs about the client's commands and the file they share, for any     *)
(* number of terminals, servers, keys and names.                           *)
(***************************************************************************)
EXTENDS ClientCLI, TLAPS

(* The contents of the file.                                               *)
LEMMA ContentLengths ==
  /\ Len(Absent) = 1 /\ Len(Empty) = 1 /\ Len(Cut) = 1
  /\ \A c : Len(Holds(c)) = 2 /\ Holds(c)[2] = c
BY DEF Absent, Empty, Cut, Holds

LEMMA ContentParts ==
  ASSUME NEW f \in Contents
  PROVE  /\ Len(f) = 2 => f[2] \in Configs
         /\ f = Empty \/ f = Cut => Len(f) # 2
BY ContentLengths DEF Contents

LEMMA BlankType == Blank \in Configs
BY DEF Blank, Configs, Addresses, Tokens

(* What a command has read and changed is a configuration.                 *)
LEMMA LoadType ==
  ASSUME file \in Contents
  PROVE  LoadClientConfig \in Configs
BY ContentParts, BlankType DEF LoadClientConfig

LEMMA LoadFlagsType ==
  ASSUME file \in Contents, NEW server \in Addresses, NEW token \in Tokens
  PROVE  loadClientCfg(server, token) \in Configs
BY LoadType DEF loadClientCfg, Configs, Addresses

LEMMA ConfigParts ==
  /\ \A c \in Configs, s \in Addresses :
       [c EXCEPT !.server = s] \in Configs /\ [c EXCEPT !.server = s].server = s
       /\ [c EXCEPT !.server = s].token = c.token
  /\ \A c \in Configs, k \in Tokens :
       [c EXCEPT !.token = k] \in Configs /\ [c EXCEPT !.token = k].token = k
       /\ [c EXCEPT !.token = k].server = c.server
  /\ \A s \in Addresses, k \in Tokens : [server |-> s, token |-> k] \in Configs
  /\ \A c \in Configs : c.server \in Addresses /\ c.token \in Tokens
BY DEF Configs

Results == {<<>>} \cup {<<k>> : k \in Tokens}

LEMMA ResultHead ==
  ASSUME NEW r \in Results, r # <<>>
  PROVE  Head(r) \in Tokens
BY DEF Results

---------------------------------------------------------------------------
(* Types.                                                                  *)

(* What has the variables' types, kept apart so that each action disturbs  *)
(* few of them.                                                            *)
ProcTypes ==
  /\ cmd \in [Procs -> Commands] /\ pc \in [Procs -> Places]
  /\ cfg \in [Procs -> Configs] /\ sub \in [Procs -> Subdomains \cup {None}]
  /\ next \in [Procs -> {"idle", "start", "account"}]
LoginTypes ==
  /\ srv \in [Procs -> BOOLEAN]
  /\ closer \in [Procs -> {"starting", "select", "closing", "gone"}]
  /\ ch \in [Procs -> Results]
  /\ ctxDone \in [Procs -> BOOLEAN]
HistoryTypes ==
  disowned \in [Procs -> BOOLEAN] /\ loggedOut \in BOOLEAN /\ home \in Addresses

LEMMA TypeParts == TypeOK <=> file \in Contents /\ ProcTypes /\ LoginTypes /\ HistoryTypes
BY DEF TypeOK, ProcTypes, LoginTypes, HistoryTypes, Results

LEMMA TypesInit == Init => TypeOK
<1> SUFFICES ASSUME Init PROVE file \in Contents /\ ProcTypes /\ LoginTypes /\ HistoryTypes
  BY TypeParts
<1>1. file \in Contents /\ ProcTypes
  BY BlankType DEF Init, Contents, ProcTypes, Commands, Places
<1>2. LoginTypes
  BY DEF Init, LoginTypes, Results
<1>3. HistoryTypes
  BY DEF Init, HistoryTypes, Addresses
<1> QED BY <1>1, <1>2, <1>3

(* The ends of a command and of a save.                                    *)
LEMMA ExitTypes ==
  ASSUME ProcTypes, LoginTypes, disowned \in [Procs -> BOOLEAN],
         NEW p \in Procs, Exit(p)
  PROVE  ProcTypes' /\ LoginTypes' /\ disowned' \in [Procs -> BOOLEAN]
<1>1. ProcTypes'
  BY BlankType DEF Exit, ProcTypes, Commands, Places
<1>2. LoginTypes'
  <2>1. <<>> \in Results
    BY DEF Results
  <2> QED BY <2>1 DEF Exit, LoginTypes
<1>3. disowned' \in [Procs -> BOOLEAN]
  BY DEF Exit
<1> QED BY <1>1, <1>2, <1>3

LEMMA OpenSaveTypes ==
  ASSUME ProcTypes, NEW p \in Procs, NEW c \in Configs,
         NEW then \in {"idle", "start", "account"}, OpenSave(p, c, then)
  PROVE  /\ file' \in Contents /\ pc' \in [Procs -> Places]
         /\ cfg' \in [Procs -> Configs] /\ next' \in [Procs -> {"idle", "start", "account"}]
BY DEF OpenSave, Goto, ProcTypes, Contents, Places

LEMMA GivenTypes ==
  ASSUME HistoryTypes, NEW p \in Procs, NEW server, NEW token, Given(p, server, token)
  PROVE  loggedOut' \in BOOLEAN /\ home' \in Addresses
<1>1. loggedOut' \in BOOLEAN
  BY DEF Given
<1>2. home' \in Addresses
  BY DEF Given, HistoryTypes, Addresses
<1> QED BY <1>1, <1>2

LEMMA TypesStep == TypeOK /\ [Next]_vars => TypeOK'
<1> SUFFICES ASSUME file \in Contents, ProcTypes, LoginTypes, HistoryTypes, [Next]_vars
             PROVE  (file \in Contents /\ ProcTypes /\ LoginTypes /\ HistoryTypes)'
  BY DEF TypeOK, ProcTypes, LoginTypes, HistoryTypes, Results
<1> DEFINE Types == file \in Contents /\ ProcTypes /\ LoginTypes /\ HistoryTypes
<1>a. Servers \cup {None} \subseteq Addresses /\ None \in Tokens
  BY DEF Addresses, Tokens
<1>b. ASSUME NEW p \in Procs PROVE cfg[p] \in Configs
  BY DEF ProcTypes
<1>1. ASSUME NEW p \in Procs, NEW server \in Servers \cup {None}, NEW token \in Tokens,
             authCmd(p, server, token)
      PROVE  Types'
  <2>1. [server |-> server, token |-> token] \in Configs
    BY <1>a, ConfigParts
  <2>2. /\ file' \in Contents /\ pc' \in [Procs -> Places]
        /\ cfg' \in [Procs -> Configs] /\ next' \in [Procs -> {"idle", "start", "account"}]
    BY <1>1, <2>1, OpenSaveTypes DEF authCmd
  <2>3. ProcTypes'
    BY <1>1, <2>2 DEF authCmd, ProcTypes, Commands
  <2>4. LoginTypes'
    BY <1>1 DEF authCmd, LoginTypes, loginVars
  <2>5. HistoryTypes'
    BY <1>1, <1>a DEF authCmd, HistoryTypes
  <2> QED BY <2>2, <2>3, <2>4, <2>5
<1>2. ASSUME NEW p \in Procs, logoutCmd(p) PROVE Types'
  <2>1. [server |-> IF file = Cut THEN None ELSE LoadClientConfig.server,
         token |-> None] \in Configs
    <3>1. (IF file = Cut THEN None ELSE LoadClientConfig.server) \in Addresses
      BY <1>a, LoadType, ConfigParts
    <3> QED BY <1>a, <3>1, ConfigParts
  <2>2. file' \in Contents
    BY <1>2 DEF logoutCmd, ReadForLogout
  <2>3. ProcTypes'
    BY <1>2, <2>1 DEF logoutCmd, ReadForLogout, Goto, ProcTypes, Commands, Places
  <2>4. LoginTypes'
    BY <1>2 DEF logoutCmd, ReadForLogout, LoginTypes, loginVars
  <2>5. HistoryTypes'
    BY <1>2, GivenTypes DEF logoutCmd, ReadForLogout, HistoryTypes
  <2> QED BY <2>2, <2>3, <2>4, <2>5
<1>17. ASSUME NEW p \in Procs, SaveLogout(p) PROVE Types'
  <2>1. /\ file' \in Contents /\ pc' \in [Procs -> Places]
        /\ cfg' \in [Procs -> Configs] /\ next' \in [Procs -> {"idle", "start", "account"}]
    BY <1>17, <1>b, OpenSaveTypes DEF SaveLogout
  <2>2. ProcTypes'
    BY <1>17, <2>1 DEF SaveLogout, ProcTypes
  <2>3. LoginTypes' /\ HistoryTypes'
    BY <1>17 DEF SaveLogout, LoginTypes, HistoryTypes, loginVars, history
  <2> QED BY <2>1, <2>2, <2>3
<1>3. ASSUME NEW p \in Procs, NEW command \in {"http", "tcp", "login", "setup"},
             NEW server \in Servers \cup {None}, NEW token \in Tokens,
             NEW name \in Requested \cup {None}, Start(p, command, server, token, name)
      PROVE  Types'
  <2> DEFINE c == loadClientCfg(server, token)
  <2>1. c \in Configs
    BY <1>a, LoadFlagsType
  <2>2. FirstPlace(command, c, name) \in Places
    BY DEF FirstPlace, Places
  <2>3. name \in Subdomains \cup {None}
    BY RequestedAssumption
  <2> HIDE DEF c
  <2>4. /\ cmd' = [cmd EXCEPT ![p] = command] /\ cfg' = [cfg EXCEPT ![p] = c]
        /\ sub' = [sub EXCEPT ![p] = name]
        /\ pc' = [pc EXCEPT ![p] = FirstPlace(command, c, name)]
        /\ UNCHANGED <<file, next, loginVars, disowned>>
    BY <1>3 DEF Start, Goto, c
  <2>5. ProcTypes'
    BY <2>1, <2>2, <2>3, <2>4 DEF ProcTypes, Commands
  <2>6. LoginTypes'
    BY <2>4 DEF LoginTypes, loginVars
  <2>7. HistoryTypes'
    BY <1>3, <2>4, GivenTypes DEF Start, HistoryTypes
  <2> QED BY <2>4, <2>5, <2>6, <2>7
<1>4. ASSUME NEW p \in Procs, NEW server \in Servers, TypeAddress(p, server) PROVE Types'
  <2> DEFINE c == [cfg[p] EXCEPT !.server = server]
  <2>1. c \in Configs
    BY <1>a, <1>b, ConfigParts
  <2> HIDE DEF c
  <2>2. /\ \/ \E then \in {"idle", "start"} : OpenSave(p, c, then)
           \/ cfg' = [cfg EXCEPT ![p] = c] /\ Goto(p, "start") /\ UNCHANGED <<file, next>>
        /\ home' = None /\ UNCHANGED <<cmd, sub, loginVars, disowned, loggedOut>>
    BY <1>4 DEF TypeAddress, c
  <2>3. /\ file' \in Contents /\ pc' \in [Procs -> Places]
        /\ cfg' \in [Procs -> Configs] /\ next' \in [Procs -> {"idle", "start", "account"}]
    <3>1. ASSUME NEW then \in {"idle", "start"}, OpenSave(p, c, then) PROVE <2>3
      BY <2>1, <3>1, OpenSaveTypes
    <3>2. CASE cfg' = [cfg EXCEPT ![p] = c] /\ Goto(p, "start") /\ UNCHANGED <<file, next>>
      BY <2>1, <3>2 DEF Goto, ProcTypes, Places
    <3> QED BY <2>2, <3>1, <3>2
  <2>4. ProcTypes'
    BY <2>2, <2>3 DEF ProcTypes
  <2>5. LoginTypes' /\ HistoryTypes'
    BY <1>a, <2>2 DEF LoginTypes, loginVars, HistoryTypes
  <2> QED BY <2>3, <2>4, <2>5
<1>5. ASSUME NEW p \in Procs, SaveEnds(p) PROVE Types'
  <2>1. file' \in {Holds(cfg[p]), Cut}
    BY <1>5 DEF SaveEnds
  <2>2. file' \in Contents
    BY <1>b, <2>1 DEF Contents
  <2>3. loggedOut' \in BOOLEAN
    BY <1>5 DEF SaveEnds
  <2>4. home' \in Addresses
    <3>1. home' \in {home, cfg[p].server, None}
      BY <1>5 DEF SaveEnds
    <3> QED BY <1>a, <1>b, <3>1, ConfigParts DEF HistoryTypes
  <2>5. ProcTypes' /\ LoginTypes' /\ disowned' \in [Procs -> BOOLEAN]
    <3>1. CASE next[p] = "idle"
      BY <1>5, <3>1, ExitTypes DEF SaveEnds, HistoryTypes
    <3>2. CASE next[p] # "idle"
      <4>1. /\ Goto(p, next[p]) /\ next' = [next EXCEPT ![p] = "idle"]
            /\ ctxDone' = [ctxDone EXCEPT ![p] = @ \/ next[p] = "account"]
            /\ UNCHANGED <<cmd, cfg, sub, srv, closer, ch, disowned>>
        BY <1>5, <3>2 DEF SaveEnds
      <4>2. ProcTypes'
        BY <4>1 DEF ProcTypes, Goto, Places
      <4>3. ctxDone' \in [Procs -> BOOLEAN]
        BY <4>1 DEF LoginTypes
      <4> QED BY <4>1, <4>2, <4>3 DEF LoginTypes, HistoryTypes
    <3> QED BY <3>1, <3>2
  <2> QED BY <2>2, <2>3, <2>4, <2>5 DEF HistoryTypes
<1>6. ASSUME NEW p \in Procs, SaveFails(p) PROVE Types'
  <2>1. file' \in Contents /\ home' \in Addresses /\ loggedOut' \in BOOLEAN
    BY <1>6, <1>a DEF SaveFails, Contents, HistoryTypes
  <2>2. ProcTypes' /\ LoginTypes' /\ disowned' \in [Procs -> BOOLEAN]
    <3>1. CASE next[p] = "start"
      BY <1>6, <3>1 DEF SaveFails, Goto, ProcTypes, Places, LoginTypes, loginVars, HistoryTypes
    <3>2. CASE next[p] # "start"
      BY <1>6, <3>2, ExitTypes DEF SaveFails, HistoryTypes
    <3> QED BY <3>1, <3>2
  <2> QED BY <2>1, <2>2 DEF HistoryTypes
<1>7. ASSUME NEW p \in Procs, Fails(p) PROVE Types'
  BY <1>7, ExitTypes DEF Fails, HistoryTypes
<1>8. ASSUME NEW p \in Procs, runLogin(p) PROVE Types'
  BY <1>8 DEF runLogin, Goto, ProcTypes, LoginTypes, HistoryTypes, Places, history
<1>9. ASSUME NEW p \in Procs, Timeout(p) PROVE Types'
  BY <1>9 DEF Timeout, ProcTypes, LoginTypes, HistoryTypes, history
<1>10. ASSUME NEW p \in Procs, NEW k \in Tokens, GotKey(p, k),
              UNCHANGED <<cmd, sub, srv, closer, ctxDone, disowned, home>>,
              ch' \in [Procs -> Results]
       PROVE  Types'
  <2>1. [cfg[p] EXCEPT !.token = k] \in Configs
    BY <1>b, ConfigParts
  <2>2. /\ file' \in Contents /\ pc' \in [Procs -> Places]
        /\ cfg' \in [Procs -> Configs] /\ next' \in [Procs -> {"idle", "start", "account"}]
    BY <1>10, <2>1, OpenSaveTypes DEF GotKey
  <2>3. ProcTypes' /\ LoginTypes'
    BY <1>10, <2>2 DEF ProcTypes, LoginTypes
  <2>4. HistoryTypes'
    BY <1>10 DEF GotKey, HistoryTypes
  <2> QED BY <2>2, <2>3, <2>4
<1>11. ASSUME NEW p \in Procs, NEW k \in Tokens, TypeKey(p, k) PROVE Types'
  <2>1. GotKey(p, k) /\ UNCHANGED <<cmd, sub, srv, closer, ch, ctxDone, disowned, home>>
    BY <1>11 DEF TypeKey, loginVars
  <2> QED BY <1>10, <2>1 DEF LoginTypes
<1>12. ASSUME NEW p \in Procs, ReceiveKey(p) PROVE Types'
  <2>1. CASE ch[p] = <<None>>
    BY <1>7, <1>12, <2>1 DEF ReceiveKey
  <2>2. CASE ch[p] # <<None>>
    <3>1. /\ GotKey(p, Head(ch[p])) /\ ch' = [ch EXCEPT ![p] = <<>>] /\ ch[p] # <<>>
          /\ UNCHANGED <<cmd, sub, srv, closer, ctxDone, disowned, home>>
      BY <1>12, <2>2 DEF ReceiveKey
    <3>2. Head(ch[p]) \in Tokens
      BY <3>1, ResultHead DEF LoginTypes
    <3>3. ch' \in [Procs -> Results]
      BY <3>1 DEF LoginTypes, Results
    <3> QED BY <1>10, <3>1, <3>2, <3>3
  <2> QED BY <2>1, <2>2
<1>13. ASSUME NEW p \in Procs, NEW k \in Tokens, Callback(p, k) PROVE Types'
  <2>1. <<k>> \in Results
    BY DEF Results
  <2>2. ch' \in [Procs -> Results]
    BY <1>13, <2>1 DEF Callback, LoginTypes
  <2>3. closer' \in [Procs -> {"starting", "select", "closing", "gone"}]
    BY <1>13 DEF Callback, LoginTypes
  <2> QED BY <1>13, <2>2, <2>3 DEF Callback, ProcTypes, LoginTypes, HistoryTypes, history
<1>14. ASSUME NEW p \in Procs, CloserWakes(p) \/ CloseServer(p) PROVE Types'
  BY <1>14 DEF CloserWakes, CloseServer, ProcTypes, LoginTypes, HistoryTypes, history
<1>15. ASSUME NEW p \in Procs, NEW owned \in Answers,
              AskAccount(p, owned) \/ handleSubdomainError(p, owned)
       PROVE  Types'
  <2>1. /\ pc' \in [Procs -> Places]
        /\ UNCHANGED <<file, cmd, cfg, next, loginVars, loggedOut, home>>
    BY <1>15 DEF AskAccount, handleSubdomainError, Goto, ProcTypes, Places
  <2>2. sub' \in [Procs -> Subdomains \cup {None}]
    <3>1. owned # Unreachable => owned \subseteq Subdomains
      BY DEF Answers
    <3> QED BY <1>15, <3>1 DEF AskAccount, handleSubdomainError, ProcTypes
  <2>3. disowned' \in [Procs -> BOOLEAN]
    BY <1>15 DEF AskAccount, handleSubdomainError, Disowns, HistoryTypes
  <2> QED BY <2>1, <2>2, <2>3 DEF ProcTypes, LoginTypes, loginVars, HistoryTypes
<1>16. CASE UNCHANGED vars
  BY <1>16 DEF vars, history, loginVars, ProcTypes, LoginTypes, HistoryTypes
<1> QED
  BY <1>1, <1>2, <1>17, <1>3, <1>4, <1>5, <1>6, <1>7, <1>8, <1>9, <1>11, <1>12, <1>13, <1>14,
     <1>15, <1>16
  DEF Next, LoginStep, LoginTimesOut, Interrupted

(* Type correctness of the client's commands: the channel of the callback  *)
(* server holds at most one result, and the file only what a command has   *)
(* saved, for any number of terminals.                                     *)
THEOREM CommandTypes == Spec => []TypeOK
BY TypesInit, TypesStep, PTL DEF Spec

---------------------------------------------------------------------------
(* Logout.                                                                 *)

(* A command that has read the file and not yet ended.                     *)
Active(p) == pc[p] \notin {"idle", "running"}

(* A logout does nothing but save a configuration without a key.           *)
LogoutProcs ==
  \A p \in Procs :
    cmd[p] = "logout" =>
      /\ cfg[p].token = None
      /\ pc[p] = "forget" \/ (pc[p] = "save" /\ next[p] = "idle")

(* Once a logout is acknowledged no command holds an older key: it was     *)
(* acknowledged while no other command was active, and the commands that   *)
(* started later have read the file without one.                           *)
LogoutInv ==
  /\ LogoutProcs
  /\ loggedOut => \A p \in Procs : Active(p) => cfg[p].token = None
  /\ LogoutSticks

(* What OpenSave does, for one terminal and for the others.                *)
LEMMA OpenSaveParts ==
  ASSUME TypeOK, NEW p \in Procs, NEW c, NEW then, OpenSave(p, c, then)
  PROVE  /\ file' = Empty /\ cfg'[p] = c /\ next'[p] = then /\ pc'[p] = "save"
         /\ \A r \in Procs \ {p} : cfg'[r] = cfg[r] /\ next'[r] = next[r] /\ pc'[r] = pc[r]
BY DEF OpenSave, Goto, TypeOK

LEMMA ExitParts ==
  ASSUME TypeOK, NEW p \in Procs, Exit(p)
  PROVE  /\ cfg'[p] = Blank /\ next'[p] = "idle" /\ pc'[p] = "idle" /\ cmd'[p] = "idle"
         /\ sub'[p] = None
         /\ \A r \in Procs \ {p} : /\ cfg'[r] = cfg[r] /\ next'[r] = next[r] /\ pc'[r] = pc[r]
                                   /\ cmd'[r] = cmd[r] /\ sub'[r] = sub[r]
                                   /\ disowned'[r] = disowned[r]
BY DEF Exit, TypeOK

(* An empty or a cut file holds no key, and neither does the file that was *)
(* read after the logout.                                                  *)
LEMMA NoKeyToRead ==
  ASSUME LogoutSticks, loggedOut
  PROVE  LoadClientConfig.token = None
BY DEF LogoutSticks, LoadClientConfig, Blank

LEMMA LogoutInit == Init => LogoutInv
BY DEF Init, LogoutInv, LogoutProcs, LogoutSticks

LEMMA LogoutStep == TypeOK /\ LogoutInv /\ [Next]_vars => LogoutInv'
<1> SUFFICES ASSUME TypeOK, LogoutInv, [Next]_vars PROVE LogoutInv'
  OBVIOUS
<1>a. Len(Empty) # 2 /\ Len(Cut) # 2
  BY ContentLengths
<1>b. /\ cmd \in [Procs -> Commands] /\ pc \in [Procs -> Places]
      /\ cfg \in [Procs -> Configs] /\ next \in [Procs -> {"idle", "start", "account"}]
  BY DEF TypeOK
(* The terminal p does something, and the promises hold of it.             *)
<1>c. ASSUME NEW p \in Procs,
             \A r \in Procs \ {p} : /\ cfg'[r] = cfg[r] /\ next'[r] = next[r]
                                    /\ pc'[r] = pc[r] /\ cmd'[r] = cmd[r],
             cmd'[p] = "logout" =>
               /\ cfg'[p].token = None
               /\ pc'[p] = "forget" \/ (pc'[p] = "save" /\ next'[p] = "idle"),
             loggedOut' => loggedOut,
             loggedOut' => (Active(p)' => cfg'[p].token = None),
             loggedOut' => (Len(file') = 2 => file'[2].token = None)
      PROVE  LogoutInv'
  BY <1>c DEF LogoutInv, LogoutProcs, LogoutSticks, Active
<1>1. ASSUME NEW p \in Procs, NEW server \in Servers \cup {None}, NEW token \in Tokens,
             authCmd(p, server, token)
      PROVE  LogoutInv'
  BY <1>1, <1>a, <1>b, <1>c, OpenSaveParts DEF authCmd
<1>2. ASSUME NEW p \in Procs, logoutCmd(p) PROVE LogoutInv'
  <2>1. PICK s : cfg' = [cfg EXCEPT ![p] = [server |-> s, token |-> None]]
    BY <1>2 DEF logoutCmd, ReadForLogout
  <2>2. /\ cmd' = [cmd EXCEPT ![p] = "logout"] /\ pc' = [pc EXCEPT ![p] = "forget"]
        /\ UNCHANGED <<file, next>> /\ (loggedOut' => loggedOut)
    BY <1>2 DEF logoutCmd, ReadForLogout, Given, Goto
  <2> QED BY <1>b, <1>c, <2>1, <2>2 DEF LogoutInv, LogoutSticks
<1>17. ASSUME NEW p \in Procs, SaveLogout(p) PROVE LogoutInv'
  <2>1. OpenSave(p, cfg[p], "idle") /\ pc[p] = "forget" /\ UNCHANGED <<cmd, loggedOut>>
    BY <1>17 DEF SaveLogout, history
  <2> QED BY <1>a, <1>b, <1>c, <2>1, OpenSaveParts DEF LogoutInv, LogoutProcs, Active
<1>3. ASSUME NEW p \in Procs, NEW command \in {"http", "tcp", "login", "setup"},
             NEW server \in Servers \cup {None}, NEW token \in Tokens,
             NEW name \in Requested \cup {None}, Start(p, command, server, token, name)
      PROVE  LogoutInv'
  <2>1. /\ cmd' = [cmd EXCEPT ![p] = command]
        /\ cfg' = [cfg EXCEPT ![p] = loadClientCfg(server, token)]
        /\ UNCHANGED <<file, next>> /\ \A r \in Procs \ {p} : pc'[r] = pc[r]
        /\ loggedOut' = (loggedOut /\ token = None)
    BY <1>3, <1>b DEF Start, Given, Goto
  <2>2. loggedOut' => loadClientCfg(server, token).token = None
    BY <2>1, NoKeyToRead DEF loadClientCfg, LogoutInv
  <2>3. loggedOut' => (Len(file') = 2 => file'[2].token = None)
    BY <2>1 DEF LogoutInv, LogoutSticks
  <2> QED BY <1>b, <1>c, <2>1, <2>2, <2>3
<1>4. ASSUME NEW p \in Procs, NEW server \in Servers, TypeAddress(p, server) PROVE LogoutInv'
  <2> DEFINE c == [cfg[p] EXCEPT !.server = server]
  <2>1. c.token = cfg[p].token
    BY <1>b, ConfigParts DEF Addresses
  <2>2. pc[p] = "prompt" /\ cmd' = cmd /\ loggedOut' = loggedOut
    BY <1>4 DEF TypeAddress
  <2>3. cmd[p] # "logout" /\ (loggedOut => cfg[p].token = None)
    BY <2>2 DEF LogoutInv, LogoutProcs, Active
  <2> HIDE DEF c
  <2>4. \/ \E then \in {"idle", "start"} : OpenSave(p, c, then)
        \/ cfg' = [cfg EXCEPT ![p] = c] /\ Goto(p, "start") /\ UNCHANGED <<file, next>>
    BY <1>4 DEF TypeAddress, c
  <2>5. ASSUME NEW then \in {"idle", "start"}, OpenSave(p, c, then) PROVE LogoutInv'
    BY <1>a, <1>c, <2>1, <2>2, <2>3, <2>5, OpenSaveParts
  <2>6. CASE cfg' = [cfg EXCEPT ![p] = c] /\ Goto(p, "start") /\ UNCHANGED <<file, next>>
    <3>1. loggedOut' => (Len(file') = 2 => file'[2].token = None)
      BY <2>2, <2>6 DEF LogoutInv, LogoutSticks
    <3> QED BY <1>b, <1>c, <2>1, <2>2, <2>3, <2>6, <3>1 DEF Goto
  <2> QED BY <2>4, <2>5, <2>6
<1>5. ASSUME NEW p \in Procs, SaveEnds(p) PROVE LogoutInv'
  <2>1. pc[p] = "save" /\ file' \in {Holds(cfg[p]), Cut}
        /\ loggedOut' = (loggedOut \/ (cmd[p] = "logout" /\ Alone(p) /\ file' = Holds(cfg[p])))
    BY <1>5 DEF SaveEnds
  <2>2. loggedOut' => cfg[p].token = None
    BY <2>1 DEF LogoutInv, LogoutProcs, Active
  <2>3. /\ \A r \in Procs \ {p} : /\ cfg'[r] = cfg[r] /\ next'[r] = next[r]
                                  /\ pc'[r] = pc[r] /\ cmd'[r] = cmd[r]
        /\ cmd'[p] # "logout" /\ cfg'[p] \in {cfg[p], Blank}
    <3>1. CASE next[p] = "idle"
      BY <1>5, <3>1, ExitParts DEF SaveEnds
    <3>2. CASE next[p] # "idle"
      <4>1. cmd[p] # "logout"
        BY <2>1, <3>2 DEF LogoutInv, LogoutProcs
      <4> QED BY <1>5, <1>b, <3>2, <4>1 DEF SaveEnds, Goto
    <3> QED BY <3>1, <3>2
  <2>4. loggedOut' => (Len(file') = 2 => file'[2].token = None)
    BY <1>a, <2>1, <2>2, ContentLengths
  <2>5. loggedOut' => \A r \in Procs : Active(r)' => cfg'[r].token = None
    <3>1. loggedOut' => cfg'[p].token = None
      BY <2>2, <2>3 DEF Blank
    <3>2. loggedOut' => loggedOut \/ Alone(p)
      BY <2>1
    <3>3. ASSUME loggedOut', NEW r \in Procs \ {p}, Active(r)' PROVE cfg'[r].token = None
      <4>1. Active(r)
        BY <2>3, <3>3 DEF Active
      <4>2. ~ Alone(p)
        BY <4>1 DEF Alone, Active
      <4> QED BY <2>3, <3>2, <3>3, <4>1, <4>2 DEF LogoutInv
    <3> QED BY <3>1, <3>3
  <2> QED BY <2>3, <2>4, <2>5 DEF LogoutInv, LogoutProcs, LogoutSticks
<1>6. ASSUME NEW p \in Procs, SaveFails(p) PROVE LogoutInv'
  <2>1. file' \in {file, Cut} /\ loggedOut' = loggedOut
    BY <1>6 DEF SaveFails
  <2>2. loggedOut' => (Len(file') = 2 => file'[2].token = None)
    BY <1>a, <2>1 DEF LogoutInv, LogoutSticks
  <2>3. CASE next[p] = "start"
    <3>1. cmd[p] # "logout" /\ (loggedOut => cfg[p].token = None)
      BY <1>6, <2>3 DEF SaveFails, LogoutInv, LogoutProcs, Active
    <3> QED BY <1>6, <1>b, <1>c, <2>1, <2>2, <2>3, <3>1 DEF SaveFails, Goto
  <2>4. CASE next[p] # "start"
    BY <1>6, <1>c, <2>1, <2>2, <2>4, ExitParts DEF SaveFails, Blank
  <2> QED BY <2>3, <2>4
<1>7. ASSUME NEW p \in Procs, Fails(p) PROVE LogoutInv'
  <2>1. loggedOut' => (Len(file') = 2 => file'[2].token = None)
    BY <1>7 DEF Fails, LogoutInv, LogoutSticks
  <2> QED BY <1>7, <1>c, <2>1, ExitParts DEF Fails, Blank
<1>8. ASSUME NEW p \in Procs, pc[p] \notin {"save", "forget", "idle", "running"},
             \A r \in Procs \ {p} : pc'[r] = pc[r],
             UNCHANGED <<file, cmd, cfg, next, loggedOut>>
      PROVE  LogoutInv'
  <2>1. loggedOut' => (Len(file') = 2 => file'[2].token = None)
    BY <1>8 DEF LogoutInv, LogoutSticks
  <2>2. cmd[p] # "logout" /\ (loggedOut => cfg[p].token = None)
    BY <1>8 DEF LogoutInv, LogoutProcs, Active
  <2> QED BY <1>8, <1>c, <2>1, <2>2
<1>9. ASSUME NEW p \in Procs, runLogin(p) PROVE LogoutInv'
  BY <1>9, <1>8, <1>b DEF runLogin, Goto, history
<1>10. ASSUME NEW p \in Procs, NEW k, GotKey(p, k), cmd' = cmd,
              pc[p] \notin {"save", "forget"}
       PROVE  LogoutInv'
  <2>1. cmd[p] # "logout"
    BY <1>10 DEF LogoutInv, LogoutProcs
  <2> QED BY <1>10, <1>a, <1>c, <2>1, OpenSaveParts DEF GotKey
<1>11. ASSUME NEW p \in Procs, NEW k \in Tokens, TypeKey(p, k) PROVE LogoutInv'
  BY <1>10, <1>11 DEF TypeKey
<1>12. ASSUME NEW p \in Procs, ReceiveKey(p) PROVE LogoutInv'
  BY <1>7, <1>10, <1>12 DEF ReceiveKey
<1>13. ASSUME NEW p \in Procs, NEW owned \in Answers,
              AskAccount(p, owned) \/ handleSubdomainError(p, owned)
       PROVE  LogoutInv'
  BY <1>8, <1>13, <1>b DEF AskAccount, handleSubdomainError, Goto
<1>14. CASE UNCHANGED <<file, cmd, pc, cfg, next, loggedOut>>
  BY <1>14 DEF LogoutInv, LogoutProcs, LogoutSticks, Active
<1> QED
  BY <1>1, <1>2, <1>17, <1>3, <1>4, <1>5, <1>6, <1>7, <1>9, <1>11, <1>12, <1>13, <1>14
  DEF Next, LoginStep, LoginTimesOut, Interrupted, Timeout, CloserWakes, CloseServer,
      Callback, vars, history

(* An acknowledged logout sticks, whatever commands run in any number of   *)
(* terminals beside or after it.                                           *)
THEOREM LogoutsStick == Spec => []LogoutSticks
<1>1. Init => TypeOK /\ LogoutInv
  BY TypesInit, LogoutInit
<1>2. TypeOK /\ LogoutInv /\ [Next]_vars => (TypeOK /\ LogoutInv)'
  BY TypesStep, LogoutStep
<1>3. LogoutInv => LogoutSticks
  BY DEF LogoutInv
<1> QED BY <1>1, <1>2, <1>3, PTL DEF Spec

---------------------------------------------------------------------------
(* The address of the server.                                              *)

(* While the promise stands, every active command has read the promised    *)
(* address and can only save that one, and between saves the file holds    *)
(* it.                                                                     *)
HomeInv ==
  /\ ServerKept
  /\ home # None => \A p \in Procs : Active(p) => cfg[p].server = home

LEMMA HomeInit == Init => HomeInv
BY DEF Init, HomeInv, ServerKept

(* A command that starts alone while the promise stands reads the address. *)
LEMMA ReadsHome ==
  ASSUME HomeInv, NEW p \in Procs, pc[p] = "idle", Alone(p), home # None
  PROVE  Len(file) = 2 /\ LoadClientConfig.server = home /\ file # Cut
<1>1. \A r \in Procs : pc[r] # "save"
  BY DEF Alone
<1>2. Len(file) = 2 /\ file[2].server = home
  BY <1>1 DEF HomeInv, ServerKept
<1> QED BY <1>2, ContentLengths DEF LoadClientConfig

LEMMA HomeStep == TypeOK /\ HomeInv /\ [Next]_vars => HomeInv'
<1> SUFFICES ASSUME TypeOK, HomeInv, [Next]_vars, home' # None PROVE HomeInv'
  BY DEF HomeInv, ServerKept
<1>b. /\ pc \in [Procs -> Places] /\ cfg \in [Procs -> Configs]
      /\ next \in [Procs -> {"idle", "start", "account"}]
  BY DEF TypeOK
(* The terminal p opens the file to save the promised address.             *)
<1>c. ASSUME NEW p \in Procs, NEW c, NEW then, OpenSave(p, c, then),
             home' = home, c.server = home
      PROVE  HomeInv'
  <2>1. pc'[p] = "save" /\ cfg'[p] = c
        /\ \A r \in Procs \ {p} : cfg'[r] = cfg[r] /\ pc'[r] = pc[r]
    BY <1>c, OpenSaveParts
  <2> QED BY <1>c, <2>1 DEF HomeInv, ServerKept, Active
(* The terminal p does something else than saving.                         *)
<1>d. ASSUME NEW p \in Procs, pc[p] # "save", pc'[p] # "save",
             UNCHANGED <<file, home>>,
             \A r \in Procs \ {p} : cfg'[r] = cfg[r] /\ pc'[r] = pc[r],
             Active(p)' => cfg'[p].server = home
      PROVE  HomeInv'
  <2>1. (\A r \in Procs : pc'[r] # "save") => \A r \in Procs : pc[r] # "save"
    BY <1>d
  <2>2. ServerKept'
    BY <1>d, <2>1 DEF HomeInv, ServerKept
  <2>3. \A r \in Procs : Active(r)' => cfg'[r].server = home
    BY <1>d DEF HomeInv, Active
  <2> QED BY <1>d, <2>2, <2>3 DEF HomeInv
<1>1. ASSUME NEW p \in Procs, NEW server \in Servers \cup {None}, NEW token \in Tokens,
             authCmd(p, server, token)
      PROVE  HomeInv'
  BY <1>1 DEF authCmd
<1>2. ASSUME NEW p \in Procs, logoutCmd(p) PROVE HomeInv'
  <2>1. pc[p] = "idle" /\ Alone(p) /\ home' = home
    BY <1>2 DEF logoutCmd, ReadForLogout, Given
  <2>2. LoadClientConfig.server = home /\ file # Cut
    BY <2>1, ReadsHome
  <2>3. /\ UNCHANGED file /\ pc'[p] = "forget" /\ cfg'[p].server = home
        /\ \A r \in Procs \ {p} : cfg'[r] = cfg[r] /\ pc'[r] = pc[r]
    BY <1>2, <1>b, <2>2 DEF logoutCmd, ReadForLogout, Goto
  <2> QED BY <1>d, <2>1, <2>3
<1>17. ASSUME NEW p \in Procs, SaveLogout(p) PROVE HomeInv'
  <2>1. OpenSave(p, cfg[p], "idle") /\ pc[p] = "forget" /\ home' = home
    BY <1>17 DEF SaveLogout, history
  <2> QED BY <1>c, <2>1 DEF HomeInv, Active
<1>3. ASSUME NEW p \in Procs, NEW command \in {"http", "tcp", "login", "setup"},
             NEW server \in Servers \cup {None}, NEW token \in Tokens,
             NEW name \in Requested \cup {None}, Start(p, command, server, token, name)
      PROVE  HomeInv'
  <2> DEFINE c == loadClientCfg(server, token)
  <2>1. pc[p] = "idle" /\ Alone(p) /\ home' = home /\ server = None
    BY <1>3 DEF Start, Given
  <2>2. c.server = home
    BY <2>1, ReadsHome DEF loadClientCfg
  <2>3. FirstPlace(command, c, name) # "save"
    BY DEF FirstPlace
  <2> HIDE DEF c
  <2>4. /\ cfg' = [cfg EXCEPT ![p] = c] /\ file' = file
        /\ pc' = [pc EXCEPT ![p] = FirstPlace(command, c, name)]
    BY <1>3 DEF Start, Goto, c
  <2> QED BY <1>b, <1>d, <2>1, <2>2, <2>3, <2>4
<1>4. ASSUME NEW p \in Procs, NEW server \in Servers, TypeAddress(p, server) PROVE HomeInv'
  BY <1>4 DEF TypeAddress
<1>5. ASSUME NEW p \in Procs, SaveEnds(p) PROVE HomeInv'
  <2>1. /\ pc[p] = "save" /\ file' = Holds(cfg[p])
        /\ (home' = home /\ home # None) \/ (home' = cfg[p].server /\ Alone(p))
    BY <1>5 DEF SaveEnds
  <2>2. cfg[p].server = home'
    BY <2>1 DEF HomeInv, Active
  <2>3. /\ cfg'[p] = cfg[p] \/ pc'[p] = "idle"
        /\ \A r \in Procs \ {p} : cfg'[r] = cfg[r] /\ pc'[r] = pc[r]
    <3>1. CASE next[p] = "idle"
      BY <1>5, <3>1, ExitParts DEF SaveEnds
    <3>2. CASE next[p] # "idle"
      BY <1>5, <1>b, <3>2 DEF SaveEnds, Goto
    <3> QED BY <3>1, <3>2
  <2>4. Len(file') = 2 /\ file'[2].server = home'
    BY <2>1, <2>2, ContentLengths
  <2>5. ASSUME NEW r \in Procs, Active(r)' PROVE cfg'[r].server = home'
    <3>1. CASE r = p
      BY <2>2, <2>3, <2>5, <3>1 DEF Active
    <3>2. CASE r # p
      <4>1. Active(r) /\ cfg'[r] = cfg[r]
        BY <2>3, <2>5, <3>2 DEF Active
      <4>2. ~ Alone(p)
        BY <3>2, <4>1 DEF Alone, Active
      <4> QED BY <2>1, <4>1, <4>2 DEF HomeInv
    <3> QED BY <3>1, <3>2
  <2> QED BY <2>4, <2>5 DEF HomeInv, ServerKept
<1>6. ASSUME NEW p \in Procs, SaveFails(p) PROVE HomeInv'
  BY <1>6 DEF SaveFails
<1>7. ASSUME NEW p \in Procs, Fails(p), pc[p] # "save" PROVE HomeInv'
  BY <1>7, <1>d, ExitParts DEF Fails, Active
<1>8. ASSUME NEW p \in Procs, runLogin(p) PROVE HomeInv'
  <2>1. /\ pc[p] = "start" /\ pc'[p] \in {"login", "manual"} /\ UNCHANGED <<file, cfg, home>>
        /\ \A r \in Procs \ {p} : pc'[r] = pc[r]
    BY <1>8, <1>b DEF runLogin, Goto, history
  <2> QED BY <1>d, <2>1 DEF HomeInv, Active
<1>9. ASSUME NEW p \in Procs, NEW k \in Tokens, GotKey(p, k), home' = home,
             pc[p] \in {"login", "manual"}
      PROVE  HomeInv'
  <2>1. [cfg[p] EXCEPT !.token = k].server = cfg[p].server /\ cfg[p].server = home
    BY <1>b, <1>9, ConfigParts DEF HomeInv, Active
  <2> QED BY <1>9, <1>c, <2>1 DEF GotKey
<1>10. ASSUME NEW p \in Procs, NEW k \in Tokens, TypeKey(p, k) PROVE HomeInv'
  BY <1>9, <1>10 DEF TypeKey
<1>11. ASSUME NEW p \in Procs, ReceiveKey(p) PROVE HomeInv'
  <2>1. Head(ch[p]) \in Tokens
    BY <1>11, ResultHead DEF ReceiveKey, TypeOK, Results
  <2> QED BY <1>7, <1>9, <1>11, <2>1 DEF ReceiveKey
<1>12. ASSUME NEW p \in Procs, NEW owned \in Answers,
              AskAccount(p, owned) \/ handleSubdomainError(p, owned)
       PROVE  HomeInv'
  <2>1. /\ pc[p] \in {"account", "menu"} /\ pc'[p] \in {"running", "menu"}
        /\ UNCHANGED <<file, cfg, home>> /\ \A r \in Procs \ {p} : pc'[r] = pc[r]
    BY <1>12, <1>b DEF AskAccount, handleSubdomainError, Goto
  <2> QED BY <1>d, <2>1 DEF HomeInv, Active
<1>13. CASE UNCHANGED <<file, pc, cfg, home>>
  BY <1>13 DEF HomeInv, ServerKept, Active
<1> QED
  BY <1>1, <1>2, <1>17, <1>3, <1>4, <1>5, <1>6, <1>7, <1>8, <1>10, <1>11, <1>12, <1>13
  DEF Next, LoginStep, LoginTimesOut, Interrupted, Timeout, CloserWakes, CloseServer,
      Callback, vars, history

(* The address typed into a prompt stays in the file for as long as nobody *)
(* gives another one and no two saving commands overlap.                   *)
THEOREM ServerAddressIsKept == Spec => []ServerKept
<1>1. Init => TypeOK /\ HomeInv
  BY TypesInit, HomeInit
<1>2. TypeOK /\ HomeInv /\ [Next]_vars => (TypeOK /\ HomeInv)'
  BY TypesStep, HomeStep
<1>3. HomeInv => ServerKept
  BY DEF HomeInv
<1> QED BY <1>1, <1>2, <1>3, PTL DEF Spec

---------------------------------------------------------------------------
(* The name of a tunnel.                                                   *)

(* A command asks for its account, or will after its save, only with a     *)
(* key.                                                                    *)
AsksWithKey ==
  \A p \in Procs :
    pc[p] \in {"account", "menu"} \/ (pc[p] = "save" /\ next[p] = "account") =>
      cfg[p].token # None

NameInv == AsksWithKey /\ StartsWithOwnName

LEMMA NameInit == Init => NameInv
BY DEF Init, NameInv, AsksWithKey, StartsWithOwnName

LEMMA NameStep == TypeOK /\ NameInv /\ [Next]_vars => NameInv'
<1> SUFFICES ASSUME TypeOK, NameInv, [Next]_vars PROVE NameInv'
  OBVIOUS
<1>b. /\ pc \in [Procs -> Places] /\ cfg \in [Procs -> Configs]
      /\ next \in [Procs -> {"idle", "start", "account"}]
      /\ sub \in [Procs -> Subdomains \cup {None}] /\ disowned \in [Procs -> BOOLEAN]
  BY DEF TypeOK
(* The terminal p does something, and the promises hold of it.             *)
<1>c. ASSUME NEW p \in Procs,
             \A r \in Procs \ {p} : /\ cfg'[r] = cfg[r] /\ next'[r] = next[r] /\ pc'[r] = pc[r]
                                    /\ sub'[r] = sub[r] /\ disowned'[r] = disowned[r],
             pc'[p] \in {"account", "menu"} \/ (pc'[p] = "save" /\ next'[p] = "account") =>
               cfg'[p].token # None,
             pc'[p] = "running" /\ sub'[p] # None => cfg'[p].token # None /\ ~ disowned'[p]
      PROVE  NameInv'
  BY <1>c DEF NameInv, AsksWithKey, StartsWithOwnName
<1>d. ASSUME NEW p \in Procs, NEW c, NEW then, OpenSave(p, c, then),
             UNCHANGED <<sub, disowned>>, then = "account" => c.token # None
      PROVE  NameInv'
  BY <1>c, <1>d, OpenSaveParts
<1>1. ASSUME NEW p \in Procs, NEW server \in Servers \cup {None}, NEW token \in Tokens,
             authCmd(p, server, token)
      PROVE  NameInv'
  BY <1>1, <1>d DEF authCmd
<1>2. ASSUME NEW p \in Procs, logoutCmd(p) PROVE NameInv'
  BY <1>2, <1>b, <1>c DEF logoutCmd, ReadForLogout, Goto
<1>17. ASSUME NEW p \in Procs, SaveLogout(p) PROVE NameInv'
  BY <1>17, <1>d DEF SaveLogout, history
<1>3. ASSUME NEW p \in Procs, NEW command \in {"http", "tcp", "login", "setup"},
             NEW server \in Servers \cup {None}, NEW token \in Tokens,
             NEW name \in Requested \cup {None}, Start(p, command, server, token, name)
      PROVE  NameInv'
  <2> DEFINE c == loadClientCfg(server, token)
             place == FirstPlace(command, c, name)
  <2>1. /\ cfg' = [cfg EXCEPT ![p] = c] /\ pc' = [pc EXCEPT ![p] = place]
        /\ sub' = [sub EXCEPT ![p] = name] /\ UNCHANGED <<next, disowned>>
        /\ name # None => command = "http"
    BY <1>3 DEF Start, Goto
  <2> HIDE DEF c
  <2>2. /\ place \notin {"menu", "save"} /\ (place = "account" => c.token # None)
        /\ (place = "running" => name = None)
    BY <2>1 DEF FirstPlace
  <2> HIDE DEF place
  <2> QED BY <1>b, <1>c, <2>1, <2>2
<1>4. ASSUME NEW p \in Procs, NEW server \in Servers, TypeAddress(p, server) PROVE NameInv'
  <2> DEFINE c == [cfg[p] EXCEPT !.server = server]
  <2> HIDE DEF c
  <2>1. /\ \/ \E then \in {"idle", "start"} : OpenSave(p, c, then)
           \/ cfg' = [cfg EXCEPT ![p] = c] /\ Goto(p, "start") /\ UNCHANGED <<file, next>>
        /\ UNCHANGED <<sub, disowned>>
    BY <1>4 DEF TypeAddress, c
  <2>2. ASSUME NEW then \in {"idle", "start"}, OpenSave(p, c, then) PROVE NameInv'
    BY <1>d, <2>1, <2>2
  <2>3. CASE cfg' = [cfg EXCEPT ![p] = c] /\ Goto(p, "start") /\ UNCHANGED <<file, next>>
    BY <1>b, <1>c, <2>1, <2>3 DEF Goto
  <2> QED BY <2>1, <2>2, <2>3
<1>5. ASSUME NEW p \in Procs, Exit(p) PROVE NameInv'
  BY <1>5, <1>c, ExitParts
<1>6. ASSUME NEW p \in Procs, SaveEnds(p) PROVE NameInv'
  <2>1. CASE next[p] = "idle"
    BY <1>5, <1>6, <2>1 DEF SaveEnds
  <2>2. CASE next[p] # "idle"
    BY <1>6, <1>b, <1>c, <2>2 DEF SaveEnds, Goto, NameInv, AsksWithKey
  <2> QED BY <2>1, <2>2
<1>7. ASSUME NEW p \in Procs, SaveFails(p) PROVE NameInv'
  <2>1. CASE next[p] = "start"
    BY <1>7, <1>b, <1>c, <2>1 DEF SaveFails, Goto
  <2>2. CASE next[p] # "start"
    BY <1>5, <1>7, <2>2 DEF SaveFails
  <2> QED BY <2>1, <2>2
<1>8. ASSUME NEW p \in Procs, runLogin(p) PROVE NameInv'
  BY <1>8, <1>b, <1>c DEF runLogin, Goto, history
<1>9. ASSUME NEW p \in Procs, NEW k \in Tokens, GotKey(p, k), UNCHANGED <<sub, disowned>>
      PROVE  NameInv'
  <2>1. [cfg[p] EXCEPT !.token = k].token = k /\ k # None
    BY <1>b, <1>9, ConfigParts DEF GotKey
  <2> QED BY <1>9, <1>d, <2>1 DEF GotKey
<1>10. ASSUME NEW p \in Procs, NEW k \in Tokens, TypeKey(p, k) PROVE NameInv'
  BY <1>9, <1>10 DEF TypeKey
<1>11. ASSUME NEW p \in Procs, ReceiveKey(p) PROVE NameInv'
  <2>1. Head(ch[p]) \in Tokens
    BY <1>11, ResultHead DEF ReceiveKey, TypeOK, Results
  <2> QED BY <1>5, <1>9, <1>11, <2>1 DEF ReceiveKey, Fails
<1>12. ASSUME NEW p \in Procs, NEW owned \in Answers,
              AskAccount(p, owned) \/ handleSubdomainError(p, owned)
       PROVE  NameInv'
  <2>1. /\ UNCHANGED <<cfg, next>> /\ pc[p] \in {"account", "menu"}
        /\ pc'[p] \in {"running", "menu"}
        /\ \A r \in Procs \ {p} : pc'[r] = pc[r] /\ sub'[r] = sub[r] /\ disowned'[r] = disowned[r]
    BY <1>12, <1>b DEF AskAccount, handleSubdomainError, Goto, Disowns
  <2>2. cfg[p].token # None
    BY <2>1 DEF NameInv, AsksWithKey
  <2>3. disowned'[p] = (owned # Unreachable /\ sub'[p] \notin owned \cup {None})
    BY <1>12, <1>b DEF AskAccount, handleSubdomainError, Disowns
  <2>4. pc'[p] = "running" => owned = Unreachable \/ sub'[p] \in owned \cup {None}
    BY <1>12, <1>b DEF AskAccount, handleSubdomainError, Goto
  <2> QED BY <1>c, <2>1, <2>2, <2>3, <2>4
<1>13. CASE UNCHANGED <<pc, cfg, next, sub, disowned>>
  BY <1>13 DEF NameInv, AsksWithKey, StartsWithOwnName
<1> QED
  BY <1>1, <1>2, <1>17, <1>3, <1>4, <1>5, <1>6, <1>7, <1>8, <1>10, <1>11, <1>12, <1>13
  DEF Next, LoginStep, LoginTimesOut, Interrupted, Fails, Timeout, CloserWakes,
      CloseServer, Callback, vars, history

(* No tunnel starts under a fixed name without a key or with a name that,  *)
(* by the server's last answer, is not the key's.                          *)
THEOREM TunnelsStartWithOwnNames == Spec => []StartsWithOwnName
<1>1. Init => TypeOK /\ NameInv
  BY TypesInit, NameInit
<1>2. TypeOK /\ NameInv /\ [Next]_vars => (TypeOK /\ NameInv)'
  BY TypesStep, NameStep
<1>3. NameInv => StartsWithOwnName
  BY DEF NameInv
<1> QED BY <1>1, <1>2, <1>3, PTL DEF Spec
=============================================================================
