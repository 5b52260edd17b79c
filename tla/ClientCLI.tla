----------------------------- MODULE ClientCLI -----------------------------
(***************************************************************************)
(* The commands of cmd/htn-tunnel/main.go, run in several terminals at     *)
(* once, the file ~/.htn-tunnel/config.yaml they share, and the callback   *)
(* server that "login" waits on (internal/client/auth_callback.go).        *)
(*                                                                         *)
(* A command reads the file when it starts and saves what it has read and  *)
(* changed later, often after a question to the user; the file is not      *)
(* locked.  "status" and "dashboard" change nothing and are left out.  On  *)
(* a file that does not parse, http, tcp and status report an error, and   *)
(* login, setup and dashboard panic on the nil configuration.              *)
(***************************************************************************)
EXTENDS Naturals, Sequences

CONSTANTS Procs,      \* terminals
          Tunnelers,  \* those of them in which tunnels are opened
          Servers,    \* addresses of servers, other than localhost:4443
          Keys,       \* API keys
          Subdomains, \* names
          Requested   \* those asked for on the command line

ASSUME RequestedAssumption == Requested \subseteq Subdomains

None == ""
Local == "localhost:4443"

Addresses == Servers \cup {None, Local}
Tokens == Keys \cup {None}

Absent == <<"absent">>
Empty == <<"empty">>
Cut == <<"cut">>            \* a part of a content, which does not parse
Holds(c) == <<"holds", c>>
Configs == [server : Addresses, token : Tokens]
Blank == [server |-> None, token |-> None]
Contents == {Absent, Empty, Cut} \cup {Holds(c) : c \in Configs}

Unreachable == {"unreachable"}
Answers == (SUBSET Subdomains) \cup {Unreachable}

VARIABLES
  file,       \* the content of config.yaml
  cmd,        \* the command a terminal runs
  pc,         \* where it is
  cfg,        \* its configuration in memory
  sub,        \* the subdomain of its tunnel
  next,       \* where it goes after the save
  srv,        \* its callback server is listening
  closer,     \* where the goroutine that closes it is
  ch,         \* the channel of results, of capacity 1
  ctxDone,    \* the context of runLogin has timed out or is cancelled
  disowned,   \* history: by the last AccountInfo, sub is not the key's
  loggedOut,  \* history: a logout was acknowledged and no key given since
  home        \* history: the address last given to a prompt, and saved

loginVars == <<srv, closer, ch, ctxDone>>
history == <<disowned, loggedOut, home>>
vars == <<file, cmd, pc, cfg, sub, next, loginVars, history>>

Commands == {"idle", "http", "tcp", "auth", "login", "logout", "setup"}
Places == {"idle", "prompt", "start", "login", "manual", "forget", "save", "account", "menu",
           "running"}

(* Types: the channel of the callback server never holds more than one     *)
(* result, and the file only what some command has saved.                  *)
TypeOK ==
  /\ file \in Contents
  /\ cmd \in [Procs -> Commands] /\ pc \in [Procs -> Places]
  /\ cfg \in [Procs -> Configs] /\ sub \in [Procs -> Subdomains \cup {None}]
  /\ next \in [Procs -> {"idle", "start", "account"}]
  /\ srv \in [Procs -> BOOLEAN]
  /\ closer \in [Procs -> {"starting", "select", "closing", "gone"}]
  /\ ch \in [Procs -> {<<>>} \cup {<<k>> : k \in Tokens}]
  /\ ctxDone \in [Procs -> BOOLEAN]
  /\ disowned \in [Procs -> BOOLEAN]
  /\ loggedOut \in BOOLEAN /\ home \in Addresses

Init ==
  /\ file = Absent
  /\ cmd = [p \in Procs |-> "idle"] /\ pc = [p \in Procs |-> "idle"]
  /\ cfg = [p \in Procs |-> Blank] /\ sub = [p \in Procs |-> None]
  /\ next = [p \in Procs |-> "idle"]
  /\ srv = [p \in Procs |-> FALSE] /\ closer = [p \in Procs |-> "gone"]
  /\ ch = [p \in Procs |-> <<>>] /\ ctxDone = [p \in Procs |-> FALSE]
  /\ disowned = [p \in Procs |-> FALSE]
  /\ loggedOut = FALSE /\ home = None

---------------------------------------------------------------------------
(* LoadClientConfig, for a file that parses.                               *)
LoadClientConfig == IF Len(file) = 2 THEN file[2] ELSE Blank

(* loadClientCfg, with the flags --server and --token.                     *)
loadClientCfg(server, token) ==
  LET c == LoadClientConfig
  IN [server |-> IF server # None THEN server
                 ELSE IF c.server = None THEN Local ELSE c.server,
      token |-> IF token # None THEN token ELSE c.token]

(* No other terminal is between its reading of the file and its last save. *)
Alone(p) == \A q \in Procs \ {p} : pc[q] \in {"idle", "running"}

(* What a command that was given a server or a token, by flag or argument, *)
(* makes of the promises; and what reading the file beside another does.   *)
Given(p, server, token) ==
  /\ loggedOut' = (loggedOut /\ token = None)
  /\ home' = IF server = None /\ Alone(p) THEN home ELSE None

(* The process ends, and its callback server with it.                      *)
Exit(p) ==
  /\ cmd' = [cmd EXCEPT ![p] = "idle"] /\ pc' = [pc EXCEPT ![p] = "idle"]
  /\ cfg' = [cfg EXCEPT ![p] = Blank] /\ sub' = [sub EXCEPT ![p] = None]
  /\ next' = [next EXCEPT ![p] = "idle"]
  /\ srv' = [srv EXCEPT ![p] = FALSE] /\ closer' = [closer EXCEPT ![p] = "gone"]
  /\ ch' = [ch EXCEPT ![p] = <<>>] /\ ctxDone' = [ctxDone EXCEPT ![p] = FALSE]
  /\ disowned' = [disowned EXCEPT ![p] = FALSE]

Fails(p) == Exit(p) /\ UNCHANGED <<file, loggedOut, home>>

Goto(p, place) == pc' = [pc EXCEPT ![p] = place]

(* SaveClientConfig opens the file with O_TRUNC.                           *)
OpenSave(p, c, then) ==
  /\ file' = Empty
  /\ cfg' = [cfg EXCEPT ![p] = c]
  /\ next' = [next EXCEPT ![p] = then]
  /\ Goto(p, "save")

---------------------------------------------------------------------------
(* authCmd: the token of the argument, the server of the flag; what the    *)
(* file has of either is lost.                                             *)
authCmd(p, server, token) ==
  /\ pc[p] = "idle" /\ token # None
  /\ cmd' = [cmd EXCEPT ![p] = "auth"]
  /\ OpenSave(p, [server |-> server, token |-> token], "idle")
  /\ loggedOut' = FALSE /\ home' = None
  /\ UNCHANGED <<sub, loginVars, disowned>>

(* logoutCmd reads the file and, in a step of its own, saves c.            *)
ReadForLogout(p, c) ==
  /\ pc[p] = "idle"
  /\ cmd' = [cmd EXCEPT ![p] = "logout"]
  /\ cfg' = [cfg EXCEPT ![p] = c]
  /\ Goto(p, "forget")
  /\ Given(p, None, None)
  /\ UNCHANGED <<file, sub, next, loginVars, disowned>>

(* Faulty variants: a new configuration is saved; the configuration is     *)
(* saved as it was read.                                                   *)
logoutCmd_Forgets(p) == ReadForLogout(p, Blank)
logoutCmd_KeepsKey(p) == file # Cut /\ ReadForLogout(p, LoadClientConfig)

(* The server address is kept if the file parses.                          *)
logoutCmd(p) ==
  ReadForLogout(p, [server |-> IF file = Cut THEN None ELSE LoadClientConfig.server,
                    token |-> None])

SaveLogout(p) ==
  /\ pc[p] = "forget"
  /\ OpenSave(p, cfg[p], "idle")
  /\ UNCHANGED <<cmd, sub, loginVars, history>>

(* The commands that begin with loadClientCfg, up to where they first      *)
(* wait.  ensureServer asks for an address while it is the default one.    *)
NeedsServer(c) == c.server = Local
FirstPlace(command, c, name) ==
  CASE command = "tcp" -> "running"
    [] command = "setup" -> "prompt"
    [] command = "http" /\ c.token # None -> "account"
    [] command = "http" /\ c.token = None /\ name = None -> "running"
    [] OTHER -> IF NeedsServer(c) THEN "prompt" ELSE "start"

Start(p, command, server, token, name) ==
  LET c == loadClientCfg(server, token)
  IN /\ pc[p] = "idle" /\ file # Cut
     /\ command \in {"http", "tcp"} => p \in Tunnelers
     /\ name # None => command = "http"
     /\ cmd' = [cmd EXCEPT ![p] = command]
     /\ cfg' = [cfg EXCEPT ![p] = c]
     /\ sub' = [sub EXCEPT ![p] = name]
     /\ Goto(p, FirstPlace(command, c, name))
     /\ Given(p, server, token)
     /\ UNCHANGED <<file, next, loginVars, disowned>>

(* The address typed into the prompt of setupCmd or ensureServer.  The     *)
(* latter goes on when the file cannot be written.                         *)
TypeAddress(p, server) ==
  LET c == [cfg[p] EXCEPT !.server = server]
  IN /\ pc[p] = "prompt"
     /\ IF cmd[p] = "setup" THEN OpenSave(p, c, "idle")
        ELSE \/ OpenSave(p, c, "start")
             \/ cfg' = [cfg EXCEPT ![p] = c] /\ Goto(p, "start") /\ UNCHANGED <<file, next>>
     /\ home' = None
     /\ UNCHANGED <<cmd, sub, loginVars, disowned, loggedOut>>

(* os.WriteFile ends.  When another terminal has written since the file    *)
(* was emptied, the two texts overlap.  What the command promises holds    *)
(* from now on if no other is about to save an older reading.              *)
SaveEnds(p) ==
  LET mine == Holds(cfg[p])
      typed == cmd[p] = "setup" \/ next[p] = "start"
      alone == Alone(p) /\ file' = mine
  IN /\ pc[p] = "save"
     /\ file' \in IF file = Empty THEN {mine} ELSE {mine, Cut}
     /\ loggedOut' = (loggedOut \/ (cmd[p] = "logout" /\ alone))
     /\ home' = IF ~ typed /\ file' = mine THEN home
                ELSE IF alone THEN cfg[p].server ELSE None
     /\ IF next[p] = "idle" THEN Exit(p)
        ELSE /\ Goto(p, next[p]) /\ next' = [next EXCEPT ![p] = "idle"]
             /\ ctxDone' = [ctxDone EXCEPT ![p] = @ \/ next[p] = "account"]
             /\ UNCHANGED <<cmd, cfg, sub, srv, closer, ch, disowned>>

(* The write fails: an error, which only ensureServer ignores.             *)
SaveFails(p) ==
  /\ pc[p] = "save"
  /\ file' \in {file, Cut} /\ home' = None /\ UNCHANGED loggedOut
  /\ IF next[p] = "start"
     THEN /\ Goto(p, "start") /\ next' = [next EXCEPT ![p] = "idle"]
          /\ UNCHANGED <<cmd, cfg, sub, loginVars, disowned>>
     ELSE Exit(p)

(* Ctrl+C, an empty answer to a question, or an error.                     *)
Interrupted(p) ==
  /\ pc[p] \notin {"idle", "save"}
  /\ Fails(p)

---------------------------------------------------------------------------
(* runLogin: StartCallbackServer, and OpenBrowser or the manual fallback.  *)
runLogin(p) ==
  /\ pc[p] = "start"
  /\ Goto(p, "login") \/ Goto(p, "manual")
  /\ srv' = [srv EXCEPT ![p] = TRUE] /\ closer' = [closer EXCEPT ![p] = "starting"]
  /\ UNCHANGED <<file, cmd, cfg, sub, next, ch, ctxDone, history>>

InLogin(p) == pc[p] \in {"login", "manual"}

(* The five minutes of the context are over.                               *)
Timeout(p) ==
  /\ InLogin(p) /\ ~ ctxDone[p]
  /\ ctxDone' = [ctxDone EXCEPT ![p] = TRUE]
  /\ UNCHANGED <<file, cmd, pc, cfg, sub, next, srv, closer, ch, history>>

(* A key arrives: it is saved, and http goes on.                           *)
GotKey(p, k) ==
  /\ k # None
  /\ OpenSave(p, [cfg[p] EXCEPT !.token = k], IF cmd[p] = "http" THEN "account" ELSE "idle")
  /\ loggedOut' = FALSE

TypeKey(p, k) ==
  /\ pc[p] = "manual" /\ GotKey(p, k)
  /\ UNCHANGED <<cmd, sub, loginVars, disowned, home>>

(* The select of runLogin, which takes either case when both are ready; an *)
(* empty key is an error.                                                  *)
ReceiveKey(p) ==
  /\ pc[p] = "login" /\ ch[p] # <<>>
  /\ IF ch[p] = <<None>> THEN Fails(p)
     ELSE /\ GotKey(p, Head(ch[p]))
          /\ ch' = [ch EXCEPT ![p] = <<>>]
          /\ UNCHANGED <<cmd, sub, srv, closer, ctxDone, disowned, home>>

(* Faulty variant: the select has no case for the context.                 *)
LoginTimesOut_NoCase(p) ==
  /\ pc[p] = "login" /\ ctxDone[p] /\ ch[p] # <<>>
  /\ Fails(p)

LoginTimesOut(p) ==
  /\ pc[p] = "login" /\ ctxDone[p]
  /\ Fails(p)

(* Faulty variant: the result is sent whatever the channel holds.          *)
Callback_Queues(p, k) ==
  /\ srv[p]
  /\ ch' = [ch EXCEPT ![p] = Append(@, k)]
  /\ closer' = [closer EXCEPT ![p] = IF @ = "select" THEN "closing" ELSE @]
  /\ UNCHANGED <<file, cmd, pc, cfg, sub, next, srv, ctxDone, history>>

(* The handler of /cb: the result is dropped when the channel is full, the *)
(* signal when the goroutine does not wait for it.                         *)
Callback(p, k) ==
  /\ srv[p]
  /\ ch' = [ch EXCEPT ![p] = IF @ = <<>> THEN <<k>> ELSE @]
  /\ closer' = [closer EXCEPT ![p] = IF @ = "select" THEN "closing" ELSE @]
  /\ UNCHANGED <<file, cmd, pc, cfg, sub, next, srv, ctxDone, history>>

(* Faulty variant: only the signal of the handler closes the server.       *)
CloserWakes_SignalOnly(p) ==
  /\ closer[p] = "starting"
  /\ closer' = [closer EXCEPT ![p] = "select"]
  /\ UNCHANGED <<file, cmd, pc, cfg, sub, next, srv, ch, ctxDone, history>>

(* The goroutine of StartCallbackServer reaches its select, and leaves it  *)
(* when the context ends.                                                  *)
CloserWakes(p) ==
  /\ \/ closer[p] = "starting" /\ closer' = [closer EXCEPT ![p] = "select"]
     \/ /\ closer[p] = "select" /\ ctxDone[p]
        /\ closer' = [closer EXCEPT ![p] = "closing"]
  /\ UNCHANGED <<file, cmd, pc, cfg, sub, next, srv, ch, ctxDone, history>>

CloseServer(p) ==
  /\ closer[p] = "closing"
  /\ closer' = [closer EXCEPT ![p] = "gone"] /\ srv' = [srv EXCEPT ![p] = FALSE]
  /\ UNCHANGED <<file, cmd, pc, cfg, sub, next, ch, ctxDone, history>>

---------------------------------------------------------------------------
Disowns(p, owned) ==
  disowned' = [disowned EXCEPT ![p] = owned # Unreachable /\ sub'[p] \notin owned \cup {None}]

(* httpCmd with a key asks the server which names it owns: pickSubdomain   *)
(* for a command without a name, validateSubdomain for one with a name.    *)
(* Without an answer the server decides.                                   *)
AskAccount(p, owned) ==
  /\ pc[p] = "account"
  /\ \/ /\ sub[p] = None /\ owned # Unreachable
        /\ \E n \in owned \cup {None} : sub' = [sub EXCEPT ![p] = n]
        /\ Goto(p, "running")
     \/ /\ owned = Unreachable \/ sub[p] \in owned
        /\ Goto(p, "running") /\ UNCHANGED sub
     \/ /\ sub[p] # None /\ owned # Unreachable /\ sub[p] \notin owned
        /\ Goto(p, "menu") /\ UNCHANGED sub
  /\ Disowns(p, owned)
  /\ UNCHANGED <<file, cmd, cfg, next, loginVars, loggedOut, home>>

(* Faulty variant: an answer out of range means the name asked for.        *)
handleSubdomainError_Default(p, owned) ==
  /\ pc[p] = "menu" /\ owned \notin {Unreachable, {}}
  /\ \E n \in owned \cup {None, sub[p]} : sub' = [sub EXCEPT ![p] = n]
  /\ Disowns(p, owned)
  /\ Goto(p, "running")
  /\ UNCHANGED <<file, cmd, cfg, next, loginVars, loggedOut, home>>

(* handleSubdomainError asks again and offers what it gets, or a random    *)
(* name; with nothing to offer, or at "cancel", the command ends.          *)
handleSubdomainError(p, owned) ==
  /\ pc[p] = "menu" /\ owned \notin {Unreachable, {}}
  /\ \E n \in owned \cup {None} : sub' = [sub EXCEPT ![p] = n]
  /\ Disowns(p, owned)
  /\ Goto(p, "running")
  /\ UNCHANGED <<file, cmd, cfg, next, loginVars, loggedOut, home>>

LoginStep(p) ==
  \/ Timeout(p) \/ ReceiveKey(p) \/ LoginTimesOut(p)
  \/ CloserWakes(p) \/ CloseServer(p)

Next ==
  \E p \in Procs :
    \/ \E server \in Servers \cup {None}, token \in Tokens :
         \/ authCmd(p, server, token)
         \/ \E command \in {"http", "tcp", "login", "setup"}, name \in Requested \cup {None} :
              Start(p, command, server, token, name)
    \/ logoutCmd(p) \/ SaveLogout(p)
    \/ \E server \in Servers : TypeAddress(p, server)
    \/ SaveEnds(p) \/ SaveFails(p) \/ Interrupted(p)
    \/ runLogin(p)
    \/ \E k \in Tokens : TypeKey(p, k) \/ Callback(p, k)
    \/ \E owned \in Answers : AskAccount(p, owned) \/ handleSubdomainError(p, owned)
    \/ LoginStep(p)

(* The main goroutine runs where it does not wait for the user, and the    *)
(* closing goroutine and the timer do; no browser has to do anything.      *)
Spec == Init /\ [][Next]_vars
FairSpec ==
  /\ Spec
  /\ \A p \in Procs :
       /\ WF_vars(SaveEnds(p) \/ SaveFails(p) \/ ReceiveKey(p) \/ LoginTimesOut(p))
       /\ WF_vars(CloserWakes(p) \/ CloseServer(p))
       /\ WF_vars(Timeout(p))

---------------------------------------------------------------------------
(* After a logout is acknowledged no key is in the file until somebody     *)
(* gives one, whatever commands run beside or after it; only a command     *)
(* that had read the file before the logout may bring the key back.        *)
LogoutSticks ==
  loggedOut => (Len(file) = 2 => file[2].token = None)

(* The address given to a prompt stays in the file through logins, logouts *)
(* and tunnels, until another address is given, auth is run, a save fails, *)
(* or two commands that save run at the same time.                         *)
ServerKept ==
  (home # None /\ \A p \in Procs : pc[p] # "save") =>
    Len(file) = 2 /\ file[2].server = home

(* A tunnel with a fixed name starts only with a key, and never with a     *)
(* name that, by the server's last answer, is not the key's.               *)
StartsWithOwnName ==
  \A p \in Procs :
    pc[p] = "running" /\ sub[p] # None =>
      cfg[p].token # None /\ ~ disowned[p]

(* A login that waits for the browser ends, whatever the browser does.     *)
LoginEnds == \A p \in Procs : pc[p] = "login" ~> pc[p] # "login"

(* The callback server is closed in the end, also when the signal of its   *)
(* handler is lost and also while the tunnel that needed the login runs.   *)
CallbackServerStops == \A p \in Procs : srv[p] ~> ~ srv[p]
=============================================================================
