------------------------------ MODULE KeyStore ------------------------------
(***************************************************************************)
(* internal/server/key_store.go: API keys, the subdomains they own, and    *)
(* the JSON file they are saved to, with failing saves, crashes and        *)
(* restarts of the server.                                                 *)
(*                                                                         *)
(* Every method holds ks.mu from its first read to the end of saveLocked,  *)
(* so a method is one step with one of three endings: the save succeeds    *)
(* and the caller is told so, the save fails and the caller is told that,  *)
(* or the process dies inside os.WriteFile.  WriteFile truncates the file  *)
(* and then writes it, so the last two leave the old content, an empty     *)
(* file, a part of the new content that is not valid JSON, or all of it.   *)
(***************************************************************************)
CONSTANTS Keys,         \* keys GenerateAPIKey may return, each at most once
          Names,        \* subdomains ValidateSubdomain accepts
          Head, Tail    \* first and last four hex digits of a key

VARIABLES up,           \* the server is running
          known,        \* keys of the map
          active,       \* those with Active set
          owns,         \* APIKey.Subdomains
          file,         \* "absent", "empty", "corrupt" or "ok"
          fKnown, fActive, fOwns,   \* what a file that is "ok" holds
          used,         \* history: keys ever generated
          granted,      \* history: <<key, name>> claims saved, acknowledged and not given up
          revoked       \* history: keys whose revocation was acknowledged

memVars == <<known, active, owns>>
fileVars == <<file, fKnown, fActive, fOwns>>
vars == <<up, memVars, fileVars, used, granted, revoked>>

NothingOwned == [k \in Keys |-> {}]

TypeOK ==
  /\ up \in BOOLEAN
  /\ known \subseteq Keys /\ active \subseteq known
  /\ owns \in [Keys -> SUBSET Names]
  /\ file \in {"absent", "empty", "corrupt", "ok"}
  /\ fKnown \subseteq Keys /\ fActive \subseteq fKnown
  /\ fOwns \in [Keys -> SUBSET Names]
  /\ used \subseteq Keys
  /\ granted \subseteq Keys \X Names
  /\ revoked \subseteq Keys

(* A first start without a file.                                           *)
Init ==
  /\ up = TRUE
  /\ known = {} /\ active = {} /\ owns = NothingOwned
  /\ file = "absent" /\ fKnown = {} /\ fActive = {} /\ fOwns = NothingOwned
  /\ used = {} /\ granted = {} /\ revoked = {}

(* findSubdomainOwnerLocked: inactive keys own nothing.                    *)
Owners(n) == {k \in active : n \in owns[k]}

(* Validate                                                                *)
Valid(k) == up /\ k \in active

(* MaskKey keeps eight characters of the key ("htk_" and four digits) and  *)
(* the last four; the dashboard's own maskKey keeps "htk_" and the last    *)
(* four.  findKeyByIDOrPreview takes a full key or a MaskKey preview.      *)
MaskKey(k) == <<"htk_", Head[k], "...", Tail[k]>>
DashboardPreview(k) == <<"htk_", "...", Tail[k]>>
Identifiers == Keys \cup {MaskKey(k) : k \in Keys} \cup {DashboardPreview(k) : k \in Keys}
FindKeyByIDOrPreview(id) ==
  IF id \in known THEN {id} ELSE {k \in known : MaskKey(k) = id}

(* What saveLocked leaves in the file for the memory K, A, O.              *)
FileHolds(K, A, O) == file' = "ok" /\ fKnown' = K /\ fActive' = A /\ fOwns' = O
FileBroken == file' \in {"empty", "corrupt"} /\ UNCHANGED <<fKnown, fActive, fOwns>>
FileDamagedOrNew(K, A, O) == FileBroken \/ FileHolds(K, A, O)
SaveFails(K, A, O) == UNCHANGED fileVars \/ FileDamagedOrNew(K, A, O)

---------------------------------------------------------------------------
(* Faulty variant: the owner of the name is not looked up.                 *)
CreateKey_NoOwnerCheck(k, N) ==
  LET K == known \cup {k}
      A == active \cup {k}
      O == [owns EXCEPT ![k] = N]
  IN /\ up /\ k \notin used
     /\ used' = used \cup {k}
     /\ FileHolds(K, A, O)
     /\ known' = K /\ active' = A /\ owns' = O
     /\ granted' = granted \cup ({k} \X N)
     /\ UNCHANGED <<up, revoked>>

(* CreateKey, for a name or none.  A failed save removes the key again.    *)
CreateKey(k, N) ==
  LET K == known \cup {k}
      A == active \cup {k}
      O == [owns EXCEPT ![k] = N]
  IN /\ up /\ k \notin used
     /\ \A n \in N : Owners(n) = {}
     /\ used' = used \cup {k}
     /\ UNCHANGED revoked
     /\ \/ /\ FileHolds(K, A, O)
           /\ known' = K /\ active' = A /\ owns' = O
           /\ granted' = granted \cup ({k} \X N)
           /\ UNCHANGED up
        \/ SaveFails(K, A, O) /\ UNCHANGED <<up, memVars, granted>>
        \/ FileDamagedOrNew(K, A, O) /\ up' = FALSE /\ UNCHANGED <<memVars, granted>>

(* Faulty variant: no saveLocked.                                          *)
RevokeKey_MemoryOnly(id) ==
  \E k \in FindKeyByIDOrPreview(id) :
    /\ up
    /\ active' = active \ {k}
    /\ granted' = {g \in granted : g[1] # k}
    /\ revoked' = revoked \cup {k}
    /\ UNCHANGED <<up, known, owns, fileVars, used>>

(* RevokeKey: Active is cleared and stays cleared if the save fails.       *)
RevokeKey(id) ==
  \E k \in FindKeyByIDOrPreview(id) :
    LET A == active \ {k}
    IN /\ up
       /\ active' = A
       /\ granted' = {g \in granted : g[1] # k}
       /\ UNCHANGED <<known, owns, used>>
       /\ \/ FileHolds(known, A, owns) /\ revoked' = revoked \cup {k} /\ UNCHANGED up
          \/ SaveFails(known, A, owns) /\ UNCHANGED <<up, revoked>>
          \/ FileDamagedOrNew(known, A, owns) /\ up' = FALSE /\ UNCHANGED revoked

(* Faulty variant: no saveLocked.                                          *)
AddSubdomain_MemoryOnly(k, n) ==
  /\ up /\ k \in active
  /\ Owners(n) = {}
  /\ owns' = [owns EXCEPT ![k] = @ \cup {n}]
  /\ granted' = granted \cup {<<k, n>>}
  /\ UNCHANGED <<up, known, active, fileVars, used, revoked>>

(* AddSubdomain; a failed save leaves the name in memory.  A name the key  *)
(* owns already is acknowledged without a save, whether it has ever been   *)
(* saved or not: nothing changes, and such an answer grants nothing new.   *)
AddSubdomain(k, n) ==
  LET O == [owns EXCEPT ![k] = @ \cup {n}]
  IN /\ up /\ k \in active
     /\ Owners(n) = {}
     /\ owns' = O
     /\ UNCHANGED <<known, active, used, revoked>>
     /\ \/ /\ FileHolds(known, active, O)
           /\ granted' = granted \cup {<<k, n>>} /\ UNCHANGED up
        \/ SaveFails(known, active, O) /\ UNCHANGED <<up, granted>>
        \/ FileDamagedOrNew(known, active, O) /\ up' = FALSE /\ UNCHANGED granted

(* RemoveSubdomain does not ask whether the key is still active.           *)
RemoveSubdomain(k, n) ==
  LET O == [owns EXCEPT ![k] = @ \ {n}]
  IN /\ up /\ k \in known
     /\ owns' = O
     /\ granted' = granted \ {<<k, n>>}
     /\ UNCHANGED <<known, active, used, revoked>>
     /\ \/ FileHolds(known, active, O) /\ UNCHANGED up
        \/ SaveFails(known, active, O) /\ UNCHANGED up
        \/ FileDamagedOrNew(known, active, O) /\ up' = FALSE

---------------------------------------------------------------------------
(* The process dies outside a save.                                        *)
Crash ==
  /\ up /\ up' = FALSE
  /\ UNCHANGED <<memVars, fileVars, used, granted, revoked>>

(* NewKeyStore: a missing or empty file starts an empty store, and what    *)
(* was granted is lost; a file that does not parse stops the server from   *)
(* starting.                                                               *)
LoadFile ==
  /\ known' = IF file = "ok" THEN fKnown ELSE {}
  /\ active' = IF file = "ok" THEN fActive ELSE {}
  /\ owns' = IF file = "ok" THEN fOwns ELSE NothingOwned

Restart ==
  /\ ~ up /\ file # "corrupt"
  /\ up' = TRUE
  /\ LoadFile
  /\ granted' = IF file = "ok" THEN granted ELSE {}
  /\ UNCHANGED <<fileVars, used, revoked>>

Next ==
  \/ \E k \in Keys : CreateKey(k, {}) \/ \E n \in Names : CreateKey(k, {n})
  \/ \E id \in Identifiers : RevokeKey(id)
  \/ \E k \in Keys, n \in Names :
       AddSubdomain(k, n) \/ RemoveSubdomain(k, n)
  \/ Crash
  \/ Restart

Spec == Init /\ [][Next]_vars

---------------------------------------------------------------------------
(* A subdomain has at most one active owner, in memory and in every file a *)
(* restart may load, whatever saves fail and wherever the server crashes:  *)
(* the owner check of CreateKey and AddSubdomain sees every claim that can *)
(* come back.                                                              *)
OneOwner ==
  /\ \A j, k \in active : owns[j] \cap owns[k] # {} => j = k
  /\ file = "ok" => \A j, k \in fActive : fOwns[j] \cap fOwns[k] # {} => j = k

(* A key whose revocation was acknowledged to the admin never validates    *)
(* again, across failing saves, crashes and restarts.                      *)
RevocationSticks == \A k \in revoked : ~ Valid(k)

(* README: "Fixed subdomains | Claim once, yours forever".  A claim that   *)
(* was saved and acknowledged is in force whenever the server runs, across *)
(* the operations of other keys, failing saves, crashes and restarts, with *)
(* three ends: the key gives it up; the key is revoked, by an              *)
(* administrator who meant it or who used a preview that it shares with    *)
(* the key that was meant; or a restart finds the file a failed or killed  *)
(* save has emptied.                                                       *)
ClaimsSurvive == up => \A g \in granted : g[1] \in Owners(g[2])
=============================================================================
