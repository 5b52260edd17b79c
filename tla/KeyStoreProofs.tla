--------------------------- MODULE KeyStoreProofs ---------------------------
(***************************************************************************)
(* Proofs that ownership stays unique, that acknowledged revocations are   *)
(* final and that saved claims last, for any set of keys and names.        *)
(***************************************************************************)
EXTENDS KeyStore, TLAPS

(* The two results need to know what a restart may bring back: a file that *)
(* parses holds only keys that were generated before, and none of those    *)
(* whose revocation was acknowledged is active in it.                      *)
Lineage ==
  /\ known \subseteq used /\ fKnown \subseteq used /\ revoked \subseteq used
  /\ revoked \cap active = {}
  /\ file = "ok" => revoked \cap fActive = {}

KSInv == TypeOK /\ OneOwner /\ Lineage

(* The map may be written to the file in any of saveLocked's endings.      *)
LEMMA SaveKeepsInv ==
  ASSUME NEW K \in SUBSET Keys, NEW A \in SUBSET K,
         NEW O \in [Keys -> SUBSET Names],
         file \in {"absent", "empty", "corrupt", "ok"},
         fKnown \subseteq Keys, fActive \subseteq fKnown,
         fOwns \in [Keys -> SUBSET Names],
         file = "ok" => \A j, k \in fActive : fOwns[j] \cap fOwns[k] # {} => j = k,
         \A j, k \in A : O[j] \cap O[k] # {} => j = k,
         FileHolds(K, A, O) \/ SaveFails(K, A, O) \/ FileDamagedOrNew(K, A, O)
  PROVE  /\ file' \in {"absent", "empty", "corrupt", "ok"}
         /\ fKnown' \subseteq Keys /\ fActive' \subseteq fKnown'
         /\ fOwns' \in [Keys -> SUBSET Names]
         /\ (file' = "ok" => \A j, k \in fActive' : fOwns'[j] \cap fOwns'[k] # {} => j = k)
         /\ fKnown' = K \/ fKnown' = fKnown
         /\ file' = "ok" => (fActive' = A \/ (file = "ok" /\ fActive' = fActive))
BY DEF FileHolds, SaveFails, FileDamagedOrNew, FileBroken, fileVars

LEMMA KSInitInv == Init => KSInv
BY DEF Init, KSInv, TypeOK, OneOwner, Lineage, NothingOwned

LEMMA KSNextInv == KSInv /\ [Next]_vars => KSInv'
<1> SUFFICES ASSUME KSInv, [Next]_vars PROVE KSInv'
  OBVIOUS
<1> USE DEF KSInv
<1>1. ASSUME NEW k \in Keys, NEW N \in SUBSET Names, CreateKey(k, N)
      PROVE  KSInv'
  <2> DEFINE K == known \cup {k}
             A == active \cup {k}
             O == [owns EXCEPT ![k] = N]
  <2>1. /\ up /\ k \notin used
        /\ used' = used \cup {k} /\ revoked' = revoked
        /\ \A n \in N : \A j \in active : n \notin owns[j]
    BY <1>1 DEF CreateKey, Owners
  <2>2. /\ up' \in BOOLEAN
        /\ granted' \subseteq Keys \X Names
    BY <1>1 DEF CreateKey, TypeOK
  <2>3. /\ (known' = K /\ active' = A /\ owns' = O) \/ UNCHANGED memVars
        /\ FileHolds(K, A, O) \/ SaveFails(K, A, O) \/ FileDamagedOrNew(K, A, O)
    BY <1>1 DEF CreateKey
  <2>4. K \in SUBSET Keys /\ A \in SUBSET K /\ O \in [Keys -> SUBSET Names]
    BY DEF TypeOK
  <2>5. \A i, j \in A : O[i] \cap O[j] # {} => i = j
    BY <2>1 DEF TypeOK, OneOwner
  <2> HIDE DEF K, A, O
  <2>6. /\ file' \in {"absent", "empty", "corrupt", "ok"}
        /\ fKnown' \subseteq Keys /\ fActive' \subseteq fKnown'
        /\ fOwns' \in [Keys -> SUBSET Names]
        /\ (file' = "ok" => \A i, j \in fActive' : fOwns'[i] \cap fOwns'[j] # {} => i = j)
        /\ fKnown' = K \/ fKnown' = fKnown
        /\ file' = "ok" => (fActive' = A \/ (file = "ok" /\ fActive' = fActive))
    BY <2>3, <2>4, <2>5, SaveKeepsInv DEF TypeOK, OneOwner
  <2>7. TypeOK'
    BY <2>1, <2>2, <2>3, <2>4, <2>6 DEF TypeOK, memVars
  <2>8. OneOwner'
    BY <2>3, <2>5, <2>6 DEF OneOwner, memVars
  <2>9. Lineage'
    BY <2>1, <2>3, <2>6 DEF Lineage, memVars, K, A
  <2> QED BY <2>7, <2>8, <2>9
<1>2. ASSUME NEW id, RevokeKey(id)
      PROVE  KSInv'
  <2>1. PICK k \in FindKeyByIDOrPreview(id) :
          /\ up
          /\ active' = active \ {k}
          /\ granted' = {g \in granted : g[1] # k}
          /\ UNCHANGED <<known, owns, used>>
          /\ revoked' = revoked \/ revoked' = revoked \cup {k}
          /\ up' \in BOOLEAN
          /\ revoked' # revoked => FileHolds(known, active \ {k}, owns)
          /\ \/ FileHolds(known, active \ {k}, owns)
             \/ SaveFails(known, active \ {k}, owns)
             \/ FileDamagedOrNew(known, active \ {k}, owns)
    BY <1>2 DEF RevokeKey, TypeOK
  <2>2. k \in known
    BY DEF FindKeyByIDOrPreview
  <2> DEFINE A == active \ {k}
  <2>3. known \in SUBSET Keys /\ A \in SUBSET known /\ owns \in [Keys -> SUBSET Names]
    BY DEF TypeOK
  <2>4. \A i, j \in A : owns[i] \cap owns[j] # {} => i = j
    BY DEF OneOwner
  <2>5. active' = A BY <2>1
  <2>5a. FileHolds(known, A, owns) \/ SaveFails(known, A, owns) \/ FileDamagedOrNew(known, A, owns)
    BY <2>1
  <2>5b. revoked' # revoked => fActive' = A
    BY <2>1 DEF FileHolds
  <2>5c. k \notin A OBVIOUS
  <2>5d. A \subseteq active OBVIOUS
  <2> HIDE DEF A
  <2>6. /\ file' \in {"absent", "empty", "corrupt", "ok"}
        /\ fKnown' \subseteq Keys /\ fActive' \subseteq fKnown'
        /\ fOwns' \in [Keys -> SUBSET Names]
        /\ (file' = "ok" => \A i, j \in fActive' : fOwns'[i] \cap fOwns'[j] # {} => i = j)
        /\ fKnown' = known \/ fKnown' = fKnown
        /\ file' = "ok" => (fActive' = A \/ (file = "ok" /\ fActive' = fActive))
    BY <2>3, <2>4, <2>5a, SaveKeepsInv DEF TypeOK, OneOwner
  <2>7. TypeOK'
    BY <2>1, <2>2, <2>3, <2>5, <2>6 DEF TypeOK
  <2>8. OneOwner'
    BY <2>1, <2>4, <2>5, <2>6 DEF OneOwner
  <2>9. Lineage'
    BY <2>1, <2>2, <2>5, <2>5b, <2>5c, <2>5d, <2>6 DEF Lineage
  <2> QED BY <2>7, <2>8, <2>9
<1>3. ASSUME NEW k \in Keys, NEW n \in Names, AddSubdomain(k, n)
      PROVE  KSInv'
  <2> DEFINE O == [owns EXCEPT ![k] = @ \cup {n}]
  <2>1. /\ up /\ k \in active /\ (\A j \in active : n \notin owns[j])
        /\ owns' = O /\ UNCHANGED <<known, active, used, revoked>>
    BY <1>3 DEF AddSubdomain, Owners
  <2>2. up' \in BOOLEAN /\ granted' \subseteq Keys \X Names
    <3>1. up' = up \/ up' = FALSE
      BY <1>3 DEF AddSubdomain
    <3>2. granted' = granted \/ granted' = granted \cup {<<k, n>>}
      BY <1>3 DEF AddSubdomain
    <3>3. up \in BOOLEAN /\ granted \subseteq Keys \X Names /\ <<k, n>> \in Keys \X Names
      BY DEF TypeOK
    <3>4. up' \in BOOLEAN
      BY <3>1, <3>3, Zenon
    <3> QED BY <3>2, <3>3, <3>4
  <2>3. FileHolds(known, active, O) \/ SaveFails(known, active, O)
          \/ FileDamagedOrNew(known, active, O)
    BY <1>3 DEF AddSubdomain
  <2>4. known \in SUBSET Keys /\ active \in SUBSET known /\ O \in [Keys -> SUBSET Names]
    BY DEF TypeOK
  <2>5. \A i, j \in active : O[i] \cap O[j] # {} => i = j
    BY <2>1 DEF TypeOK, OneOwner
  <2> HIDE DEF O
  <2>6. /\ file' \in {"absent", "empty", "corrupt", "ok"}
        /\ fKnown' \subseteq Keys /\ fActive' \subseteq fKnown'
        /\ fOwns' \in [Keys -> SUBSET Names]
        /\ (file' = "ok" => \A i, j \in fActive' : fOwns'[i] \cap fOwns'[j] # {} => i = j)
        /\ fKnown' = known \/ fKnown' = fKnown
        /\ file' = "ok" => (fActive' = active \/ (file = "ok" /\ fActive' = fActive))
    BY <2>3, <2>4, <2>5, SaveKeepsInv DEF TypeOK, OneOwner
  <2>7. TypeOK'
    BY <2>1, <2>2, <2>4, <2>6 DEF TypeOK
  <2>8. OneOwner'
    BY <2>1, <2>5, <2>6 DEF OneOwner
  <2>9. Lineage'
    BY <2>1, <2>6 DEF Lineage
  <2> QED BY <2>7, <2>8, <2>9
<1>5. ASSUME NEW k \in Keys, NEW n \in Names, RemoveSubdomain(k, n)
      PROVE  KSInv'
  <2> DEFINE O == [owns EXCEPT ![k] = @ \ {n}]
  <2>1. owns' = O /\ UNCHANGED <<known, active, used, revoked>>
    BY <1>5 DEF RemoveSubdomain
  <2>2. up' \in BOOLEAN /\ granted' \subseteq Keys \X Names
    BY <1>5 DEF RemoveSubdomain, TypeOK
  <2>3. FileHolds(known, active, O) \/ SaveFails(known, active, O)
          \/ FileDamagedOrNew(known, active, O)
    BY <1>5 DEF RemoveSubdomain
  <2>4. known \in SUBSET Keys /\ active \in SUBSET known /\ O \in [Keys -> SUBSET Names]
    BY DEF TypeOK
  <2>5. \A i, j \in active : O[i] \cap O[j] # {} => i = j
    BY DEF TypeOK, OneOwner
  <2> HIDE DEF O
  <2>6. /\ file' \in {"absent", "empty", "corrupt", "ok"}
        /\ fKnown' \subseteq Keys /\ fActive' \subseteq fKnown'
        /\ fOwns' \in [Keys -> SUBSET Names]
        /\ (file' = "ok" => \A i, j \in fActive' : fOwns'[i] \cap fOwns'[j] # {} => i = j)
        /\ fKnown' = known \/ fKnown' = fKnown
        /\ file' = "ok" => (fActive' = active \/ (file = "ok" /\ fActive' = fActive))
    BY <2>3, <2>4, <2>5, SaveKeepsInv DEF TypeOK, OneOwner
  <2>7. TypeOK'
    BY <2>1, <2>2, <2>4, <2>6 DEF TypeOK
  <2>8. OneOwner'
    BY <2>1, <2>5, <2>6 DEF OneOwner
  <2>9. Lineage'
    BY <2>1, <2>6 DEF Lineage
  <2> QED BY <2>7, <2>8, <2>9
<1>6. CASE Crash
  BY <1>6 DEF Crash, memVars, fileVars, TypeOK, OneOwner, Lineage
<1>7. CASE Restart
  <2>1. /\ up' = TRUE
        /\ UNCHANGED <<fileVars, used, revoked>>
        /\ granted' \in {granted, {}}
        /\ \/ file = "ok" /\ known' = fKnown /\ active' = fActive /\ owns' = fOwns
           \/ known' = {} /\ active' = {} /\ owns' = NothingOwned
    BY <1>7 DEF Restart, LoadFile
  <2> QED BY <2>1 DEF fileVars, TypeOK, OneOwner, Lineage, NothingOwned
<1>8. CASE UNCHANGED vars
  BY <1>8 DEF vars, memVars, fileVars, TypeOK, OneOwner, Lineage
<1> QED
  BY <1>1, <1>2, <1>3, <1>5, <1>6, <1>7, <1>8 DEF Next

(* Types are preserved by every operation, failed save, crash and restart. *)
THEOREM KeyStoreTypes == Spec => []TypeOK
<1>1. KSInv => TypeOK
  BY DEF KSInv
<1> QED BY <1>1, KSInitInv, KSNextInv, PTL DEF Spec

(* A subdomain never has two active owners, in memory or in a file that a  *)
(* restart may load, for any number of keys, failures and crashes.         *)
THEOREM SubdomainsHaveOneOwner == Spec => []OneOwner
<1>1. KSInv => OneOwner
  BY DEF KSInv
<1> QED BY <1>1, KSInitInv, KSNextInv, PTL DEF Spec

(* An acknowledged revocation is final.                                    *)
THEOREM RevocationsAreFinal == Spec => []RevocationSticks
<1>1. KSInv => RevocationSticks
  BY DEF KSInv, Lineage, RevocationSticks, Valid
<1> QED BY <1>1, KSInitInv, KSNextInv, PTL DEF Spec

(* The claims of G are in force for the keys A and what they own by O.     *)
InForce(G, A, O) == \A g \in G : g[1] \in A /\ g[2] \in O[g[1]]

(* What was granted is in force in the memory of a running server, and in  *)
(* the file whenever it parses: a save that fails writes the memory or     *)
(* nothing that parses.                                                    *)
ClaimsInv ==
  /\ up => InForce(granted, active, owns)
  /\ file = "ok" => InForce(granted, fActive, fOwns)

(* One save, in any of its endings, of a memory in which all of what is    *)
(* granted afterwards is in force.                                         *)
LEMMA SaveKeepsClaims ==
  ASSUME NEW K, NEW A, NEW O, NEW G, NEW G2,
         FileHolds(K, A, O) \/ SaveFails(K, A, O) \/ FileDamagedOrNew(K, A, O),
         file = "ok" => InForce(G, fActive, fOwns),
         InForce(G2, A, O),
         G2 \subseteq G \/ FileHolds(K, A, O)
  PROVE  file' = "ok" => InForce(G2, fActive', fOwns')
BY DEF FileHolds, SaveFails, FileDamagedOrNew, FileBroken, fileVars, InForce

LEMMA ClaimsInit == Init => ClaimsInv
BY DEF Init, ClaimsInv, InForce

LEMMA ClaimsStep == KSInv /\ ClaimsInv /\ [Next]_vars => ClaimsInv'
<1> SUFFICES ASSUME KSInv, ClaimsInv, [Next]_vars PROVE ClaimsInv'
  OBVIOUS
<1>0. /\ active \subseteq known /\ known \subseteq Keys /\ known \subseteq used
      /\ owns \in [Keys -> SUBSET Names] /\ granted \subseteq Keys \X Names
  BY DEF KSInv, TypeOK, Lineage
(* An operation that turns the memory into K, A, O and saves it.           *)
<1>a. ASSUME NEW K, NEW A, NEW O, InForce(granted', A, O),
             (active' = A /\ owns' = O) \/ InForce(granted', active', owns'),
             granted' \subseteq granted \/ FileHolds(K, A, O),
             FileHolds(K, A, O) \/ SaveFails(K, A, O) \/ FileDamagedOrNew(K, A, O)
      PROVE  ClaimsInv'
  <2>1. file' = "ok" => InForce(granted', fActive', fOwns')
    BY <1>a, SaveKeepsClaims DEF ClaimsInv
  <2> QED BY <1>a, <2>1 DEF ClaimsInv
<1>1. ASSUME NEW k \in Keys, NEW N \in SUBSET Names, CreateKey(k, N) PROVE ClaimsInv'
  <2> DEFINE K == known \cup {k}
             A == active \cup {k}
             O == [owns EXCEPT ![k] = N]
  <2>1. k \notin active /\ InForce(granted, active, owns)
    BY <1>0, <1>1 DEF CreateKey, ClaimsInv
  <2>2. InForce(granted, A, O)
    BY <1>0, <2>1 DEF InForce
  <2>3. InForce(granted \cup ({k} \X N), A, O)
    BY <1>0, <2>2 DEF InForce
  <2>4. CASE FileHolds(K, A, O) /\ active' = A /\ owns' = O /\ granted' = granted \cup ({k} \X N)
    BY <1>a, <2>3, <2>4
  <2>5. CASE /\ SaveFails(K, A, O) \/ FileDamagedOrNew(K, A, O)
             /\ UNCHANGED <<memVars, granted>>
    BY <1>a, <2>1, <2>2, <2>5 DEF memVars
  <2> QED BY <1>1, <2>4, <2>5 DEF CreateKey
<1>2. ASSUME NEW id, RevokeKey(id) PROVE ClaimsInv'
  <2>1. PICK k \in FindKeyByIDOrPreview(id) :
          /\ up /\ active' = active \ {k} /\ owns' = owns
          /\ granted' = {g \in granted : g[1] # k}
          /\ \/ FileHolds(known, active \ {k}, owns)
             \/ SaveFails(known, active \ {k}, owns)
             \/ FileDamagedOrNew(known, active \ {k}, owns)
    BY <1>2 DEF RevokeKey
  <2>2. InForce(granted', active \ {k}, owns)
    BY <2>1 DEF ClaimsInv, InForce
  <2> QED BY <1>a, <2>1, <2>2
<1>3. ASSUME NEW k \in Keys, NEW n \in Names, AddSubdomain(k, n) PROVE ClaimsInv'
  <2> DEFINE O == [owns EXCEPT ![k] = @ \cup {n}]
  <2>1. /\ up /\ k \in active /\ active' = active /\ owns' = O
        /\ \/ FileHolds(known, active, O) /\ granted' = granted \cup {<<k, n>>}
           \/ /\ SaveFails(known, active, O) \/ FileDamagedOrNew(known, active, O)
              /\ granted' = granted
    BY <1>3 DEF AddSubdomain
  <2>2. InForce(granted \cup {<<k, n>>}, active, O)
    BY <1>0, <2>1 DEF ClaimsInv, InForce
  <2>3. InForce(granted', active, O)
    BY <2>1, <2>2 DEF InForce
  <2> QED BY <1>a, <2>1, <2>3
<1>4. ASSUME NEW k \in Keys, NEW n \in Names, RemoveSubdomain(k, n) PROVE ClaimsInv'
  <2> DEFINE O == [owns EXCEPT ![k] = @ \ {n}]
  <2>1. /\ up /\ active' = active /\ owns' = O /\ granted' = granted \ {<<k, n>>}
        /\ FileHolds(known, active, O) \/ SaveFails(known, active, O)
             \/ FileDamagedOrNew(known, active, O)
    BY <1>4 DEF RemoveSubdomain
  <2>2. InForce(granted', active, O)
    BY <1>0, <2>1 DEF ClaimsInv, InForce
  <2> QED BY <1>a, <2>1, <2>2
<1>5. CASE Crash
  BY <1>5 DEF Crash, fileVars, memVars, ClaimsInv
<1>6. CASE Restart
  BY <1>6 DEF Restart, LoadFile, fileVars, ClaimsInv, InForce
<1>7. CASE UNCHANGED vars
  BY <1>7 DEF vars, fileVars, memVars, ClaimsInv
<1> QED BY <1>1, <1>2, <1>3, <1>4, <1>5, <1>6, <1>7 DEF Next

(* "Claim once, yours forever", for any number of keys and names: a claim  *)
(* that was saved is in force whenever the server runs, through failing    *)
(* saves, crashes and restarts, until its key gives it up, its key is      *)
(* revoked or a restart finds an emptied file.                             *)
THEOREM ClaimsLast == Spec => []ClaimsSurvive
<1>1. Init => KSInv /\ ClaimsInv
  BY KSInitInv, ClaimsInit
<1>2. KSInv /\ ClaimsInv /\ [Next]_vars => (KSInv /\ ClaimsInv)'
  BY KSNextInv, ClaimsStep
<1>3. KSInv /\ ClaimsInv => ClaimsSurvive
  BY DEF ClaimsInv, InForce, ClaimsSurvive, Owners
<1> QED BY <1>1, <1>2, <1>3, PTL DEF Spec
=============================================================================
