---------------------------- MODULE Components_proofs ----------------------------
(***************************************************************************)
(* Proofs about PetAccess, DatabaseUpgrade, Connector, HostBacklog,        *)
(* WpRunner, CodexExecutor and WorkPetConsole, and about the eight side by *)
(* side: for every set of accounts, processes, teams, messages, executors  *)
(* and groups, any number of migrations, commands and claims, and any      *)
(* limits and durations.                                                   *)
(***************************************************************************)
EXTENDS Components, WorkPetConsole, RunnerRegistry_proofs, SiteDirectory_proofs,
        FiniteSetTheorems, TLAPS

-----------------------------------------------------------------------------
(* PetAccess. What the overlay of a pet holds is the account of one of the     *)
(* logins since the relay started; that a request is made with it, and not     *)
(* with an entry of the configuration or the shared account, needs to know     *)
(* that the pet of every token handed out since then has an overlay.           *)

\* A login WorkPanel has accepted was made with a password that was in force.
LoggingInv == \A a \in Accounts, p \in Passwords : <<a, p>> \in logging => p <= password[a]

\* A token handed out since the start is of its account's pet, which has an overlay.
SignedInInv ==
    \A entry \in signedIn : PetOf[entry[2]] = entry[1][1] /\ overlay[entry[1][1]] # NoOverlay

\* An overlay is that of a login since the start.
OverlayInv ==
    \A p \in Pets : overlay[p] # NoOverlay =>
        \E entry \in signedIn : entry[1][1] = p /\ entry[2] = overlay[p].user

AccessInv ==
    AccessTypeOK /\ RememberedWasAccepted /\ LoggingInv /\ SignedInInv /\ OverlayInv

\* A token is a pair of a pet and a number.
LEMMA PetTokenFacts ==
    ASSUME NEW t \in PetTokens
    PROVE  t = <<t[1], t[2]>> /\ t[1] \in Pets /\ t[2] \in Nat
<1>1. CASE t \in ConfiguredPets \X {0}
  BY <1>1, PetAccessAssumption
<1>2. CASE t \in LoginPets \X (1..MaxLogins)
  <2>1. LoginPets \subseteq Pets
    BY PetAccessAssumption DEF LoginPets
  <2> QED
    BY <1>2, <2>1, PetAccessAssumption
<1> QED
  BY <1>1, <1>2 DEF PetTokens

LEMMA PasswordFacts ==
    /\ \A p \in Passwords : p \in Nat
    /\ \A a \in Accounts : 0..MaxPasswords[a] \subseteq Passwords
BY PetAccessAssumption DEF Passwords

\* What a login leaves in the overlay is a record of that login.
LEMMA RecordFacts ==
    ASSUME NEW a \in Accounts, NEW p \in Passwords
    PROVE  /\ [user |-> a, password |-> p] \in [user : Accounts, password : Passwords]
           /\ [user |-> a, password |-> p] # NoOverlay
<1>1. p \in Nat
  BY PasswordFacts
<1>2. [user |-> a, password |-> p].password # NoOverlay.password
  BY <1>1 DEF NoOverlay
<1> QED
  BY <1>2

LEMMA AccessInit_Inv == AccessInit => AccessInv
<1> SUFFICES ASSUME AccessInit PROVE AccessInv
  OBVIOUS
<1>1. AccessTypeOK
  <2>1. \A a \in Accounts : 0 \in Passwords
    BY PasswordFacts, PetAccessAssumption
  <2> QED
    BY <2>1 DEF AccessInit, AccessTypeOK
<1>2. RememberedWasAccepted /\ LoggingInv /\ SignedInInv /\ OverlayInv
  BY DEF AccessInit, RememberedWasAccepted, LoggingInv, SignedInInv, OverlayInv
<1> QED
  BY <1>1, <1>2 DEF AccessInv

LEMMA AccessStep_Type == AccessTypeOK /\ [AccessNext]_accessVars => AccessTypeOK'
<1> SUFFICES ASSUME AccessTypeOK, [AccessNext]_accessVars PROVE AccessTypeOK'
  OBVIOUS
<1>1. ASSUME NEW a \in Accounts, NEW p \in Passwords, Login(a, p) PROVE AccessTypeOK'
  BY <1>1 DEF Login, AccessTypeOK, Base, Bases
<1>2. ASSUME NEW a \in Accounts, NEW p \in Passwords, NEW t \in PetTokens, LoginRecorded(a, p, t)
      PROVE  AccessTypeOK'
  <2>1. session' \in [PetTokens -> {"none", "active", "revoked"}]
    BY <1>2 DEF LoginRecorded, IssueLoginPet, AccessTypeOK
  <2>2. overlay' \in [Pets -> [user : Accounts, password : Passwords] \cup {NoOverlay}]
    <3> DEFINE R == [user |-> a, password |-> p]
    <3>1. R \in [user : Accounts, password : Passwords]
      BY RecordFacts
    <3>2. overlay' = [overlay EXCEPT ![PetOf[a]] = R]
      BY <1>2 DEF LoginRecorded
    <3> HIDE DEF R
    <3> QED
      BY <3>1, <3>2 DEF AccessTypeOK
  <2>3. /\ logging' \subseteq Accounts \X Passwords
        /\ signedIn' \subseteq PetTokens \X Accounts
        /\ UNCHANGED <<password, cache, slot>>
    BY <1>2 DEF LoginRecorded, AccessTypeOK
  <2> QED
    BY <2>1, <2>2, <2>3 DEF AccessTypeOK
<1>3. ASSUME NEW t \in PetTokens, Request(t) PROVE AccessTypeOK'
  <2>1. cache' \subseteq Bases \X Accounts
    BY <1>3 DEF Request, AccessTypeOK
  <2> QED
    BY <1>3, <2>1 DEF Request, AccessTypeOK
<1>4. ASSUME NEW t \in PetTokens, Revoke(t) PROVE AccessTypeOK'
  BY <1>4 DEF Revoke, AccessTypeOK
<1>5. ASSUME NEW auth \in BOOLEAN, SlotRegisters(auth) PROVE AccessTypeOK'
  BY <1>5 DEF SlotRegisters, Upserted, AccessTypeOK
<1>6. ASSUME NEW a \in Accounts, PasswordChanges(a) PROVE AccessTypeOK'
  <2>1. password[a] + 1 \in Passwords
    <3>1. password[a] \in Nat /\ password[a] < MaxPasswords[a] /\ MaxPasswords[a] \in Nat
      BY <1>6, PasswordFacts, PetAccessAssumption DEF PasswordChanges, AccessTypeOK
    <3> QED
      BY <3>1, PasswordFacts
  <2> QED
    BY <1>6, <2>1 DEF PasswordChanges, AccessTypeOK
<1>7. ASSUME NEW entry \in cache, CacheExpires(entry) PROVE AccessTypeOK'
  BY <1>7 DEF CacheExpires, AccessTypeOK
<1>8. CASE RelayRestarts
  <2>1. session' \in [PetTokens -> {"none", "active", "revoked"}]
    BY <1>8 DEF RelayRestarts, SyncConfigPets, AccessTypeOK
  <2> QED
    BY <1>8, <2>1 DEF RelayRestarts, AccessTypeOK
<1>9. CASE SlotGoesStale
  BY <1>9 DEF SlotGoesStale, AccessTypeOK
<1>10. CASE SlotBeats
  BY <1>10 DEF SlotBeats, AccessTypeOK
<1>11. CASE UNCHANGED accessVars
  BY <1>11 DEF accessVars, AccessTypeOK
<1> QED
  BY ONLY [AccessNext]_accessVars, <1>1, <1>2, <1>3, <1>4, <1>5, <1>6, <1>7, <1>8, <1>9, <1>10,
     <1>11
  DEF AccessNext

LEMMA AccessStep_Inv == AccessInv /\ [AccessNext]_accessVars => AccessInv'
<1> DEFINE Rest == RememberedWasAccepted /\ LoggingInv /\ SignedInInv /\ OverlayInv
<1> SUFFICES ASSUME AccessInv, [AccessNext]_accessVars PROVE Rest'
  BY AccessStep_Type DEF AccessInv
<1>0. AccessTypeOK /\ Rest
  BY DEF AccessInv
<1>a. /\ \A a \in Accounts : password[a] \in Nat
      /\ \A p \in Pets : overlay[p] # NoOverlay =>
            overlay[p].user \in Accounts /\ overlay[p].password \in Nat
  BY <1>0, PasswordFacts DEF AccessTypeOK
<1>1. ASSUME NEW a \in Accounts, NEW p \in Passwords, Login(a, p) PROVE Rest'
  <2>1. LoggingInv'
    BY <1>0, <1>a, <1>1 DEF Login, LoggingInv
  <2> QED
    BY <1>0, <1>1, <2>1 DEF Login, RememberedWasAccepted, SignedInInv, OverlayInv
<1>2. ASSUME NEW a \in Accounts, NEW p \in Passwords, NEW t \in PetTokens, LoginRecorded(a, p, t)
      PROVE  Rest'
  <2> DEFINE R == [user |-> a, password |-> p]
  <2>0. /\ UNCHANGED password /\ logging' \subseteq logging
        /\ t[1] = PetOf[a] /\ PetOf[a] \in Pets
        /\ \A q \in Pets : overlay'[q] = IF q = PetOf[a] THEN R ELSE overlay[q]
        /\ signedIn' = signedIn \cup {<<t, a>>}
        /\ p <= password[a]
    BY <1>0, <1>2, PetAccessAssumption DEF LoginRecorded, IssueLoginPet, LoggingInv, AccessTypeOK
  <2>1. R.user = a /\ R.password = p /\ R # NoOverlay
    BY RecordFacts
  <2> HIDE DEF R
  <2>2. LoggingInv'
    BY <1>0, <2>0 DEF LoggingInv
  <2>3. RememberedWasAccepted'
    <3> SUFFICES ASSUME NEW q \in Pets, overlay'[q] # NoOverlay
                 PROVE  /\ PetOf[overlay'[q].user] = q
                        /\ overlay'[q].password <= password'[overlay'[q].user]
      BY DEF RememberedWasAccepted
    <3>1. CASE q = PetOf[a]
      BY <2>0, <2>1, <3>1
    <3>2. CASE q # PetOf[a]
      BY <1>0, <2>0, <3>2 DEF RememberedWasAccepted
    <3> QED
      BY <3>1, <3>2
  <2>4. SignedInInv'
    <3> SUFFICES ASSUME NEW entry \in signedIn'
                 PROVE  PetOf[entry[2]] = entry[1][1] /\ overlay'[entry[1][1]] # NoOverlay
      BY DEF SignedInInv
    <3>1. CASE entry = <<t, a>>
      BY <2>0, <2>1, <3>1
    <3>2. CASE entry \in signedIn
      <4>1. entry[1][1] \in Pets
        BY <1>0, <3>2, PetTokenFacts DEF AccessTypeOK
      <4> QED
        BY <1>0, <2>0, <2>1, <3>2, <4>1 DEF SignedInInv
    <3> QED
      BY <2>0, <3>1, <3>2
  <2>5. OverlayInv'
    <3> SUFFICES ASSUME NEW q \in Pets, overlay'[q] # NoOverlay
                 PROVE  \E entry \in signedIn' :
                            entry[1][1] = q /\ entry[2] = overlay'[q].user
      BY DEF OverlayInv
    <3>1. CASE q = PetOf[a]
      <4>1. /\ <<t, a>> \in signedIn' /\ <<t, a>>[1][1] = q
            /\ <<t, a>>[2] = overlay'[q].user
        BY <2>0, <2>1, <3>1
      <4> QED
        BY <4>1
    <3>2. CASE q # PetOf[a]
      BY <1>0, <2>0, <3>2 DEF OverlayInv
    <3> QED
      BY <3>1, <3>2
  <2> QED
    BY <2>2, <2>3, <2>4, <2>5
<1>3. ASSUME NEW a \in Accounts, PasswordChanges(a) PROVE Rest'
  <2>1. \A b \in Accounts : password'[b] \in Nat /\ password[b] <= password'[b]
    BY <1>0, <1>a, <1>3 DEF PasswordChanges, AccessTypeOK
  <2>2. RememberedWasAccepted'
    <3> SUFFICES ASSUME NEW q \in Pets, overlay[q] # NoOverlay
                 PROVE  overlay[q].password <= password'[overlay[q].user]
      BY <1>0, <1>3 DEF PasswordChanges, RememberedWasAccepted
    <3> QED
      BY <1>0, <1>a, <2>1 DEF RememberedWasAccepted
  <2>3. LoggingInv'
    BY <1>0, <1>a, <1>3, <2>1, PasswordFacts DEF PasswordChanges, LoggingInv
  <2> QED
    BY <1>0, <1>3, <2>2, <2>3 DEF PasswordChanges, SignedInInv, OverlayInv
<1>4. CASE RelayRestarts
  BY <1>4 DEF RelayRestarts, RememberedWasAccepted, LoggingInv, SignedInInv, OverlayInv
<1>5. ASSUME UNCHANGED <<overlay, password, logging, signedIn>> PROVE Rest'
  BY <1>0, <1>5 DEF RememberedWasAccepted, LoggingInv, SignedInInv, OverlayInv
<1>6. (\E t \in PetTokens : Request(t) \/ Revoke(t)) \/ (\E auth \in BOOLEAN : SlotRegisters(auth))
      \/ (\E entry \in cache : CacheExpires(entry)) \/ SlotBeats \/ SlotGoesStale
      \/ UNCHANGED accessVars
        => UNCHANGED <<overlay, password, logging, signedIn>>
  BY DEF Request, Revoke, SlotRegisters, CacheExpires, SlotBeats, SlotGoesStale, accessVars
<1> HIDE DEF Rest
<1> QED
  BY ONLY [AccessNext]_accessVars, <1>1, <1>2, <1>3, <1>4, <1>5, <1>6 DEF AccessNext

\* In every behaviour of the sign-in the inductive invariant holds.
THEOREM AccessInvariance == AccessSpec => []AccessInv
<1> QED
  BY AccessInit_Inv, AccessStep_Inv, PTL DEF AccessSpec

\* The relay remembers accepted passwords only; a token handed out since it started is
\* served as an account that has logged in to its pet since then, and as the very
\* account it was handed to if no other shares the pet's id.
THEOREM PetIsItselfHolds == AccessSpec => []PetIsItself
<1>1. AccessInv => PetIsItself
  <2> SUFFICES ASSUME AccessInv PROVE ServedAsALogin /\ ItselfUnlessShared
    BY DEF AccessInv, PetIsItself
  <2>0. AccessTypeOK /\ RememberedWasAccepted /\ SignedInInv /\ OverlayInv
    BY DEF AccessInv
  <2>1. ASSUME NEW entry \in signedIn, NEW u \in ServedAs(entry[1][1])
        PROVE  /\ entry[1][1] \in Pets /\ overlay[entry[1][1]] # NoOverlay
               /\ u = overlay[entry[1][1]].user
    <3>1. entry[1][1] \in Pets /\ overlay[entry[1][1]] # NoOverlay
      BY <2>0, PetTokenFacts DEF AccessTypeOK, SignedInInv
    <3>2. PetAccount(entry[1][1]) = overlay[entry[1][1]].user
      BY <3>1 DEF PetAccount
    <3>3. u = PetAccount(entry[1][1])
      BY DEF ServedAs, CachedAs
    <3> QED
      BY <3>1, <3>2, <3>3
  <2>2. ServedAsALogin
    BY <2>0, <2>1 DEF ServedAsALogin, OverlayInv
  <2>3. ItselfUnlessShared
    <3> SUFFICES ASSUME NEW entry \in signedIn,
                        \A b \in Accounts : PetOf[b] = entry[1][1] => b = entry[2],
                        NEW u \in ServedAs(entry[1][1])
                 PROVE  u = entry[2]
      BY DEF ItselfUnlessShared
    <3>1. u = overlay[entry[1][1]].user /\ u \in Accounts /\ PetOf[u] = entry[1][1]
      BY <2>0, <2>1 DEF RememberedWasAccepted, AccessTypeOK
    <3> QED
      BY <3>1
  <2> QED
    BY <2>2, <2>3
<1> QED
  BY AccessInvariance, <1>1, PTL

-----------------------------------------------------------------------------
(* DatabaseUpgrade. A process writes by a plan older than its lock.  PlanInv    *)
(* says what the plan still says of a file that nobody has recorded a migration *)
(* in, and that the first migration is always recorded where any is; the rest   *)
(* is the primary key of schema_migrations.                                     *)

\* Of a file without schema_migrations only the first migration may be there.
LegacyInv == recorded = NoTable => \A v \in Versions : schema[v] = 0 \/ (v = 1 /\ schema[v] = 1)

\* What the plan of a process says, from its first read to its commit.
PlanOK(p) ==
    /\ opening[p] \in {"applied", "backup", "begin", "writing"} =>
          recorded # NoTable \/ plan[p].fresh \/ schema[1] = 1
    /\ opening[p] \in {"begin", "writing"} =>
          /\ plan[p].legacy => ~plan[p].fresh /\ 1 \in plan[p].applied
          /\ recorded # NoTable \/ plan[p].fresh \/ plan[p].legacy
    /\ opening[p] \in {"closed", "tables", "applied", "backup"} => ~plan[p].legacy

PlanInv ==
    /\ recorded # NoTable => 1 \in recorded
    /\ \A p \in Processes : PlanOK(p)

Plans == [fresh : BOOLEAN, applied : SUBSET Versions, legacy : BOOLEAN]

UpgradeInv == UpgradeTypeOK /\ RecordedOnce /\ LegacyInv /\ PlanInv

LEMMA VersionFacts ==
    /\ 1 \in Versions /\ 0 \notin Versions
    /\ \A S \in SUBSET Versions : S # NoTable
BY DatabaseUpgradeAssumption DEF Versions, NoTable

LEMMA UpgradeInit_Inv == UpgradeInit => UpgradeInv
<1> SUFFICES ASSUME UpgradeInit PROVE UpgradeInv
  OBVIOUS
<1> DEFINE Facts == /\ schema \in [Versions -> Nat]
                    /\ recorded \in (SUBSET Versions) \cup {NoTable}
                    /\ RecordedOnce /\ LegacyInv
                    /\ recorded # NoTable => 1 \in recorded
<1>1. Facts
  <2>1. ASSUME recorded = NoTable,
               \/ schema = [v \in Versions |-> 0]
               \/ schema = [v \in Versions |-> IF v = 1 THEN 1 ELSE 0]
        PROVE  Facts
    <3>1. schema \in [Versions -> Nat]
      BY <2>1
    <3>2. LegacyInv
      BY <2>1 DEF LegacyInv
    <3> QED
      BY <2>1, <3>1, <3>2 DEF RecordedOnce
  <2>2. ASSUME NEW n \in Versions, schema = [v \in Versions |-> IF v <= n THEN 1 ELSE 0],
               recorded = 1..n
        PROVE  Facts
    <3>1. recorded \in SUBSET Versions /\ 1 \in recorded
      BY <2>2, DatabaseUpgradeAssumption DEF Versions
    <3>2. \A v \in Versions : v \in recorded <=> v <= n
      BY <2>2, DatabaseUpgradeAssumption DEF Versions
    <3>3. schema \in [Versions -> Nat] /\ RecordedOnce
      BY <2>2, <3>2 DEF RecordedOnce
    <3>4. recorded # NoTable
      BY <3>1, VersionFacts
    <3> QED
      BY <3>1, <3>3, <3>4 DEF LegacyInv
  <2> HIDE DEF Facts
  <2> QED
    BY <2>1, <2>2 DEF UpgradeInit
<1>2. UpgradeTypeOK
  BY <1>1, VersionFacts DEF UpgradeInit, UpgradeTypeOK, NoPlan
<1>3. PlanInv
  BY <1>1 DEF UpgradeInit, PlanInv, PlanOK, NoPlan
<1> QED
  BY <1>1, <1>2, <1>3 DEF UpgradeInv

\* Steps that leave the database alone: what has to be seen about the process.
LEMMA UpgradeReads ==
    ASSUME UpgradeInv, NEW p \in Processes, UNCHANGED <<schema, recorded>>, UpgradeTypeOK',
           \A r \in Processes : r # p => opening'[r] = opening[r] /\ plan'[r] = plan[r],
           PlanOK(p)'
    PROVE  UpgradeInv'
<1>1. RecordedOnce' /\ LegacyInv'
  BY DEF UpgradeInv, RecordedOnce, LegacyInv
<1>2. PlanInv'
  <2> SUFFICES ASSUME NEW r \in Processes, r # p PROVE PlanOK(r)'
    BY DEF UpgradeInv, PlanInv
  <2> QED
    BY DEF UpgradeInv, PlanInv, PlanOK
<1> QED
  BY <1>1, <1>2 DEF UpgradeInv

LEMMA UpgradeStep_Inv == UpgradeInv /\ [UpgradeNext]_upgradeVars => UpgradeInv'
<1> SUFFICES ASSUME UpgradeInv, [UpgradeNext]_upgradeVars PROVE UpgradeInv'
  OBVIOUS
<1>0. UpgradeTypeOK /\ RecordedOnce /\ LegacyInv /\ PlanInv
  BY DEF UpgradeInv
<1>a. Rows \subseteq Versions
  BY <1>0 DEF UpgradeTypeOK, Rows
<1>b. /\ release \in [Processes -> Versions] /\ writer \in Processes \cup {NoWriter}
      /\ copy \in [Processes -> [Versions -> Nat] \cup {NoCopy}]
      /\ schema \in [Versions -> Nat]
  BY <1>0 DEF UpgradeTypeOK
<1>d. /\ schema \in [Versions -> Nat] /\ recorded \in (SUBSET Versions) \cup {NoTable}
      /\ opening \in [Processes -> {"closed", "tables", "applied", "backup", "begin",
                                   "writing", "committed", "open"}]
      /\ release \in [Processes -> Versions] /\ plan \in [Processes -> Plans]
      /\ copy \in [Processes -> [Versions -> Nat] \cup {NoCopy}]
      /\ writer \in Processes \cup {NoWriter}
  BY <1>0 DEF UpgradeTypeOK, Plans
<1>1. ASSUME NEW p \in Processes, Stops(p) PROVE UpgradeInv'
  <2>1. /\ opening' = [opening EXCEPT ![p] = "closed"] /\ plan' = [plan EXCEPT ![p] = NoPlan]
        /\ UNCHANGED <<schema, recorded, release>>
        /\ copy' = [copy EXCEPT ![p] = NoCopy] /\ writer' \in {writer, NoWriter}
    BY <1>1 DEF Stops
  <2>2. NoPlan \in Plans /\ ~NoPlan.legacy
    BY DEF NoPlan, Plans
  <2>3. UpgradeTypeOK'
    BY <1>d, <2>1, <2>2 DEF UpgradeTypeOK, Plans
  <2>4. PlanOK(p)'
    BY <1>d, <2>1, <2>2 DEF PlanOK
  <2> QED
    BY <1>d, <2>1, <2>3, <2>4, UpgradeReads
<1>2. ASSUME NEW p \in Processes, NEW r \in Versions, StartsUp(p, r) PROVE UpgradeInv'
  <2>1. /\ release' = [release EXCEPT ![p] = r]
        /\ opening' = [opening EXCEPT ![p] = "tables"]
        /\ UNCHANGED <<schema, recorded, plan, copy, writer>> /\ opening[p] = "closed"
    BY <1>2 DEF StartsUp, Moves
  <2>2. UpgradeTypeOK'
    BY <1>d, <2>1 DEF UpgradeTypeOK, Plans
  <2>3. PlanOK(p)'
    BY <1>0, <1>d, <2>1 DEF PlanInv, PlanOK
  <2> QED
    BY <1>d, <2>1, <2>2, <2>3, UpgradeReads
<1>3. ASSUME NEW p \in Processes, ReadTables(p) PROVE UpgradeInv'
  <2> DEFINE fresh == (\A v \in Versions : schema[v] = 0) /\ recorded = NoTable
             q == [plan[p] EXCEPT !.fresh = fresh]
  <2>1. /\ opening' = [opening EXCEPT ![p] = "applied"] /\ opening[p] = "tables"
        /\ plan' = [plan EXCEPT ![p] = q]
        /\ UNCHANGED <<schema, recorded, release, copy, writer>>
    BY <1>3 DEF ReadTables, Moves
  <2>2. fresh \in BOOLEAN /\ (recorded # NoTable \/ fresh \/ schema[1] = 1) /\ ~plan[p].legacy
    BY <1>0, <2>1 DEF LegacyInv, PlanInv, PlanOK
  <2> HIDE DEF fresh
  <2>3. q \in Plans /\ (q.fresh <=> fresh) /\ ~q.legacy
    BY <1>d, <2>2 DEF Plans
  <2> HIDE DEF q
  <2>4. UpgradeTypeOK'
    BY <1>d, <2>1, <2>3 DEF UpgradeTypeOK, Plans
  <2>5. PlanOK(p)'
    BY <1>d, <2>1, <2>2, <2>3 DEF PlanOK
  <2> QED
    BY <1>d, <2>1, <2>4, <2>5, UpgradeReads
<1>4. ASSUME NEW p \in Processes, ReadApplied(p), ~Stops(p) PROVE UpgradeInv'
  <2> DEFINE q == [plan[p] EXCEPT !.applied = Rows]
  <2>1. /\ opening' = [opening EXCEPT ![p] = "backup"] /\ opening[p] = "applied"
        /\ plan' = [plan EXCEPT ![p] = q]
        /\ UNCHANGED <<schema, recorded, release, copy, writer>>
    BY <1>4 DEF ReadApplied, Moves
  <2>2. (recorded # NoTable \/ plan[p].fresh \/ schema[1] = 1) /\ ~plan[p].legacy
    BY <1>0, <2>1 DEF PlanInv, PlanOK
  <2>3. q \in Plans /\ q.fresh = plan[p].fresh /\ q.legacy = plan[p].legacy
    BY <1>a, <1>d DEF Plans
  <2> HIDE DEF q
  <2>4. UpgradeTypeOK'
    BY <1>d, <2>1, <2>3 DEF UpgradeTypeOK, Plans
  <2>5. PlanOK(p)'
    BY <1>d, <2>1, <2>2, <2>3 DEF PlanOK
  <2> QED
    BY <1>d, <2>1, <2>4, <2>5, UpgradeReads
<1>5. ASSUME NEW p \in Processes, BackUp(p) PROVE UpgradeInv'
  <2> DEFINE legacy == ~plan[p].fresh /\ recorded = NoTable
             applied == plan[p].applied \cup (IF legacy THEN {1} ELSE {})
             q == [plan[p] EXCEPT !.applied = applied, !.legacy = legacy]
  <2>1. /\ opening' = [opening EXCEPT ![p] = "begin"] /\ opening[p] = "backup"
        /\ plan' = [plan EXCEPT ![p] = q]
        /\ UNCHANGED <<schema, recorded, release, writer>>
    BY <1>5 DEF BackUp, Moves
  <2>2. PICK S \in {schema, NoCopy} : copy' = [copy EXCEPT ![p] = S]
    BY <1>5 DEF BackUp
  <2>3. recorded # NoTable \/ plan[p].fresh \/ schema[1] = 1
    BY <1>0, <2>1 DEF PlanInv, PlanOK
  <2>4. plan[p].fresh \in BOOLEAN /\ plan[p].applied \in SUBSET Versions
    BY <1>d DEF Plans
  <2>5. /\ legacy \in BOOLEAN /\ applied \in SUBSET Versions
        /\ legacy => ~plan[p].fresh /\ 1 \in applied
        /\ recorded # NoTable \/ plan[p].fresh \/ legacy
    BY <2>4, VersionFacts
  <2> HIDE DEF applied, legacy
  <2>6. q \in Plans /\ q.fresh = plan[p].fresh /\ q.applied = applied /\ q.legacy = legacy
    BY <1>d, <2>5 DEF Plans
  <2> HIDE DEF q
  <2>7. UpgradeTypeOK'
    BY <1>d, <2>1, <2>2, <2>6 DEF UpgradeTypeOK, Plans
  <2>8. PlanOK(p)'
    BY <1>d, <2>1, <2>3, <2>5, <2>6 DEF PlanOK
  <2> QED
    BY <1>d, <2>1, <2>7, <2>8, UpgradeReads
<1>6. ASSUME NEW p \in Processes, Begin(p), ~Stops(p) PROVE UpgradeInv'
  <2>1. /\ opening' = [opening EXCEPT ![p] = "writing"] /\ opening[p] = "begin"
        /\ writer' = p /\ UNCHANGED <<schema, recorded, release, plan, copy>>
    BY <1>6 DEF Begin, Moves
  <2>2. UpgradeTypeOK'
    BY <1>d, <2>1 DEF UpgradeTypeOK, Plans
  <2>3. PlanOK(p)'
    BY <1>0, <1>d, <2>1 DEF PlanInv, PlanOK
  <2> QED
    BY <1>d, <2>1, <2>2, <2>3, UpgradeReads
<1>7. ASSUME NEW p \in Processes, Opens(p), ~Stops(p) PROVE UpgradeInv'
  <2>1. /\ opening' = [opening EXCEPT ![p] = "open"]
        /\ UNCHANGED <<schema, recorded, release, plan, copy, writer>>
    BY <1>7 DEF Opens, Moves
  <2>2. UpgradeTypeOK'
    BY <1>d, <2>1 DEF UpgradeTypeOK, Plans
  <2>3. PlanOK(p)'
    BY <1>d, <2>1 DEF PlanOK
  <2> QED
    BY <1>d, <2>1, <2>2, <2>3, UpgradeReads
<1>8. ASSUME NEW p \in Processes, Commit(p), ~Stops(p) PROVE UpgradeInv'
  <2>1. /\ opening[p] = "writing" /\ InsertsSucceed(p)
        /\ schema' = Executed(p) /\ recorded' = Rows \cup Inserts(p)
        /\ writer' = NoWriter /\ opening' = [opening EXCEPT ![p] = "committed"]
        /\ UNCHANGED <<release, plan, copy>>
    BY <1>8 DEF Commit, Moves
  <2>2. Ships(p) \subseteq Versions /\ 1 \in Ships(p)
    <3>1. release[p] \in Versions
      BY <1>b
    <3> QED
      BY <3>1, DatabaseUpgradeAssumption DEF Ships, Versions
  <2>3. /\ plan[p].legacy => ~plan[p].fresh /\ 1 \in plan[p].applied
        /\ recorded # NoTable \/ plan[p].fresh \/ plan[p].legacy
        /\ recorded # NoTable \/ plan[p].fresh \/ schema[1] = 1
    BY <1>0, <2>1 DEF PlanInv, PlanOK
  <2>4. Executes(p) \subseteq Ships(p) /\ Inserts(p) \subseteq Versions
    BY <2>2, VersionFacts DEF Executes, Inserts
  <2>5. recorded' \in SUBSET Versions /\ recorded' # NoTable
    BY <1>a, <2>1, <2>4, VersionFacts
  <2>6. \A v \in Versions :
          schema'[v] = IF v \notin Executes(p) THEN schema[v]
                       ELSE IF plan[p].fresh THEN IF schema[v] = 0 THEN 1 ELSE schema[v]
                       ELSE schema[v] + 1
    BY <2>1 DEF Executed
  <2>7. schema' \in [Versions -> Nat]
    <3>1. \A v \in Versions : schema[v] \in Nat /\ schema[v] + 1 \in Nat /\ 1 \in Nat
      BY <1>b
    <3> QED
      BY <2>1, <3>1 DEF Executed
  <2>8. RecordedOnce' /\ 1 \in recorded'
    <3> SUFFICES ASSUME NEW v \in Versions
                 PROVE  /\ schema'[v] = IF v \in recorded' THEN 1 ELSE 0
                        /\ 1 \in recorded'
      BY VersionFacts DEF RecordedOnce
    <3>1. CASE recorded # NoTable
      <4>1. Rows = recorded /\ 1 \in recorded /\ schema[v] = IF v \in recorded THEN 1 ELSE 0
        BY <1>0, <3>1 DEF Rows, PlanInv, RecordedOnce
      <4>2. Inserts(p) = Executes(p) /\ \A u \in Executes(p) : u \notin recorded
        BY <2>1, <4>1 DEF InsertsSucceed, Inserts
      <4> QED
        BY <2>1, <2>6, <4>1, <4>2
    <3>2. CASE recorded = NoTable /\ plan[p].fresh
      <4>1. /\ Rows = {} /\ Inserts(p) = Ships(p) /\ Executes(p) = Ships(p)
            /\ schema[v] = 0 \/ (v = 1 /\ schema[v] = 1)
        BY <1>0, <2>3, <3>2 DEF Rows, Inserts, Executes, LegacyInv
      <4> QED
        BY <2>1, <2>2, <2>6, <3>2, <4>1
    <3>3. CASE recorded = NoTable /\ ~plan[p].fresh
      <4>1. /\ Rows = {} /\ Inserts(p) = Executes(p) \cup {1} /\ 1 \notin Executes(p)
            /\ schema[1] = 1 /\ (v # 1 => schema[v] = 0)
        BY <1>0, <2>3, <3>3 DEF Rows, Inserts, Executes, LegacyInv
      <4> QED
        BY <2>1, <2>6, <3>3, <4>1
    <3> QED
      BY <3>1, <3>2, <3>3
  <2>9. UpgradeTypeOK'
    <3>1. writer' \in Processes \cup {NoWriter}
      BY <2>1
    <3> QED
      BY <1>0, <2>1, <2>5, <2>7, <3>1 DEF UpgradeTypeOK
  <2>10. PlanInv'
    <3>1. \A r \in Processes : opening'[r] = IF r = p THEN "committed" ELSE opening[r]
      BY <1>0, <2>1 DEF UpgradeTypeOK
    <3> QED
      BY <1>0, <2>1, <2>5, <2>8, <3>1 DEF PlanInv, PlanOK
  <2> QED
    BY <2>5, <2>8, <2>9, <2>10 DEF UpgradeInv, LegacyInv
<1>9. CASE UNCHANGED upgradeVars
  BY <1>0, <1>9 DEF upgradeVars, UpgradeInv, UpgradeTypeOK, RecordedOnce, LegacyInv, PlanInv, PlanOK
<1> QED
  BY ONLY [UpgradeNext]_upgradeVars, <1>1, <1>2, <1>3, <1>4, <1>5, <1>6, <1>7, <1>8, <1>9
  DEF UpgradeNext

\* In every behaviour of the upgrade the inductive invariant holds.
THEOREM UpgradeInvariance == UpgradeSpec => []UpgradeInv
<1> QED
  BY UpgradeInit_Inv, UpgradeStep_Inv, PTL DEF UpgradeSpec

\* A migration is recorded exactly if it was executed once, and no other was, with
\* any number of processes and releases that open the file at the same time.
THEOREM RecordedOnceHolds == UpgradeSpec => []RecordedOnce
<1>1. UpgradeInv => RecordedOnce
  BY DEF UpgradeInv
<1> QED
  BY UpgradeInvariance, <1>1, PTL

-----------------------------------------------------------------------------
(* The backup. Migrations are recorded in their order, so a plan that still     *)
(* inserts something is as old as the last commit, and so is its backup.        *)

Prefix(S) == \E n \in Versions : S = 1..n

\* What the plan and the backup of a process say of the file, in the order of its reads.
OldOK(p) ==
    /\ opening[p] \in {"applied", "backup", "begin", "writing"} /\ plan[p].fresh =>
          recorded # NoTable \/ \A v \in Versions : schema[v] = 0
    /\ opening[p] \in {"backup", "begin", "writing"} =>
          /\ recorded = NoTable => plan[p].applied \subseteq {1}
          /\ \/ plan[p].legacy \/ plan[p].applied = {}
             \/ /\ Prefix(plan[p].applied)
                /\ recorded # NoTable /\ plan[p].applied \subseteq recorded
    /\ opening[p] \in {"begin", "writing"} /\ ~plan[p].fresh =>
          IF plan[p].legacy
          THEN recorded = NoTable => copy[p] = schema
          ELSE ~(Ships(p) \subseteq plan[p].applied) /\ recorded = plan[p].applied =>
                  copy[p] = schema

OldInv == (recorded # NoTable => Prefix(recorded)) /\ \A p \in Processes : OldOK(p)

LEMMA OldReads ==
    ASSUME UpgradeInv, OldInv, NEW p \in Processes, UNCHANGED <<schema, recorded>>,
           \A r \in Processes :
              r # p => /\ opening'[r] = opening[r] /\ plan'[r] = plan[r]
                       /\ copy'[r] = copy[r] /\ release'[r] = release[r],
           OldOK(p)'
    PROVE  OldInv'
<1>1. ASSUME NEW r \in Processes, r # p PROVE OldOK(r)'
  BY <1>1 DEF OldInv, OldOK, Ships
<1> QED
  BY <1>1 DEF OldInv

LEMMA OldInit == UpgradeInit => OldInv
BY DatabaseUpgradeAssumption DEF UpgradeInit, OldInv, OldOK, Prefix

\* A commit that inserts something, other than into a fresh file, finds the file as
\* its backup has it; and what it leaves is recorded in order.
LEMMA CommitFacts ==
    ASSUME UpgradeInv, OldInv, NEW p \in Processes, opening[p] = "writing", InsertsSucceed(p)
    PROVE  /\ Prefix(Rows \cup Inserts(p))
           /\ \/ Rows = recorded /\ Inserts(p) = {}
              \/ \A v \in Versions : schema[v] = 0
              \/ copy[p] = schema
<1>0. /\ UpgradeTypeOK /\ RecordedOnce /\ LegacyInv /\ PlanInv /\ OldOK(p) /\ PlanOK(p)
      /\ recorded # NoTable => Prefix(recorded) /\ 1 \in recorded /\ Rows = recorded
      /\ recorded = NoTable => Rows = {}
  BY DEF UpgradeInv, OldInv, PlanInv, Rows
<1>1. release[p] \in Versions /\ Ships(p) = 1..release[p] /\ 1 \in Ships(p)
  <2>1. release[p] \in Versions
    BY <1>0 DEF UpgradeTypeOK
  <2> QED
    BY <2>1, DatabaseUpgradeAssumption DEF Ships, Versions
<1>2. CASE plan[p].fresh
  <2>1. Inserts(p) = Ships(p) /\ recorded = NoTable
    BY <1>0, <1>1, <1>2 DEF InsertsSucceed, Inserts, Executes, PlanOK
  <2>2. \A v \in Versions : schema[v] = 0
    BY <1>0, <1>2, <2>1 DEF OldOK
  <2> QED
    BY <1>0, <1>1, <2>1, <2>2 DEF Prefix
<1>3. CASE ~plan[p].fresh /\ plan[p].legacy
  <2>1. Inserts(p) = (Ships(p) \ plan[p].applied) \cup {1} /\ recorded = NoTable
    BY <1>0, <1>3 DEF InsertsSucceed, Inserts, Executes
  <2>2. plan[p].applied \subseteq {1} /\ copy[p] = schema
    BY <1>0, <1>3, <2>1 DEF OldOK
  <2>3. Rows \cup Inserts(p) = Ships(p)
    BY <1>0, <1>1, <2>1, <2>2
  <2> QED
    BY <1>1, <2>2, <2>3 DEF Prefix
<1>4. CASE ~plan[p].fresh /\ ~plan[p].legacy
  <2>1. /\ Inserts(p) = Ships(p) \ plan[p].applied
        /\ recorded # NoTable /\ Rows = recorded /\ 1 \in recorded
        /\ \A v \in Inserts(p) : v \notin recorded
    BY <1>0, <1>4 DEF InsertsSucceed, Inserts, Executes, PlanOK
  <2>2. CASE Inserts(p) = {}
    BY <1>0, <2>1, <2>2
  <2>3. CASE Inserts(p) # {}
    <3>1. PICK k \in Versions : plan[p].applied = 1..k /\ 1..k \subseteq recorded
      BY <1>0, <1>1, <1>4, <2>1 DEF OldOK, Prefix
    <3>2. PICK n \in Versions : recorded = 1..n
      BY <1>0, <2>1 DEF Prefix
    <3>3. k \in Nat /\ n \in Nat /\ release[p] \in Nat /\ k >= 1 /\ n >= 1
      BY <1>1, DatabaseUpgradeAssumption DEF Versions
    <3>4. k < release[p] /\ k + 1 \in Inserts(p)
      BY <1>1, <2>1, <2>3, <3>1, <3>3
    <3>5. n = k
      <4>1. k \in 1..n /\ k + 1 \notin 1..n
        BY <2>1, <3>1, <3>2, <3>3, <3>4
      <4> QED
        BY <3>3, <4>1
    <3>6. copy[p] = schema
      BY <1>0, <1>4, <2>1, <2>3, <3>1, <3>2, <3>5 DEF OldOK
    <3>7. Rows \cup Inserts(p) = Ships(p)
      BY <1>1, <2>1, <3>1, <3>2, <3>3, <3>4, <3>5
    <3> QED
      BY <1>1, <3>6, <3>7 DEF Prefix
  <2> QED
    BY <2>2, <2>3
<1> QED
  BY <1>2, <1>3, <1>4

LEMMA OldStep == UpgradeInv /\ UpgradeInv' /\ OldInv /\ [UpgradeNext]_upgradeVars => OldInv'
<1> SUFFICES ASSUME UpgradeInv, UpgradeInv', OldInv, [UpgradeNext]_upgradeVars PROVE OldInv'
  OBVIOUS
<1>0. UpgradeTypeOK /\ UpgradeTypeOK' /\ RecordedOnce /\ RecordedOnce' /\ PlanInv /\ LegacyInv
  BY DEF UpgradeInv
<1>a. /\ opening \in [Processes -> {"closed", "tables", "applied", "backup", "begin",
                                   "writing", "committed", "open"}]
      /\ release \in [Processes -> Versions] /\ plan \in [Processes -> Plans]
      /\ copy \in [Processes -> [Versions -> Nat] \cup {NoCopy}]
  BY <1>0 DEF UpgradeTypeOK, Plans
<1>b. ASSUME NEW p \in Processes
      PROVE  OldOK(p) /\ PlanOK(p) /\ plan[p].fresh \in BOOLEAN /\ plan[p].legacy \in BOOLEAN
  BY <1>0, <1>a DEF OldInv, PlanInv, Plans
<1>1. ASSUME NEW p \in Processes, Stops(p) PROVE OldInv'
  <2>1. /\ opening' = [opening EXCEPT ![p] = "closed"] /\ plan' = [plan EXCEPT ![p] = NoPlan]
        /\ UNCHANGED <<schema, recorded, release>> /\ copy' = [copy EXCEPT ![p] = NoCopy]
    BY <1>1 DEF Stops
  <2>2. OldOK(p)'
    BY <1>a, <2>1 DEF OldOK
  <2> QED
    BY <1>a, <2>1, <2>2, OldReads
<1>2. ASSUME NEW p \in Processes, NEW r \in Versions, StartsUp(p, r) PROVE OldInv'
  <2>1. /\ opening' = [opening EXCEPT ![p] = "tables"]
        /\ release' = [release EXCEPT ![p] = r] /\ UNCHANGED <<schema, recorded, plan, copy>>
    BY <1>2 DEF StartsUp, Moves
  <2>2. OldOK(p)'
    BY <1>a, <2>1 DEF OldOK
  <2> QED
    BY <1>a, <2>1, <2>2, OldReads
<1>3. ASSUME NEW p \in Processes, ReadTables(p) PROVE OldInv'
  <2> DEFINE fresh == (\A v \in Versions : schema[v] = 0) /\ recorded = NoTable
             q == [plan[p] EXCEPT !.fresh = fresh]
  <2>1. /\ opening' = [opening EXCEPT ![p] = "applied"] /\ plan' = [plan EXCEPT ![p] = q]
        /\ UNCHANGED <<schema, recorded, release, copy>>
    BY <1>3 DEF ReadTables, Moves
  <2>2. q.fresh => \A v \in Versions : schema[v] = 0
    BY <1>a DEF Plans
  <2> HIDE DEF q
  <2>3. OldOK(p)'
    BY <1>a, <2>1, <2>2 DEF OldOK
  <2> QED
    BY <1>a, <2>1, <2>3, OldReads
<1>4. ASSUME NEW p \in Processes, ReadApplied(p), ~Stops(p) PROVE OldInv'
  <2> DEFINE q == [plan[p] EXCEPT !.applied = Rows]
  <2>1. /\ opening' = [opening EXCEPT ![p] = "backup"] /\ opening[p] = "applied"
        /\ plan' = [plan EXCEPT ![p] = q] /\ UNCHANGED <<schema, recorded, release, copy>>
    BY <1>4 DEF ReadApplied, Moves
  <2>2. q.fresh = plan[p].fresh /\ q.applied = Rows
    BY <1>a DEF Plans
  <2> HIDE DEF q
  <2>3. Rows = {} \/ (Prefix(Rows) /\ recorded # NoTable /\ Rows \subseteq recorded)
    BY DEF Rows, OldInv
  <2>4. recorded = NoTable => Rows = {}
    BY DEF Rows
  <2>5. plan'[p] = q /\ opening'[p] = "backup"
    BY <1>a, <2>1
  <2>6. OldOK(p)'
    BY <1>b, <2>1, <2>2, <2>3, <2>4, <2>5 DEF OldOK
  <2> QED
    BY <1>a, <2>1, <2>6, OldReads
<1>5. ASSUME NEW p \in Processes, BackUp(p) PROVE OldInv'
  <2> DEFINE legacy == ~plan[p].fresh /\ recorded = NoTable
             applied == plan[p].applied \cup (IF legacy THEN {1} ELSE {})
             pending == ~plan[p].fresh /\ ~(Ships(p) \subseteq applied)
             q == [plan[p] EXCEPT !.applied = applied, !.legacy = legacy]
  <2>1. /\ opening' = [opening EXCEPT ![p] = "begin"] /\ opening[p] = "backup"
        /\ plan' = [plan EXCEPT ![p] = q]
        /\ copy' = [copy EXCEPT ![p] = IF legacy \/ pending THEN schema ELSE NoCopy]
        /\ UNCHANGED <<schema, recorded, release>>
    BY <1>5 DEF BackUp, Moves
  <2>2. /\ q.fresh = plan[p].fresh /\ q.applied = applied /\ q.legacy = legacy
        /\ ~plan[p].legacy
    BY <1>a, <1>b, <2>1 DEF Plans, PlanOK
  <2> HIDE DEF q
  <2>3. /\ plan'[p] = q /\ opening'[p] = "begin" /\ Ships(p)' = Ships(p)
        /\ copy'[p] = IF legacy \/ pending THEN schema ELSE NoCopy
    BY <1>a, <2>1 DEF Ships
  <2>4. legacy => applied \subseteq plan[p].applied \cup {1}
    OBVIOUS
  <2>5. ~legacy => applied = plan[p].applied
    OBVIOUS
  <2>6. OldOK(p)'
    BY <1>b, <2>1, <2>2, <2>3, <2>4, <2>5 DEF OldOK
  <2> QED
    BY <1>a, <2>1, <2>6, OldReads
<1>6. ASSUME NEW p \in Processes, Begin(p), ~Stops(p) PROVE OldInv'
  <2>1. /\ opening' = [opening EXCEPT ![p] = "writing"] /\ opening[p] = "begin"
        /\ UNCHANGED <<schema, recorded, release, plan, copy>>
    BY <1>6 DEF Begin, Moves
  <2>2. OldOK(p)'
    BY <1>a, <1>b, <2>1 DEF OldOK, Ships
  <2> QED
    BY <1>a, <2>1, <2>2, OldReads
<1>7. ASSUME NEW p \in Processes, Opens(p), ~Stops(p) PROVE OldInv'
  <2>1. /\ opening' = [opening EXCEPT ![p] = "open"]
        /\ UNCHANGED <<schema, recorded, release, plan, copy>>
    BY <1>7 DEF Opens, Moves
  <2>2. OldOK(p)'
    BY <1>a, <2>1 DEF OldOK
  <2> QED
    BY <1>a, <2>1, <2>2, OldReads
<1>8. ASSUME NEW p \in Processes, Commit(p), ~Stops(p) PROVE OldInv'
  <2>1. /\ opening[p] = "writing" /\ InsertsSucceed(p)
        /\ recorded' = Rows \cup Inserts(p)
        /\ opening' = [opening EXCEPT ![p] = "committed"]
        /\ UNCHANGED <<release, plan, copy>>
    BY <1>8 DEF Commit, Moves
  <2>2. /\ Prefix(recorded') /\ recorded' # NoTable
        /\ recorded # NoTable => recorded \subseteq recorded'
    <3>1. Prefix(recorded')
      BY <2>1, CommitFacts
    <3>2. \A S : Prefix(S) => S # NoTable
      BY DatabaseUpgradeAssumption DEF Prefix, NoTable, Versions
    <3> QED
      BY <2>1, <3>1, <3>2 DEF Rows
  <2>3. recorded # NoTable /\ recorded' = recorded => schema' = schema
    BY <1>0, <2>2 DEF RecordedOnce, UpgradeTypeOK
  <2>4. ASSUME NEW r \in Processes PROVE OldOK(r)'
    <3>1. CASE r = p
      BY <1>a, <2>1, <3>1 DEF OldOK
    <3>2. CASE r # p
      <4>1. opening'[r] = opening[r] /\ Ships(r)' = Ships(r)
        BY <1>a, <2>1, <3>2 DEF Ships
      <4>2. /\ opening[r] \in {"backup", "begin", "writing"} =>
                  \/ plan[r].legacy \/ plan[r].applied = {}
                  \/ (Prefix(plan[r].applied) /\ plan[r].applied \subseteq recorded')
        BY <1>b, <2>2 DEF OldOK
      <4>3. ASSUME opening[r] \in {"begin", "writing"}, ~plan[r].fresh, ~plan[r].legacy,
                   ~(Ships(r) \subseteq plan[r].applied), recorded' = plan[r].applied
            PROVE  copy[r] = schema'
        <5>1. plan[r].applied # {}
          <6>1. PICK n \in Versions : recorded' = 1..n
            BY <2>2 DEF Prefix
          <6>2. 1 \in 1..n
            BY DatabaseUpgradeAssumption DEF Versions
          <6> QED
            BY <4>3, <6>1, <6>2
        <5>2. recorded # NoTable /\ plan[r].applied \subseteq recorded
          BY <1>b, <4>3, <5>1 DEF OldOK
        <5>3. recorded' = recorded
          BY <2>2, <4>3, <5>2
        <5> QED
          BY <1>b, <2>3, <4>3, <5>2, <5>3 DEF OldOK
      <4> QED
        BY <1>b, <2>1, <2>2, <4>1, <4>2, <4>3 DEF OldOK
    <3> QED
      BY <3>1, <3>2
  <2> QED
    BY <2>2, <2>4 DEF OldInv
<1>9. CASE UNCHANGED upgradeVars
  BY <1>9 DEF upgradeVars, OldInv, OldOK, Ships
<1> QED
  BY ONLY [UpgradeNext]_upgradeVars, <1>1, <1>2, <1>3, <1>4, <1>5, <1>6, <1>7, <1>8, <1>9
  DEF UpgradeNext

\* Whoever changes a database that was in use holds a backup of exactly the schema it
\* changes, although its plan and its backup are older than its lock.
THEOREM BackupIsOfTheOldHolds == UpgradeSpec => BackupIsOfTheOld
<1> DEFINE P(p) ==
      opening[p] = "writing" /\ opening'[p] = "committed" =>
          \/ recorded' = recorded
          \/ \A v \in Versions : schema[v] = 0
          \/ copy[p] = schema
<1>1. UpgradeInit => OldInv
  BY OldInit
<1>2. UpgradeInv /\ UpgradeInv' /\ OldInv /\ [UpgradeNext]_upgradeVars => OldInv'
  BY OldStep
<1>3. UpgradeInv /\ OldInv /\ [UpgradeNext]_upgradeVars => [\A p \in Processes : P(p)]_upgradeVars
  <2> SUFFICES ASSUME UpgradeInv, OldInv, UpgradeNext, NEW p \in Processes,
                      opening[p] = "writing", opening'[p] = "committed"
               PROVE  P(p)
    OBVIOUS
  <2>0. opening \in [Processes -> {"closed", "tables", "applied", "backup", "begin",
                                 "writing", "committed", "open"}]
    BY DEF UpgradeInv, UpgradeTypeOK
  <2>1. InsertsSucceed(p) /\ recorded' = Rows \cup Inserts(p)
    <3>1. ASSUME NEW r \in Processes, NEW v \in Versions,
                 \/ StartsUp(r, v) \/ ReadTables(r) \/ ReadApplied(r) \/ BackUp(r)
                 \/ Begin(r) \/ Opens(r) \/ Stops(r)
          PROVE  FALSE
      BY <2>0, <3>1 DEF StartsUp, ReadTables, ReadApplied, BackUp, Begin, Opens, Stops, Moves
    <3>2. ASSUME NEW r \in Processes, Commit(r)
          PROVE  InsertsSucceed(p) /\ recorded' = Rows \cup Inserts(p)
      BY <2>0, <3>2 DEF Commit, Stops, Moves
    <3>3. 1 \in Versions
      BY VersionFacts
    <3> QED
      BY <3>1, <3>2, <3>3 DEF UpgradeNext
  <2> QED
    BY <2>1, CommitFacts
<1> QED
  BY UpgradeInvariance, <1>1, <1>2, <1>3, PTL DEF UpgradeSpec, BackupIsOfTheOld, P

-----------------------------------------------------------------------------
(* The serial upgrade.  A commit leaves the file at a release, of which the    *)
(* process then checks that it is its own.                                     *)

opened == [p \in Processes |-> IF opening[p] = "open" THEN release[p] ELSE 0]

fileAndOpened == <<schema, recorded, opened>>

\* Who has committed finds every migration it ships recorded, until it opens.
CommittedInv ==
    \A p \in Processes : opening[p] = "committed" => recorded # NoTable /\ Ships(p) \subseteq recorded

LEMMA CommitRecords ==
    ASSUME UpgradeInv, OldInv, NEW p \in Processes, opening[p] = "writing", InsertsSucceed(p)
    PROVE  Ships(p) \subseteq Rows \cup Inserts(p)
<1>0. /\ OldOK(p) /\ PlanOK(p)
      /\ recorded # NoTable => 1 \in recorded /\ Rows = recorded
      /\ recorded = NoTable => Rows = {}
  BY DEF UpgradeInv, OldInv, PlanInv, Rows
<1>1. CASE plan[p].fresh
  BY <1>1 DEF Inserts, Executes
<1>2. CASE ~plan[p].fresh /\ plan[p].legacy
  <2>1. Inserts(p) = (Ships(p) \ plan[p].applied) \cup {1} /\ recorded = NoTable
    BY <1>0, <1>2 DEF InsertsSucceed, Inserts, Executes
  <2>2. plan[p].applied \subseteq {1}
    BY <1>0, <1>2, <2>1 DEF OldOK
  <2> QED
    BY <2>1, <2>2
<1>3. CASE ~plan[p].fresh /\ ~plan[p].legacy
  <2>1. Inserts(p) = Ships(p) \ plan[p].applied
    BY <1>3 DEF Inserts, Executes
  <2>2. plan[p].applied \subseteq Rows
    BY <1>0, <1>3 DEF OldOK
  <2> QED
    BY <2>1, <2>2
<1> QED
  BY <1>1, <1>2, <1>3

LEMMA CommittedStep ==
    UpgradeInv /\ UpgradeInv' /\ OldInv /\ CommittedInv /\ [UpgradeNext]_upgradeVars
        => CommittedInv'
<1> SUFFICES ASSUME UpgradeInv, UpgradeInv', OldInv, CommittedInv, [UpgradeNext]_upgradeVars
             PROVE  CommittedInv'
  OBVIOUS
<1>0. /\ opening \in [Processes -> {"closed", "tables", "applied", "backup", "begin",
                                   "writing", "committed", "open"}]
      /\ release \in [Processes -> Versions] /\ UpgradeTypeOK'
  BY DEF UpgradeInv, UpgradeTypeOK
\* A step of a process that leaves the file alone and does not commit.
<1>1. ASSUME NEW p \in Processes, UNCHANGED recorded, opening'[p] # "committed",
             \A r \in Processes \ {p} : opening'[r] = opening[r] /\ release'[r] = release[r]
      PROVE  CommittedInv'
  BY <1>1 DEF CommittedInv, Ships
<1>2. ASSUME NEW p \in Processes, NEW r \in Versions,
             \/ StartsUp(p, r) \/ ReadTables(p) \/ ReadApplied(p) \/ BackUp(p)
             \/ Begin(p) \/ Opens(p) \/ Stops(p)
      PROVE  CommittedInv'
  <2>1. UNCHANGED recorded /\ opening'[p] # "committed"
    BY <1>0, <1>2 DEF StartsUp, ReadTables, ReadApplied, BackUp, Begin, Opens, Stops, Moves
  <2>2. \A q \in Processes \ {p} : opening'[q] = opening[q] /\ release'[q] = release[q]
    BY <1>0, <1>2 DEF StartsUp, ReadTables, ReadApplied, BackUp, Begin, Opens, Stops, Moves
  <2> QED
    BY <1>1, <2>1, <2>2
<1>3. ASSUME NEW p \in Processes, Commit(p), ~Stops(p) PROVE CommittedInv'
  <2>1. /\ opening[p] = "writing" /\ InsertsSucceed(p)
        /\ recorded' = Rows \cup Inserts(p)
        /\ opening' = [opening EXCEPT ![p] = "committed"] /\ UNCHANGED release
    BY <1>3 DEF Commit, Moves
  <2>2. Ships(p) \subseteq recorded' /\ 1 \in Ships(p)
    BY <1>0, <2>1, CommitRecords, DatabaseUpgradeAssumption DEF Ships, Versions
  <2>3. recorded' # NoTable
    BY <2>2 DEF NoTable
  <2>4. recorded # NoTable => recorded \subseteq recorded'
    BY <2>1 DEF Rows
  <2>5. ASSUME NEW r \in Processes, opening'[r] = "committed" PROVE Ships(r)' \subseteq recorded'
    <3>1. Ships(r)' = Ships(r)
      BY <2>1 DEF Ships
    <3>2. r = p \/ opening[r] = "committed"
      BY <1>0, <2>1, <2>5
    <3> QED
      BY <2>2, <2>4, <3>1, <3>2 DEF CommittedInv
  <2> QED
    BY <2>3, <2>5 DEF CommittedInv
<1>4. CASE UNCHANGED upgradeVars
  BY <1>4 DEF upgradeVars, CommittedInv, Ships
<1> QED
  BY ONLY [UpgradeNext]_upgradeVars, <1>2, <1>3, <1>4, VersionFacts DEF UpgradeNext

\* A file recorded in order up to n is of release n.
AtItsRelease == \A n \in Versions : recorded = 1..n => Upgraded!At(n)

LEMMA FileIsAt == UpgradeInv => AtItsRelease
<1> SUFFICES ASSUME UpgradeInv, NEW n \in Versions, recorded = 1..n
             PROVE  Upgraded!At(n)
  BY DEF AtItsRelease
<1>1. recorded # NoTable
  <2>1. 1 \in 1..n
    BY DatabaseUpgradeAssumption DEF Versions
  <2> QED
    BY <2>1 DEF NoTable
<1>2. \A v \in Versions : schema[v] = IF v <= n THEN 1 ELSE 0
  BY <1>1, DatabaseUpgradeAssumption DEF UpgradeInv, RecordedOnce, Versions
<1>3. schema = [v \in Versions |-> IF v <= n THEN 1 ELSE 0]
  BY <1>2 DEF UpgradeInv, UpgradeTypeOK
<1> QED
  BY <1>3 DEF Upgraded!At, Upgraded!Releases, Versions

\* Every step of opening a database is a step of the serial upgrade or none.
LEMMA SerialStep ==
    ASSUME UpgradeInv, AtItsRelease, AtItsRelease', OldInv, CommittedInv,
           [UpgradeNext]_upgradeVars
    PROVE  [Upgraded!Next]_fileAndOpened
<1>0. /\ opening \in [Processes -> {"closed", "tables", "applied", "backup", "begin",
                                   "writing", "committed", "open"}]
      /\ release \in [Processes -> Versions]
  BY DEF UpgradeInv, UpgradeTypeOK
<1>1. ASSUME NEW p \in Processes, Stops(p) PROVE Upgraded!Next
  <2>1. /\ opening' = [opening EXCEPT ![p] = "closed"]
        /\ UNCHANGED <<schema, recorded, release>>
    BY <1>1 DEF Stops
  <2>2. opened' = [opened EXCEPT ![p] = 0]
    BY <1>0, <2>1 DEF opened
  <2>3. Upgraded!Close(p)
    BY <2>1, <2>2 DEF Upgraded!Close, opened
  <2> QED
    BY <2>3 DEF Upgraded!Next
<1>2. ASSUME NEW p \in Processes, NEW r \in Versions, ~Stops(p),
             \/ StartsUp(p, r) \/ ReadTables(p) \/ ReadApplied(p) \/ BackUp(p) \/ Begin(p)
      PROVE  UNCHANGED fileAndOpened
  <2>1. /\ UNCHANGED <<schema, recorded>>
        /\ opening[p] # "open" /\ opening'[p] # "open"
        /\ \A q \in Processes \ {p} : opening'[q] = opening[q] /\ release'[q] = release[q]
    BY <1>0, <1>2 DEF StartsUp, ReadTables, ReadApplied, BackUp, Begin, Moves
  <2>2. opened' = opened
    BY <2>1 DEF opened
  <2> QED
    BY <2>1, <2>2 DEF fileAndOpened
<1>3. ASSUME NEW p \in Processes, Commit(p), ~Stops(p) PROVE Upgraded!Next
  <2>1. /\ opening[p] = "writing" /\ InsertsSucceed(p)
        /\ recorded' = Rows \cup Inserts(p)
        /\ opening' = [opening EXCEPT ![p] = "committed"] /\ UNCHANGED release
    BY <1>3 DEF Commit, Moves
  <2>2. PICK n \in Versions : recorded' = 1..n
    BY <2>1, CommitFacts DEF Prefix
  <2>3. Upgraded!At(n)'
    BY <2>2 DEF AtItsRelease
  <2>4. recorded = NoTable \/ recorded \subseteq 1..n
    BY <2>1, <2>2 DEF Rows
  <2>5. opened' = opened
    BY <1>0, <2>1 DEF opened
  <2>6. Upgraded!Upgrade(n)
    BY <2>3, <2>4, <2>5 DEF Upgraded!Upgrade, Upgraded!NoTable, NoTable, opened
  <2> QED
    BY <2>6 DEF Upgraded!Next, Upgraded!Releases, Versions
<1>4. ASSUME NEW p \in Processes, Opens(p), ~Stops(p) PROVE Upgraded!Next
  <2>1. /\ opening[p] = "committed" /\ Rows \subseteq Ships(p)
        /\ opening' = [opening EXCEPT ![p] = "open"]
        /\ UNCHANGED <<schema, recorded, release>>
    BY <1>4 DEF Opens, Moves
  <2>2. recorded = Ships(p) /\ Ships(p) = 1..release[p] /\ release[p] \in Versions
    BY <1>0, <2>1 DEF CommittedInv, Rows, Ships
  <2>3. PICK n \in Versions : n = release[p]
    BY <2>2
  <2>4. Upgraded!At(n)
    BY <2>2, <2>3 DEF AtItsRelease
  <2>5. opened[p] = 0 /\ opened' = [opened EXCEPT ![p] = n]
    BY <1>0, <2>1, <2>3 DEF opened
  <2>6. Upgraded!Open(p, n)
    BY <2>1, <2>4, <2>5 DEF Upgraded!Open, opened
  <2> QED
    BY <2>6 DEF Upgraded!Next, Upgraded!Releases, Versions
<1>5. CASE UNCHANGED upgradeVars
  BY <1>5 DEF upgradeVars, fileAndOpened, opened
<1> QED
  BY ONLY [UpgradeNext]_upgradeVars, <1>1, <1>2, <1>3, <1>4, <1>5, VersionFacts DEF UpgradeNext

\* Opening the database implements the serial upgrade (ImplementsSerialUpgrade), for
\* any number of processes and migrations: no plan older than its lock shows.
THEOREM ImplementsSerialUpgradeHolds == UpgradeSpec => ImplementsSerialUpgrade
<1>1. UpgradeInit => Upgraded!Init /\ CommittedInv
  <2> SUFFICES ASSUME UpgradeInit PROVE Upgraded!Init /\ CommittedInv
    OBVIOUS
  <2>1. opened = [p \in Processes |-> 0]
    BY DEF UpgradeInit, opened
  <2>2. CommittedInv
    BY DEF UpgradeInit, CommittedInv
  <2>3. Upgraded!Unversioned \/ \E n \in Upgraded!Releases : Upgraded!At(n)
    BY DEF UpgradeInit, Upgraded!Unversioned, Upgraded!NoTable, NoTable, Upgraded!At,
           Upgraded!Releases, Versions
  <2> QED
    BY <2>1, <2>2, <2>3 DEF Upgraded!Init, opened
<1>2. UpgradeInv /\ UpgradeInv' /\ OldInv /\ [UpgradeNext]_upgradeVars => OldInv'
  BY OldStep
<1>3. UpgradeInv /\ AtItsRelease /\ AtItsRelease' /\ OldInv /\ CommittedInv
      /\ [UpgradeNext]_upgradeVars => [Upgraded!Next]_fileAndOpened
  BY SerialStep
<1> QED
  BY <1>1, <1>2, <1>3, OldInit, FileIsAt, CommittedStep, UpgradeInvariance, PTL
  DEF UpgradeSpec, ImplementsSerialUpgrade, Upgraded!Spec, fileAndOpened, opened

\* Whatever implements SerialUpgrade executes each recorded migration once and no other
\* (RecordedOnce): the abstract specification is strong enough to say so.
THEOREM SerialUpgradeSuffices == ImplementsSerialUpgrade => []RecordedOnce
<1> DEFINE Whole == recorded = NoTable \/ \E n \in Versions : Upgraded!At(n)
<1>1. Upgraded!Init => Whole
  BY DEF Upgraded!Init, Upgraded!Unversioned, Upgraded!NoTable, NoTable, Upgraded!Releases, Versions
<1>2. Whole /\ [Upgraded!Next]_fileAndOpened => Whole'
  <2>1. ASSUME Whole, UNCHANGED <<schema, recorded>> PROVE Whole'
    BY <2>1 DEF Upgraded!At
  <2>2. ASSUME NEW n \in Versions, Upgraded!Upgrade(n) PROVE Whole'
    BY <2>2 DEF Upgraded!Upgrade
  <2> QED
    BY <2>1, <2>2 DEF Upgraded!Next, Upgraded!Open, Upgraded!Close, Upgraded!Releases, Versions,
                      fileAndOpened
<1>3. Whole => RecordedOnce
  BY DatabaseUpgradeAssumption DEF RecordedOnce, Upgraded!At, Upgraded!Releases, Versions
<1> QED
  BY <1>1, <1>2, <1>3, PTL DEF ImplementsSerialUpgrade, Upgraded!Spec, fileAndOpened, opened

-----------------------------------------------------------------------------
(* Connector. What the log says of a prompt stays true because at most one     *)
(* command is at work on it, and that command finds the log empty.             *)

Works(k) == command[k].does \in {"probe", "prepare", "dispatch"}

\* No coordinator has the prompt, and it is on its way to none.
Untouched(p) == ran[p] = {} /\ \A t \in Teams : <<p, t>> \notin handed

\* The team of a prompt under way is known; nothing is logged of it, and nothing has
\* left before it is handed over.
WorkOK(k) ==
    Works(k) =>
        LET p == command[k].prompt
        IN  /\ p \in Prompts
            /\ named[p] \in Teams /\ named[p] # Unasked
            /\ dispatchLog[p] = "none"
            /\ command[k].does # "dispatch" => Untouched(p)

AloneAtWork ==
    \A j, k \in Commands :
        Works(j) /\ Works(k) /\ command[j].prompt = command[k].prompt => j = k

\* Of a prompt not yet entered there is no trace.
NewIsNew == \A p \in Prompts : named[p] = Unasked => dispatchLog[p] = "none" /\ Untouched(p)

ConnectorInv ==
    ConnectorTypeOK /\ (\A k \in Commands : WorkOK(k)) /\ AloneAtWork /\ NewIsNew /\ LogTellsTruth

\* Order lists the teams.
LEMMA OrderFacts ==
    /\ DOMAIN Order = 1..Len(Order) /\ Len(Order) \in Nat \ {0}
    /\ \A i \in DOMAIN Order : Order[i] \in Teams
    /\ \A t \in Teams : ServerOf[t] \in Servers
<1>1. Order \in Seq(Teams) /\ Len(Order) > 0
  BY ConnectorAssumption
<1> QED
  BY <1>1 DEF Servers

\* A probe tells whether a team is up.
LEMMA ProbeIsBoolean == \A t, found : ProbeCoordinator(t, found) \in BOOLEAN
<1> SUFFICES ASSUME NEW t, NEW found PROVE ProbeCoordinator(t, found) \in BOOLEAN
  OBVIOUS
<1>1. ProbeWorkPanel(found) \in BOOLEAN
  BY DEF ProbeWorkPanel
<1>2. CASE WorkPanelTeam(t)
  BY <1>1, <1>2 DEF ProbeCoordinator
<1>3. CASE ~WorkPanelTeam(t)
  BY <1>3 DEF ProbeCoordinator
<1> QED
  BY <1>2, <1>3

\* A step that writes a flag moves the command that takes it, and marks others at most.
LEMMA StandsFacts ==
    ASSUME ConnectorTypeOK, NEW k \in Commands, NEW s, NEW c, Stands(k, c, s),
           c \in [does : Doing, next : DOMAIN Order, any : BOOLEAN, crossed : BOOLEAN,
                  prompt : Prompts \cup {Unasked}]
    PROVE  /\ command' \in [Commands -> [does : Doing, next : DOMAIN Order, any : BOOLEAN,
                                         crossed : BOOLEAN, prompt : Prompts \cup {Unasked}]]
           /\ command'[k] = c
           /\ \A j \in Commands : j # k =>
                 command'[j].does = command[j].does /\ command'[j].prompt = command[j].prompt
<1> DEFINE R == [does : Doing, next : DOMAIN Order, any : BOOLEAN, crossed : BOOLEAN,
                 prompt : Prompts \cup {Unasked}]
<1>1. ASSUME NEW r \in R
      PROVE  /\ [r EXCEPT !.crossed = TRUE] \in R
             /\ [r EXCEPT !.crossed = TRUE].does = r.does
             /\ [r EXCEPT !.crossed = TRUE].prompt = r.prompt
  OBVIOUS
<1>2. \A j \in Commands : command[j] \in R
  BY DEF ConnectorTypeOK
<1>3. \A j \in Commands :
         command'[j] = IF j = k THEN c
                       ELSE IF Inside(j, s) THEN [command[j] EXCEPT !.crossed = TRUE]
                       ELSE command[j]
  BY DEF Stands
<1>4. command' = [j \in Commands |-> command'[j]]
  BY DEF Stands
<1> HIDE DEF R
<1>5. \A j \in Commands : command'[j] \in R
  BY <1>1, <1>2, <1>3 DEF R
<1>6. command' \in [Commands -> R]
  BY <1>4, <1>5
<1>7. \A j \in Commands : j # k =>
         command'[j].does = command[j].does /\ command'[j].prompt = command[j].prompt
  BY <1>1, <1>2, <1>3
<1> QED
  BY <1>3, <1>6, <1>7 DEF R

\* The part of the invariant that is about prompts holds as long as no prompt is touched
\* and no command takes up work on one.
LEMMA PromptsUntouched ==
    ASSUME ConnectorInv, UNCHANGED promptVars,
           \A k \in Commands :
              \/ command'[k].does \notin {"probe", "prepare", "dispatch"}
              \/ /\ command'[k].does = command[k].does
                 /\ command'[k].prompt = command[k].prompt
              \/ /\ command[k].does = "probe" /\ command'[k].does = "prepare"
                 /\ command'[k].prompt = command[k].prompt
    PROVE  ((\A k \in Commands : WorkOK(k)) /\ AloneAtWork /\ NewIsNew /\ LogTellsTruth)'
<1>1. \A k \in Commands : WorkOK(k)'
  BY DEF ConnectorInv, WorkOK, Works, Untouched, promptVars
<1>2. AloneAtWork'
  BY DEF ConnectorInv, AloneAtWork, Works
<1>3. NewIsNew'
  BY DEF ConnectorInv, NewIsNew, Untouched, promptVars
<1>4. LogTellsTruth'
  BY DEF ConnectorInv, LogTellsTruth, promptVars
<1> QED
  BY <1>1, <1>2, <1>3, <1>4

LEMMA ConnectorInit_Inv == ConnectorInit => ConnectorInv
<1> SUFFICES ASSUME ConnectorInit PROVE ConnectorInv
  OBVIOUS
<1>1. 1 \in DOMAIN Order
  BY OrderFacts
<1>2. PICK k \in Commands :
        command = [j \in Commands |-> IF j = k THEN [Ready EXCEPT !.does = "refresh"] ELSE Ready]
  BY DEF ConnectorInit
<1>3. \A j \in Commands : command[j].does \notin {"probe", "prepare", "dispatch"}
  BY <1>2 DEF Ready
<1>4. command \in [Commands -> [does : Doing, next : DOMAIN Order, any : BOOLEAN,
                                crossed : BOOLEAN, prompt : Prompts \cup {Unasked}]]
  BY <1>1, <1>2 DEF Ready, Doing
<1>5. ConnectorTypeOK
  BY <1>4 DEF ConnectorTypeOK, ConnectorInit, Servers, Status
<1> QED
  BY <1>3, <1>5 DEF ConnectorInv, WorkOK, Works, AloneAtWork, NewIsNew, LogTellsTruth, Untouched,
                    ConnectorInit

LEMMA ConnectorStep_Inv == ConnectorInv /\ [ConnectorNext]_connectorVars => ConnectorInv'
<1> SUFFICES ASSUME ConnectorInv, [ConnectorNext]_connectorVars PROVE ConnectorInv'
  OBVIOUS
<1> DEFINE R == [does : Doing, next : DOMAIN Order, any : BOOLEAN, crossed : BOOLEAN,
                 prompt : Prompts \cup {Unasked}]
<1>0. /\ ConnectorTypeOK /\ (\A k \in Commands : WorkOK(k)) /\ AloneAtWork /\ NewIsNew
      /\ LogTellsTruth
      /\ command \in [Commands -> R]
      /\ 1 \in DOMAIN Order
      /\ Ready \in R /\ [Ready EXCEPT !.does = "refresh"] \in R
  <2>1. 1 \in DOMAIN Order
    BY OrderFacts
  <2>2. Ready \in R /\ [Ready EXCEPT !.does = "refresh"] \in R
    BY <2>1 DEF Ready, Doing
  <2>3. command \in [Commands -> R]
    BY DEF ConnectorInv, ConnectorTypeOK
  <2> HIDE DEF R
  <2> QED
    BY <2>1, <2>2, <2>3 DEF ConnectorInv
<1>1. CASE CancelPrompt
  <2>1. ConnectorTypeOK'
    BY <1>0, <1>1 DEF CancelPrompt, ConnectorTypeOK, shownVars, promptVars
  <2> QED
    BY <1>1, <2>1, PromptsUntouched DEF ConnectorInv, CancelPrompt
<1>2. ASSUME NEW t \in Teams \cup {Unknown}, NameTeam(t) PROVE ConnectorInv'
  <2>1. ConnectorTypeOK'
    BY <1>0, <1>2 DEF NameTeam, ConnectorTypeOK, shownVars, promptVars
  <2> QED
    BY <1>2, <2>1, PromptsUntouched DEF ConnectorInv, NameTeam
<1>3. ASSUME NEW k \in Commands, Refresh(k) PROVE ConnectorInv'
  <2> DEFINE c == [command[k] EXCEPT !.does = "refresh"]
  <2>1. command' = [command EXCEPT ![k] = c] /\ c \in R /\ c.does = "refresh"
    BY <1>0, <1>3 DEF Refresh, Doing
  <2> HIDE DEF c
  <2>2. ConnectorTypeOK'
    BY <1>0, <1>3, <2>1 DEF Refresh, ConnectorTypeOK, shownVars, promptVars
  <2>3. \A j \in Commands : command'[j] = IF j = k THEN c ELSE command[j]
    BY <1>0, <2>1
  <2> QED
    BY <1>3, <2>1, <2>2, <2>3, PromptsUntouched DEF ConnectorInv, Refresh
<1>4. ASSUME NEW k \in Commands, QuitAndStart(k) PROVE ConnectorInv'
  <2>1. \A j \in Commands : command'[j] \in R /\ command'[j].does \in {"nothing", "refresh"}
    BY <1>0, <1>4 DEF QuitAndStart, FirstRefresh, Ready
  <2>2. command' \in [Commands -> R]
    BY <2>1, <1>4 DEF QuitAndStart, FirstRefresh
  <2>3. ConnectorTypeOK'
    BY <1>0, <1>4, <2>2 DEF QuitAndStart, ConnectorTypeOK, promptVars
  <2> QED
    BY <1>4, <2>1, <2>3, PromptsUntouched DEF ConnectorInv, QuitAndStart
<1>5. ASSUME NEW k \in Commands, NEW p \in Prompts, EnterPrompt(k, p) PROVE ConnectorInv'
  <2> DEFINE c == [command[k] EXCEPT !.does = "probe", !.prompt = p]
  <2>1. c \in R /\ c.does = "probe" /\ c.prompt = p
    BY <1>0 DEF Doing
  <2>2. command' = IF pendingChat = Unknown THEN command ELSE [command EXCEPT ![k] = c]
    BY <1>0, <1>5 DEF EnterPrompt, Doing
  <2> HIDE DEF c
  <2>3. /\ named[p] = Unasked /\ pendingChat # Unasked /\ ~Works(k)
        /\ named' = [named EXCEPT ![p] = pendingChat]
        /\ UNCHANGED <<dispatchLog, handed, ran>>
        /\ \A q \in Prompts : named'[q] = IF q = p THEN pendingChat ELSE named[q]
        /\ pendingChat \in Teams \cup {Unknown}
    BY <1>0, <1>5 DEF EnterPrompt, ConnectorTypeOK, Works, Ready
  <2>4. dispatchLog[p] = "none" /\ Untouched(p)
    BY <1>0, <2>3 DEF NewIsNew
  <2>5. \A j \in Commands : Works(j) => command[j].prompt # p /\ j # k
    BY <1>0, <2>3 DEF WorkOK
  <2>6. ConnectorTypeOK'
    <3>1. command' \in [Commands -> R]
      BY <1>0, <2>1, <2>2
    <3>2. named' \in [Prompts -> Teams \cup {Unknown, Unasked}]
      BY <1>0, <2>3 DEF ConnectorTypeOK
    <3>3. pendingChat' = Unasked /\ UNCHANGED <<reading, teamOnline, serverOnline, torn>>
      BY <1>5 DEF EnterPrompt, shownVars
    <3> QED
      BY <1>0, <2>3, <3>1, <3>2, <3>3 DEF ConnectorTypeOK
  <2>7. \A j \in Commands :
           command'[j] = IF j = k /\ pendingChat # Unknown THEN c ELSE command[j]
    BY <1>0, <2>2
  <2>8. ASSUME NEW j \in Commands PROVE WorkOK(j)'
    <3>1. CASE command'[j] = c /\ pendingChat # Unknown
      BY <3>1, <2>1, <2>3, <2>4 DEF WorkOK, Works, Untouched
    <3>2. CASE command'[j] = command[j]
      BY <1>0, <3>2, <2>3, <2>5 DEF WorkOK, Works, Untouched
    <3> QED
      BY <2>7, <3>1, <3>2
  <2>9. AloneAtWork'
    BY <1>0, <2>1, <2>5, <2>7 DEF AloneAtWork, Works
  <2>10. NewIsNew'
    BY <1>0, <2>3 DEF NewIsNew, Untouched
  <2>11. LogTellsTruth'
    BY <1>0, <2>3, <2>4 DEF LogTellsTruth, Untouched
  <2> QED
    BY <2>6, <2>8, <2>9, <2>10, <2>11 DEF ConnectorInv
<1>6. ASSUME NEW k \in Commands, NEW found \in Findings, RefreshProbed(k, found)
      PROVE  ConnectorInv'
  <2> DEFINE t == Order[command[k].next]
             s == ServerOf[t]
             ok == ProbeCoordinator(t, found)
             anyUp == command[k].any \/ ok
             lastOfAll == command[k].next = Len(Order)
             lastOfServer == lastOfAll \/ ServerOf[Order[command[k].next + 1]] # s
             c == IF lastOfAll THEN Ready
                  ELSE [command[k] EXCEPT !.next = @ + 1,
                                          !.any = IF lastOfServer THEN FALSE ELSE anyUp,
                                          !.crossed = IF lastOfServer THEN FALSE ELSE @]
  <2>1. /\ command[k].does = "refresh" /\ command[k] \in R
        /\ t \in Teams /\ s \in Servers /\ ok \in BOOLEAN
        /\ ~lastOfAll => command[k].next + 1 \in DOMAIN Order
    <3>1. command[k].does = "refresh" /\ command[k] \in R /\ command[k].next \in DOMAIN Order
      BY <1>0, <1>6 DEF RefreshProbed
    <3>2. t \in Teams /\ s \in Servers
      BY <3>1, OrderFacts
    <3>3. ok \in BOOLEAN
      BY ProbeIsBoolean
    <3>4. ~lastOfAll => command[k].next + 1 \in DOMAIN Order
      BY <3>1, OrderFacts
    <3> QED
      BY <3>1, <3>2, <3>3, <3>4
  <2>2. c \in R /\ c.does \in {"nothing", "refresh"}
    <3>1. CASE lastOfAll
      BY <1>0, <3>1 DEF Ready
    <3>2. CASE ~lastOfAll
      BY <2>1, <3>2
    <3> QED
      BY <3>1, <3>2
  <2>3. /\ teamOnline' = [teamOnline EXCEPT ![t] = ok]
        /\ \/ serverOnline' = [serverOnline EXCEPT ![s] = anyUp] /\ torn' \in {torn \cup {s}, torn \ {s}}
           \/ UNCHANGED <<serverOnline, torn>>
        /\ Stands(k, c, s)
        /\ reading' \in BOOLEAN
        /\ UNCHANGED <<pendingChat, promptVars>>
    BY <1>0, <1>6 DEF RefreshProbed, ConnectorTypeOK
  <2>4. anyUp \in BOOLEAN
    BY <2>1
  <2> HIDE DEF c, s, t, ok, anyUp
  <2>5. /\ command' \in [Commands -> R]
        /\ command'[k] = c
        /\ \A j \in Commands : j # k =>
              command'[j].does = command[j].does /\ command'[j].prompt = command[j].prompt
    BY <1>0, <2>2, <2>3, StandsFacts
  <2>6. ConnectorTypeOK'
    BY <1>0, <2>1, <2>3, <2>4, <2>5 DEF ConnectorTypeOK, promptVars
  <2> QED
    BY <2>2, <2>3, <2>5, <2>6, PromptsUntouched DEF ConnectorInv
<1>7. ASSUME NEW k \in Commands, NEW found \in Findings, ChatProbed(k, found)
      PROVE  ConnectorInv'
  <2> DEFINE p == command[k].prompt
             t == named[p]
             s == ServerOf[t]
             ok == ProbeCoordinator(t, found)
             does == IF ~ok THEN "nothing" ELSE IF WorkPanelTeam(t) THEN "prepare" ELSE "dispatch"
             c == IF ok THEN [command[k] EXCEPT !.does = does] ELSE Ready
  <2>1. /\ command[k].does = "probe" /\ command[k] \in R /\ Works(k)
        /\ p \in Prompts /\ t \in Teams /\ t # Unasked
        /\ dispatchLog[p] = "none" /\ Untouched(p)
        /\ s \in Servers /\ ok \in BOOLEAN
    <3>1. command[k].does = "probe" /\ command[k] \in R /\ Works(k)
      BY <1>0, <1>7 DEF ChatProbed, Works
    <3>2. /\ p \in Prompts /\ t \in Teams /\ t # Unasked
          /\ dispatchLog[p] = "none" /\ Untouched(p)
      BY <1>0, <3>1 DEF WorkOK
    <3>3. s \in Servers
      BY <3>2, OrderFacts
    <3>4. ok \in BOOLEAN
      BY ProbeIsBoolean
    <3> QED
      BY <3>1, <3>2, <3>3, <3>4
  <2>2. /\ c \in R
        /\ ok => c.prompt = p /\ c.does = IF WorkPanelTeam(t) THEN "prepare" ELSE "dispatch"
        /\ ~ok => c.does = "nothing"
    <3>1. CASE ok
      BY <2>1, <3>1 DEF Doing
    <3>2. CASE ~ok
      BY <1>0, <3>2 DEF Ready
    <3> QED
      BY <3>1, <3>2
  <2>3. /\ teamOnline' = [teamOnline EXCEPT ![t] = ok]
        /\ serverOnline' = [serverOnline EXCEPT ![s] = ServerSeen(s, teamOnline')]
        /\ torn' = torn \ {s}
        /\ dispatchLog' = IF ok THEN dispatchLog ELSE [dispatchLog EXCEPT ![p] = "unavailable"]
        /\ handed' = IF ok /\ ~WorkPanelTeam(t) THEN handed \cup {<<p, t>>} ELSE handed
        /\ Stands(k, c, s)
        /\ UNCHANGED <<reading, pendingChat, ran, named>>
    BY <1>7 DEF ChatProbed, HandsOver
  <2>a. ServerSeen(s, teamOnline') \in BOOLEAN
    BY DEF ServerSeen
  <2> HIDE DEF c, s, t, ok, p
  <2>4. /\ command' \in [Commands -> R]
        /\ command'[k] = c
        /\ \A j \in Commands : j # k =>
              command'[j].does = command[j].does /\ command'[j].prompt = command[j].prompt
    BY <1>0, <2>2, <2>3, StandsFacts
  <2>5. ConnectorTypeOK'
    <3>1. teamOnline' \in [Teams -> BOOLEAN] /\ serverOnline' \in [Servers -> BOOLEAN]
          /\ torn' \subseteq Servers
      BY <1>0, <2>1, <2>3, <2>a DEF ConnectorTypeOK
    <3>2. dispatchLog' \in [Prompts -> Status] /\ handed' \subseteq Prompts \X Teams
      BY <1>0, <2>1, <2>3 DEF ConnectorTypeOK, Status
    <3> QED
      BY <1>0, <2>3, <2>4, <3>1, <3>2 DEF ConnectorTypeOK
  <2>6. /\ \A q \in Prompts : q # p => /\ dispatchLog'[q] = dispatchLog[q]
                                       /\ \A u : <<q, u>> \in handed' <=> <<q, u>> \in handed
        /\ dispatchLog'[p] = IF ok THEN "none" ELSE "unavailable"
        /\ ran' = ran /\ named' = named /\ named[p] = t
        /\ \A u : <<p, u>> \in handed' => u = t
        /\ ~ok \/ WorkPanelTeam(t) => \A u \in Teams : <<p, u>> \notin handed'
    BY <1>0, <2>1, <2>3 DEF ConnectorTypeOK, Untouched, t
  <2>7. ASSUME NEW j \in Commands PROVE WorkOK(j)'
    <3>1. CASE j = k
      BY <2>1, <2>2, <2>4, <2>6, <3>1 DEF WorkOK, Works, Untouched
    <3>2. CASE j # k /\ Works(j)
      <4>1. command[j].prompt # p
        BY <1>0, <2>1, <3>2 DEF AloneAtWork, p
      <4> QED
        BY <1>0, <2>4, <2>6, <3>2, <4>1, ZenonT(30) DEF WorkOK, Works, Untouched
    <3>3. CASE j # k /\ ~Works(j)
      BY <2>4, <3>3 DEF WorkOK, Works
    <3> QED
      BY <3>1, <3>2, <3>3
  <2>8. AloneAtWork'
    <3>1. \A j \in Commands : Works(j)' => Works(j) /\ command'[j].prompt = command[j].prompt
      BY <2>1, <2>2, <2>4 DEF Works, p
    <3> QED
      BY <1>0, <3>1 DEF AloneAtWork
  <2>9. NewIsNew'
    BY <1>0, <2>1, <2>6 DEF NewIsNew, Untouched
  <2>10. LogTellsTruth'
    <3>1. ASSUME NEW q \in Prompts, q # p
          PROVE  /\ \A u \in Teams : (u \in ran[q] \/ <<q, u>> \in handed') => u = named[q]
                 /\ dispatchLog'[q] \in {"succeeded", "accepted"} => named[q] \in ran[q]
                 /\ dispatchLog'[q] = "unavailable" =>
                       ran[q] = {} /\ \A u \in Teams : <<q, u>> \notin handed'
      BY <1>0, <2>6, <3>1 DEF LogTellsTruth
    <3>2. /\ \A u \in Teams : (u \in ran[p] \/ <<p, u>> \in handed') => u = named[p]
          /\ dispatchLog'[p] \notin {"succeeded", "accepted"}
          /\ dispatchLog'[p] = "unavailable" =>
                ran[p] = {} /\ \A u \in Teams : <<p, u>> \notin handed'
      BY <2>1, <2>6 DEF Untouched
    <3> QED
      BY <2>6, <3>1, <3>2 DEF LogTellsTruth
  <2> QED
    BY <2>5, <2>7, <2>8, <2>9, <2>10 DEF ConnectorInv
<1>8. ASSUME NEW k \in Commands, NEW found \in Findings, DispatchWorkPanel(k, found)
      PROVE  ConnectorInv'
  <2> DEFINE p == command[k].prompt
             entered == ProbeWorkPanel(found) /\ "sender" \in found
             c == IF entered THEN [command[k] EXCEPT !.does = "dispatch"] ELSE Ready
  <2>1. /\ command[k].does = "prepare" /\ command[k] \in R /\ Works(k)
        /\ p \in Prompts /\ named[p] \in Teams /\ named[p] # Unasked
        /\ dispatchLog[p] = "none" /\ Untouched(p)
    BY <1>0, <1>8 DEF DispatchWorkPanel, WorkOK, Works
  <2>2. c \in R /\ (entered => c.prompt = p /\ c.does = "dispatch") /\ (~entered => c.does = "nothing")
    <3>1. CASE entered
      BY <2>1, <3>1 DEF Doing
    <3>2. CASE ~entered
      BY <1>0, <3>2 DEF Ready
    <3> QED
      BY <3>1, <3>2
  <2>3. /\ handed' = IF entered THEN handed \cup {<<p, named[p]>>} ELSE handed
        /\ dispatchLog' = IF entered THEN dispatchLog ELSE [dispatchLog EXCEPT ![p] = "failed"]
        /\ command' = [command EXCEPT ![k] = c]
        /\ UNCHANGED <<reading, shownVars, pendingChat, ran, named>>
    BY <1>8 DEF DispatchWorkPanel
  <2> HIDE DEF c, entered, p
  <2>4. \A j \in Commands : command'[j] = IF j = k THEN c ELSE command[j]
    BY <1>0, <2>3
  <2>5. ConnectorTypeOK'
    BY <1>0, <2>1, <2>2, <2>3 DEF ConnectorTypeOK, shownVars, Status
  <2>6. /\ \A q \in Prompts : q # p => /\ dispatchLog'[q] = dispatchLog[q]
                                       /\ \A u : <<q, u>> \in handed' <=> <<q, u>> \in handed
        /\ dispatchLog'[p] = IF entered THEN "none" ELSE "failed"
        /\ ran' = ran /\ named' = named
        /\ \A u \in Teams : <<p, u>> \in handed' => u = named[p]
    BY <1>0, <2>1, <2>3 DEF ConnectorTypeOK, Untouched
  <2>7. ASSUME NEW j \in Commands PROVE WorkOK(j)'
    <3>1. CASE j = k
      BY <2>1, <2>2, <2>4, <2>6, <3>1 DEF WorkOK, Works, Untouched
    <3>2. CASE j # k /\ Works(j)
      <4>1. command[j].prompt # p
        BY <1>0, <2>1, <3>2 DEF AloneAtWork, p
      <4> QED
        BY <1>0, <2>4, <2>6, <3>2, <4>1 DEF WorkOK, Works, Untouched
    <3>3. CASE j # k /\ ~Works(j)
      BY <2>4, <3>3 DEF WorkOK, Works
    <3> QED
      BY <3>1, <3>2, <3>3
  <2>8. AloneAtWork'
    <3>1. \A j \in Commands : Works(j)' => Works(j) /\ command'[j].prompt = command[j].prompt
      BY <2>1, <2>2, <2>4 DEF Works, p
    <3> QED
      BY <1>0, <3>1 DEF AloneAtWork
  <2>9. NewIsNew'
    BY <1>0, <2>1, <2>6 DEF NewIsNew, Untouched
  <2>10. LogTellsTruth'
    BY <1>0, <2>1, <2>6 DEF LogTellsTruth, Untouched
  <2> QED
    BY <2>5, <2>7, <2>8, <2>9, <2>10 DEF ConnectorInv
<1>9. ASSUME NEW p \in Prompts, NEW t \in Teams, CoordinatorTakes(p, t) \/ CoordinatorRefuses(p, t)
      PROVE  ConnectorInv'
  <2>1. /\ <<p, t>> \in handed /\ handed' = handed \ {<<p, t>>}
        /\ ran' = [ran EXCEPT ![p] = @ \cup {t}] \/ ran' = ran
        /\ UNCHANGED <<reading, shownVars, pendingChat, command, dispatchLog, named>>
    BY <1>9 DEF CoordinatorTakes, CoordinatorRefuses
  <2>2. /\ \A q \in Prompts : ran'[q] = ran[q] \/ (q = p /\ ran'[q] = ran[q] \cup {t})
        /\ ~Untouched(p) /\ named[p] = t
    BY <1>0, <2>1 DEF ConnectorTypeOK, LogTellsTruth, Untouched
  <2>3. ConnectorTypeOK'
    BY <1>0, <2>1 DEF ConnectorTypeOK, shownVars
  <2>4. \A q \in Prompts : Untouched(q) => Untouched(q)'
    BY <2>1, <2>2 DEF Untouched
  <2>5. (\A k \in Commands : WorkOK(k)') /\ AloneAtWork' /\ NewIsNew'
    BY <1>0, <2>1, <2>4 DEF WorkOK, Works, AloneAtWork, NewIsNew
  <2>6. LogTellsTruth'
    BY <1>0, <2>1, <2>2 DEF LogTellsTruth, Untouched
  <2> QED
    BY <2>3, <2>5, <2>6 DEF ConnectorInv
<1>10. ASSUME NEW k \in Commands, NEW status \in {"succeeded", "accepted", "failed"},
              Dispatched(k, status)
       PROVE  ConnectorInv'
  <2> DEFINE p == command[k].prompt
  <2>1. /\ command[k].does = "dispatch" /\ Works(k)
        /\ p \in Prompts /\ named[p] \in Teams /\ named[p] # Unasked
        /\ status # "failed" => ran[p] # {}
        /\ dispatchLog' = [dispatchLog EXCEPT ![p] = status]
        /\ command' = [command EXCEPT ![k] = Ready]
        /\ UNCHANGED <<reading, shownVars, pendingChat, handed, ran, named>>
    BY <1>0, <1>10 DEF Dispatched, WorkOK, Works
  <2> HIDE DEF p
  <2>2. \A j \in Commands : command'[j] = IF j = k THEN Ready ELSE command[j]
    BY <1>0, <2>1
  <2>3. \A q \in Prompts : dispatchLog'[q] = IF q = p THEN status ELSE dispatchLog[q]
    BY <1>0, <2>1 DEF ConnectorTypeOK
  <2>4. ConnectorTypeOK'
    BY <1>0, <2>1 DEF ConnectorTypeOK, shownVars, Status
  <2>5. \A j \in Commands : Works(j)' =>
           Works(j) /\ command'[j] = command[j] /\ command[j].prompt # p
    BY <1>0, <2>1, <2>2 DEF Works, AloneAtWork, Ready, p
  <2>6. (\A j \in Commands : WorkOK(j)') /\ AloneAtWork'
    <3>1. ASSUME NEW j \in Commands, Works(j)'
          PROVE  /\ WorkOK(j) /\ Works(j) /\ command'[j] = command[j]
                 /\ dispatchLog'[command[j].prompt] = dispatchLog[command[j].prompt]
      BY <1>0, <2>3, <2>5, <3>1 DEF WorkOK
    <3>2. \A j \in Commands : WorkOK(j)'
      BY <2>1, <3>1 DEF WorkOK, Untouched
    <3>3. AloneAtWork'
      BY <1>0, <3>1 DEF AloneAtWork
    <3> QED
      BY <3>2, <3>3
  <2>7. NewIsNew'
    BY <1>0, <2>1, <2>3 DEF NewIsNew, Untouched
  <2>8. status # "failed" => named[p] \in ran[p]
    <3>1. ran[p] \subseteq Teams
      BY <1>0, <2>1 DEF ConnectorTypeOK
    <3>2. \A t \in Teams : t \in ran[p] => t = named[p]
      BY <1>0, <2>1 DEF LogTellsTruth
    <3> QED
      BY <2>1, <3>1, <3>2
  <2>9. LogTellsTruth'
    BY <1>0, <2>1, <2>3, <2>8 DEF LogTellsTruth
  <2> QED
    BY <2>4, <2>6, <2>7, <2>9 DEF ConnectorInv
<1>11. CASE UNCHANGED connectorVars
  <2>1. ConnectorTypeOK'
    BY <1>0, <1>11 DEF connectorVars, ConnectorTypeOK, shownVars, promptVars
  <2> QED
    BY <1>11, <2>1, PromptsUntouched DEF ConnectorInv, connectorVars
<1> QED
  BY ONLY [ConnectorNext]_connectorVars, <1>1, <1>2, <1>3, <1>4, <1>5, <1>6, <1>7, <1>8, <1>9,
          <1>10, <1>11
  DEF ConnectorNext

\* The invariant of the command line holds.
THEOREM ConnectorInvariance == ConnectorSpec => []ConnectorInv
BY ConnectorInit_Inv, ConnectorStep_Inv, PTL DEF ConnectorSpec

\* What the log says of a prompt is true and stays true, for any number of teams,
\* servers, prompts and commands under way at once.
THEOREM LogTellsTruthHolds == ConnectorSpec => []LogTellsTruth
<1>1. ConnectorInv => LogTellsTruth
  BY DEF ConnectorInv
<1> QED
  BY <1>1, ConnectorInvariance, PTL

-----------------------------------------------------------------------------
(* Connector, the flags. The last team of a server tells what the flag of the  *)
(* server becomes, from what the command remembers of the teams before it.     *)

\* A command between two teams of a server knows whether one of those it has probed is
\* online, unless another command has written a flag of the server meanwhile.
SeenOK(k) ==
    command[k].does = "refresh" =>
        LET n == command[k].next
            s == ServerOf[Order[n]]
        IN  IF Inside(k, s)
            THEN command[k].crossed \/
                 (command[k].any <=> \E i \in 1..(n - 1) :
                                        ServerOf[Order[i]] = s /\ teamOnline[Order[i]])
            ELSE ~command[k].any /\ ~command[k].crossed

FlagInv == (\A k \in Commands : SeenOK(k)) /\ FlagsAgree

\* The teams of a server are next to each other.
LEMMA Contiguous ==
    ASSUME NEW i \in DOMAIN Order, NEW j \in DOMAIN Order, NEW m \in i..j,
           ServerOf[Order[i]] = ServerOf[Order[j]]
    PROVE  ServerOf[Order[m]] = ServerOf[Order[i]]
BY ConnectorAssumption

\* A command is inside the server of its next team, or inside none.
LEMMA InsideIsOfNext ==
    ASSUME NEW k, NEW s, Inside(k, s)
    PROVE  s = ServerOf[Order[command[k].next]]
BY DEF Inside

\* As long as no flag is touched, and no command starts or ends between two teams.
LEMMA FlagsUntouched ==
    ASSUME ConnectorTypeOK, FlagInv, UNCHANGED shownVars,
           \A k \in Commands :
              \/ command'[k] = command[k]
              \/ command[k].does # "refresh" /\ command'[k].does # "refresh"
              \/ /\ command[k].does # "refresh" /\ command'[k].does = "refresh"
                 /\ command'[k].next = 1 /\ ~command'[k].any /\ ~command'[k].crossed
    PROVE  FlagInv'
<1>1. \A k \in Commands, s \in Servers : Inside(k, s)' <=> Inside(k, s)
  BY DEF Inside
<1>2. ASSUME NEW k \in Commands PROVE SeenOK(k)'
  <2>1. CASE command'[k] = command[k]
    BY <2>1 DEF FlagInv, SeenOK, Inside, shownVars
  <2>2. CASE command'[k].does # "refresh"
    BY <2>2 DEF SeenOK
  <2>3. CASE command'[k].next = 1 /\ ~command'[k].any /\ ~command'[k].crossed
    BY <2>3 DEF SeenOK, Inside
  <2> QED
    BY <2>1, <2>2, <2>3
<1>3. FlagsAgree'
  BY <1>1 DEF FlagInv, FlagsAgree, shownVars
<1> QED
  BY <1>2, <1>3 DEF FlagInv

LEMMA FlagInit == ConnectorInit => FlagInv
<1> SUFFICES ASSUME ConnectorInit PROVE FlagInv
  OBVIOUS
<1>1. PICK k \in Commands :
        command = [j \in Commands |-> IF j = k THEN [Ready EXCEPT !.does = "refresh"] ELSE Ready]
  BY DEF ConnectorInit
<1>2. \A j \in Commands : command[j].next = 1 /\ ~command[j].any /\ ~command[j].crossed
  BY <1>1 DEF Ready
<1>3. FlagsAgree
  BY DEF ConnectorInit, FlagsAgree, TeamsOf
<1> QED
  BY <1>2, <1>3 DEF FlagInv, SeenOK, Inside

\* A probe of team t by command k: what it leaves of the flags of other servers, and
\* what the commands beside k know.
LEMMA OthersSee ==
    ASSUME ConnectorTypeOK, FlagInv, NEW k \in Commands, NEW t \in Teams, NEW ok \in BOOLEAN,
           NEW c, Stands(k, c, ServerOf[t]),
           c \in [does : Doing, next : DOMAIN Order, any : BOOLEAN, crossed : BOOLEAN,
                  prompt : Prompts \cup {Unasked}],
           teamOnline' = [teamOnline EXCEPT ![t] = ok],
           NEW j \in Commands, j # k
    PROVE  SeenOK(j)' /\ \A s \in Servers : Inside(j, s)' <=> Inside(j, s)
<1> DEFINE n == command[j].next
           s == ServerOf[Order[n]]
<1>1. /\ command[j].next \in DOMAIN Order
      /\ command'[j] = IF Inside(j, ServerOf[t]) THEN [command[j] EXCEPT !.crossed = TRUE]
                       ELSE command[j]
  BY DEF ConnectorTypeOK, Stands
<1>2. /\ command'[j].does = command[j].does /\ command'[j].next = command[j].next
      /\ command'[j].any = command[j].any
      /\ Inside(j, ServerOf[t]) => command'[j].crossed
      /\ ~Inside(j, ServerOf[t]) => command'[j].crossed = command[j].crossed
  <2>1. command[j] \in [does : Doing, next : DOMAIN Order, any : BOOLEAN, crossed : BOOLEAN,
                        prompt : Prompts \cup {Unasked}]
    BY DEF ConnectorTypeOK
  <2> QED
    BY <1>1, <2>1
<1>3. \A u : Inside(j, u)' <=> Inside(j, u)
  BY <1>2 DEF Inside
<1>4. SeenOK(j)'
  <2>1. CASE command[j].does # "refresh"
    BY <1>2, <2>1 DEF SeenOK
  <2>2. CASE command[j].does = "refresh" /\ ~Inside(j, s)
    <3>1. ~command[j].any /\ ~command[j].crossed
      BY <2>2 DEF FlagInv, SeenOK
    <3>2. ~Inside(j, ServerOf[t])
      BY <2>2, InsideIsOfNext
    <3> QED
      BY <1>2, <1>3, <2>2, <3>1, <3>2 DEF SeenOK
  <2>3. CASE command[j].does = "refresh" /\ Inside(j, s) /\ s = ServerOf[t]
    BY <1>2, <1>3, <2>3 DEF SeenOK
  <2>4. CASE command[j].does = "refresh" /\ Inside(j, s) /\ s # ServerOf[t]
    <3>1. \/ command[j].crossed
          \/ command[j].any <=> \E i \in 1..(n - 1) :
                                   ServerOf[Order[i]] = s /\ teamOnline[Order[i]]
      BY <2>4 DEF FlagInv, SeenOK
    <3>2. \A i \in 1..(n - 1) :
             ServerOf[Order[i]] = s => teamOnline'[Order[i]] = teamOnline[Order[i]]
      <4>1. \A i \in 1..(n - 1) : i \in DOMAIN Order /\ Order[i] \in Teams
        BY <1>1, OrderFacts
      <4> QED
        BY <2>4, <4>1 DEF ConnectorTypeOK
    <3>3. ~Inside(j, ServerOf[t])
      BY <2>4, InsideIsOfNext
    <3> QED
      BY <1>2, <1>3, <2>4, <3>1, <3>2, <3>3 DEF SeenOK
  <2> QED
    BY <2>1, <2>2, <2>3, <2>4
<1> QED
  BY <1>3, <1>4

LEMMA FlagStep ==
    ConnectorInv /\ FlagInv /\ [ConnectorNext]_connectorVars => FlagInv'
<1> SUFFICES ASSUME ConnectorInv, FlagInv, [ConnectorNext]_connectorVars PROVE FlagInv'
  OBVIOUS
<1> DEFINE R == [does : Doing, next : DOMAIN Order, any : BOOLEAN, crossed : BOOLEAN,
                 prompt : Prompts \cup {Unasked}]
<1>0. /\ ConnectorTypeOK /\ (\A k \in Commands : SeenOK(k)) /\ FlagsAgree
      /\ command \in [Commands -> R]
      /\ Ready.does = "nothing" /\ Ready.next = 1 /\ ~Ready.any /\ ~Ready.crossed
  BY DEF ConnectorInv, FlagInv, ConnectorTypeOK, Ready
<1>1. ASSUME UNCHANGED <<shownVars, command>> PROVE FlagInv'
  BY <1>0, <1>1, FlagsUntouched
<1>2. ASSUME CancelPrompt \/ \E t \in Teams \cup {Unknown} : NameTeam(t) PROVE FlagInv'
  BY <1>1, <1>2 DEF CancelPrompt, NameTeam
<1>3. ASSUME NEW p \in Prompts, NEW t \in Teams, CoordinatorTakes(p, t) \/ CoordinatorRefuses(p, t)
      PROVE  FlagInv'
  BY <1>1, <1>3 DEF CoordinatorTakes, CoordinatorRefuses
<1>4. ASSUME NEW k \in Commands, Refresh(k) PROVE FlagInv'
  <2>1. /\ UNCHANGED shownVars
        /\ command[k] = Ready
        /\ command'[k].does = "refresh" /\ command'[k].next = command[k].next
        /\ command'[k].any = command[k].any /\ command'[k].crossed = command[k].crossed
        /\ \A j \in Commands : j # k => command'[j] = command[j]
    BY <1>0, <1>4 DEF Refresh
  <2> QED
    BY <1>0, <2>1, FlagsUntouched
<1>5. ASSUME NEW k \in Commands, QuitAndStart(k) PROVE FlagInv'
  <2>1. \A j \in Commands : command'[j].next = 1 /\ ~command'[j].any /\ ~command'[j].crossed
    BY <1>0, <1>5 DEF QuitAndStart, FirstRefresh, Ready
  <2>2. FlagsAgree'
    BY <1>5 DEF QuitAndStart, FlagsAgree, TeamsOf
  <2> QED
    BY <2>1, <2>2 DEF FlagInv, SeenOK, Inside
<1>6. ASSUME NEW k \in Commands, NEW p \in Prompts, EnterPrompt(k, p) PROVE FlagInv'
  <2>1. /\ UNCHANGED shownVars
        /\ command[k] = Ready
        /\ command'[k] = command[k] \/ command'[k].does = "probe"
        /\ \A j \in Commands : j # k => command'[j] = command[j]
    BY <1>0, <1>6 DEF EnterPrompt, Doing
  <2> QED
    BY <1>0, <2>1, FlagsUntouched
<1>7. ASSUME NEW k \in Commands, NEW found \in Findings, DispatchWorkPanel(k, found)
      PROVE  FlagInv'
  <2>1. /\ UNCHANGED shownVars
        /\ command[k].does = "prepare"
        /\ command'[k].does \in {"dispatch", "nothing"}
        /\ \A j \in Commands : j # k => command'[j] = command[j]
    BY <1>0, <1>7 DEF DispatchWorkPanel
  <2> QED
    BY <1>0, <2>1, FlagsUntouched
<1>8. ASSUME NEW k \in Commands, NEW status \in {"succeeded", "accepted", "failed"},
             Dispatched(k, status)
      PROVE  FlagInv'
  <2>1. /\ UNCHANGED shownVars
        /\ command[k].does = "dispatch"
        /\ command'[k].does = "nothing"
        /\ \A j \in Commands : j # k => command'[j] = command[j]
    BY <1>0, <1>8 DEF Dispatched
  <2> QED
    BY <1>0, <2>1, FlagsUntouched
<1>9. ASSUME NEW k \in Commands, NEW found \in Findings, ChatProbed(k, found) PROVE FlagInv'
  <2> DEFINE t == named[command[k].prompt]
             s == ServerOf[t]
             ok == ProbeCoordinator(t, found)
             does == IF ~ok THEN "nothing" ELSE IF WorkPanelTeam(t) THEN "prepare" ELSE "dispatch"
             c == IF ok THEN [command[k] EXCEPT !.does = does] ELSE Ready
  <2>1. /\ command[k].does = "probe" /\ command[k] \in R /\ Ready \in R
        /\ t \in Teams /\ s \in Servers /\ ok \in BOOLEAN
    <3>1. command[k].does = "probe" /\ command[k] \in R
      BY <1>0, <1>9 DEF ChatProbed
    <3>2. t \in Teams
      BY <3>1 DEF ConnectorInv, WorkOK, Works
    <3>3. Ready \in R
      BY OrderFacts DEF Ready, Doing
    <3> QED
      BY <3>1, <3>2, <3>3, OrderFacts, ProbeIsBoolean
  <2>2. c \in R /\ c.does # "refresh"
    <3>1. CASE ok
      BY <2>1, <3>1 DEF Doing
    <3>2. CASE ~ok
      BY <1>0, <2>1, <3>2
    <3> QED
      BY <3>1, <3>2
  <2>3. /\ teamOnline' = [teamOnline EXCEPT ![t] = ok]
        /\ serverOnline' = [serverOnline EXCEPT ![s] = ServerSeen(s, teamOnline')]
        /\ torn' = torn \ {s}
        /\ Stands(k, c, s)
    BY <1>9 DEF ChatProbed
  <2> HIDE DEF c, ok, t
  <2>4. command'[k] = c
    BY <1>0, <2>2, <2>3, StandsFacts
  <2>5. \A j \in Commands \ {k} : SeenOK(j)' /\ \A u \in Servers : Inside(j, u)' <=> Inside(j, u)
    BY <1>0, <2>1, <2>2, <2>3, OthersSee DEF FlagInv
  <2>6. \A u \in Servers : Inside(k, u)' <=> Inside(k, u)
    BY <2>1, <2>2, <2>4 DEF Inside
  <2>7. SeenOK(k)'
    BY <2>2, <2>4 DEF SeenOK
  <2>8. ASSUME NEW u \in Servers, u \notin torn', \A j \in Commands : ~Inside(j, u)'
        PROVE  serverOnline'[u] <=> \E v \in TeamsOf(u) : teamOnline'[v]
    <3>1. CASE u = s
      <4>1. serverOnline'[s] = ServerSeen(s, teamOnline')
        BY <1>0, <2>1, <2>3 DEF ConnectorTypeOK
      <4> QED
        BY <3>1, <4>1 DEF ServerSeen
    <3>2. CASE u # s
      <4>1. serverOnline'[u] = serverOnline[u] /\ (u \in torn' <=> u \in torn)
        BY <1>0, <2>3, <3>2 DEF ConnectorTypeOK
      <4>2. \A j \in Commands : ~Inside(j, u)
        BY <2>5, <2>6, <2>8
      <4>3. serverOnline[u] <=> \E v \in TeamsOf(u) : teamOnline[v]
        BY <1>0, <2>8, <4>1, <4>2 DEF FlagsAgree
      <4>4. \A v \in TeamsOf(u) : teamOnline'[v] = teamOnline[v]
        BY <1>0, <2>1, <2>3, <3>2 DEF TeamsOf, ConnectorTypeOK
      <4> QED
        BY <4>1, <4>3, <4>4
    <3> QED
      BY <3>1, <3>2
  <2> QED
    BY <2>5, <2>7, <2>8 DEF FlagInv, FlagsAgree
<1>10. ASSUME NEW k \in Commands, NEW found \in Findings, RefreshProbed(k, found) PROVE FlagInv'
  <2> DEFINE n == command[k].next
             t == Order[n]
             s == ServerOf[t]
             ok == ProbeCoordinator(t, found)
             anyUp == command[k].any \/ ok
             lastOfAll == n = Len(Order)
             lastOfServer == lastOfAll \/ ServerOf[Order[n + 1]] # s
             c == IF lastOfAll THEN Ready
                  ELSE [command[k] EXCEPT !.next = @ + 1,
                                          !.any = IF lastOfServer THEN FALSE ELSE anyUp,
                                          !.crossed = IF lastOfServer THEN FALSE ELSE @]
             Before(online) == \E i \in 1..(n - 1) : ServerOf[Order[i]] = s /\ online[Order[i]]
  <2>1. /\ command[k].does = "refresh" /\ command[k] \in R
        /\ n \in DOMAIN Order /\ n \in Nat /\ n >= 1 /\ n <= Len(Order) /\ Len(Order) \in Nat
        /\ t \in Teams /\ s \in Servers /\ ok \in BOOLEAN /\ anyUp \in BOOLEAN
        /\ ~lastOfAll => n + 1 \in DOMAIN Order
    <3>1. command[k].does = "refresh" /\ command[k] \in R /\ n \in DOMAIN Order
      BY <1>0, <1>10 DEF RefreshProbed
    <3>2. t \in Teams /\ s \in Servers
      BY <3>1, OrderFacts
    <3>3. ok \in BOOLEAN
      BY ProbeIsBoolean
    <3>4. n \in Nat /\ n >= 1 /\ n <= Len(Order) /\ Len(Order) \in Nat
          /\ (~lastOfAll => n + 1 \in DOMAIN Order)
      BY <3>1, OrderFacts
    <3> QED
      BY <3>1, <3>2, <3>3, <3>4
  <2>2. /\ c \in R
        /\ lastOfAll => c = Ready
        /\ ~lastOfAll => /\ c.does = "refresh" /\ c.next = n + 1
                         /\ lastOfServer => ~c.any /\ ~c.crossed
                         /\ ~lastOfServer => c.any = anyUp /\ c.crossed = command[k].crossed
    <3>1. CASE lastOfAll
      <4>1. Ready \in R
        BY OrderFacts DEF Ready, Doing
      <4> QED
        BY <3>1, <4>1
    <3>2. CASE ~lastOfAll
      BY <2>1, <3>2
    <3> QED
      BY <3>1, <3>2
  <2>3. /\ teamOnline' = [teamOnline EXCEPT ![t] = ok]
        /\ IF lastOfServer
             THEN /\ serverOnline' = [serverOnline EXCEPT ![s] = anyUp]
                  /\ torn' = IF command[k].crossed THEN torn \cup {s} ELSE torn \ {s}
             ELSE UNCHANGED <<serverOnline, torn>>
        /\ Stands(k, c, s)
    BY <1>10 DEF RefreshProbed
  <2>4. command'[k] = c
    <3> HIDE DEF c
    <3> QED
      BY <1>0, <2>2, <2>3, StandsFacts
  <2>5. \A j \in Commands \ {k} : SeenOK(j)' /\ \A u \in Servers : Inside(j, u)' <=> Inside(j, u)
    <3> HIDE DEF c, t, ok
    <3> QED
      BY <1>0, <2>1, <2>2, <2>3, OthersSee DEF FlagInv
  <2> HIDE DEF c, ok
  <2>6. /\ \A i \in 1..(n - 1) : teamOnline'[Order[i]] = teamOnline[Order[i]]
        /\ teamOnline'[t] = ok
    <3>1. \A i \in 1..(n - 1) : i \in DOMAIN Order /\ Order[i] \in Teams /\ Order[i] # Order[n]
      BY <2>1, OrderFacts, ConnectorAssumption
    <3> QED
      BY <1>0, <2>1, <2>3, <3>1 DEF ConnectorTypeOK
  <2>7. command[k].crossed \/ (command[k].any <=> Before(teamOnline))
    <3>1. CASE Inside(k, s)
      BY <1>0, <2>1, <3>1 DEF SeenOK
    <3>2. CASE ~Inside(k, s)
      <4>1. ~command[k].any
        BY <1>0, <2>1, <3>2 DEF SeenOK
      <4>2. n > 1 => ServerOf[Order[n - 1]] # s
        BY <2>1, <3>2 DEF Inside
      <4>3. ASSUME NEW i \in 1..(n - 1), ServerOf[Order[i]] = s PROVE FALSE
        <5>1. i \in DOMAIN Order /\ n - 1 \in i..n /\ n > 1
          BY <2>1, OrderFacts
        <5>2. ServerOf[Order[n - 1]] = s
          BY <2>1, <4>3, <5>1, Contiguous
        <5> QED
          BY <4>2, <5>1, <5>2
      <4> QED
        BY <4>1, <4>3
    <3> QED
      BY <3>1, <3>2
  <2>8. command[k].crossed \/ (anyUp <=> (Before(teamOnline') \/ teamOnline'[t]))
    BY <2>6, <2>7
  <2>9. SeenOK(k)'
    <3>1. CASE lastOfAll
      BY <1>0, <2>2, <2>4, <3>1 DEF SeenOK
    <3>2. CASE ~lastOfAll /\ lastOfServer
      <4>1. ~command'[k].any /\ ~command'[k].crossed /\ command'[k].next = n + 1
        BY <2>2, <2>4, <3>2
      <4>2. ~Inside(k, ServerOf[Order[command[k].next]])'
        BY <2>1, <3>2, <4>1 DEF Inside
      <4> QED
        BY <4>1, <4>2 DEF SeenOK
    <3>3. CASE ~lastOfServer
      <4>1. /\ command'[k].does = "refresh" /\ command'[k].next = n + 1
            /\ command'[k].any = anyUp /\ command'[k].crossed = command[k].crossed
            /\ ServerOf[Order[n + 1]] = s
        BY <2>2, <2>4, <3>3
      <4>2. Before(teamOnline') \/ teamOnline'[t] <=>
              \E i \in 1..((n + 1) - 1) : ServerOf[Order[i]] = s /\ teamOnline'[Order[i]]
        <5>1. 1..((n + 1) - 1) = (1..(n - 1)) \cup {n}
          BY <2>1
        <5> QED
          BY <5>1
      <4>3. Inside(k, ServerOf[Order[command[k].next]])'
        BY <2>1, <4>1 DEF Inside
      <4>4. \/ command'[k].crossed
            \/ command'[k].any <=>
                  \E i \in 1..(command'[k].next - 1) :
                     ServerOf[Order[i]] = ServerOf[Order[command'[k].next]] /\ teamOnline'[Order[i]]
        <5> HIDE DEF Before, anyUp
        <5>1. command'[k].crossed
              \/ (command'[k].any <=> \E i \in 1..((n + 1) - 1) :
                                         ServerOf[Order[i]] = s /\ teamOnline'[Order[i]])
          BY <2>8, <4>1, <4>2
        <5> QED
          BY <4>1, <5>1
      <4> QED
        BY <4>3, <4>4 DEF SeenOK
    <3> QED
      BY <3>1, <3>2, <3>3
  <2>10. \A u \in Servers : u # s => ~Inside(k, u) /\ ~Inside(k, u)'
    <3>1. ASSUME NEW u \in Servers, u # s PROVE ~Inside(k, u)
      BY <3>1, InsideIsOfNext
    <3>2. ASSUME NEW u \in Servers, u # s, Inside(k, u)' PROVE FALSE
      <4>1. command'[k].does = "refresh" /\ command'[k].next > 1
            /\ ServerOf[Order[command'[k].next - 1]] = u
        BY <3>2 DEF Inside
      <4>2. command'[k].next = n + 1
        BY <1>0, <2>2, <2>4, <4>1
      <4> QED
        BY <2>1, <3>2, <4>1, <4>2
    <3> QED
      BY <3>1, <3>2
  <2>11. ASSUME NEW u \in Servers, u \notin torn', \A j \in Commands : ~Inside(j, u)'
         PROVE  serverOnline'[u] <=> \E v \in TeamsOf(u) : teamOnline'[v]
    <3>1. CASE u = s
      <4>1. lastOfServer
        <5>1. ASSUME ~lastOfServer PROVE Inside(k, u)'
          <6>1. command'[k].does = "refresh" /\ command'[k].next = n + 1
                /\ ServerOf[Order[n + 1]] = s
            BY <2>2, <2>4, <5>1
          <6> QED
            BY <2>1, <3>1, <6>1 DEF Inside
        <5> QED
          BY <2>11, <3>1, <5>1
      <4>2. ~command[k].crossed /\ serverOnline'[s] = anyUp
        BY <1>0, <2>1, <2>3, <2>11, <3>1, <4>1 DEF ConnectorTypeOK
      <4>3. \A v \in TeamsOf(s) : v = t \/ \E i \in 1..(n - 1) : Order[i] = v
        <5>1. ASSUME NEW v \in TeamsOf(s)
              PROVE  v = t \/ \E i \in 1..(n - 1) : Order[i] = v
          <6>1. PICK i \in DOMAIN Order : Order[i] = v
            BY ConnectorAssumption DEF TeamsOf
          <6>2. ServerOf[Order[i]] = s
            BY <6>1 DEF TeamsOf
          <6>3. ASSUME i > n PROVE FALSE
            <7>1. n + 1 \in n..i /\ ~lastOfAll
              BY <2>1, <6>3, OrderFacts
            <7>2. ServerOf[Order[n + 1]] = s
              BY <2>1, <6>2, <7>1, Contiguous
            <7> QED
              BY <4>1, <7>1, <7>2
          <6>4. i = n \/ i \in 1..(n - 1)
            BY <2>1, <6>3, OrderFacts
          <6> QED
            BY <6>1, <6>4
        <5> QED
          BY <5>1
      <4>4. /\ t \in TeamsOf(s)
            /\ \A i \in 1..(n - 1) : ServerOf[Order[i]] = s => Order[i] \in TeamsOf(s)
        BY <2>1, OrderFacts DEF TeamsOf
      <4>5. (Before(teamOnline') \/ teamOnline'[t]) <=> \E v \in TeamsOf(s) : teamOnline'[v]
        <5>1. ASSUME NEW v \in TeamsOf(s), teamOnline'[v] PROVE Before(teamOnline') \/ teamOnline'[t]
          BY <4>3, <5>1 DEF TeamsOf
        <5> QED
          BY <4>4, <5>1
      <4> HIDE DEF Before, anyUp
      <4> QED
        BY <2>8, <3>1, <4>2, <4>5
    <3>2. CASE u # s
      <4>1. serverOnline'[u] = serverOnline[u] /\ (u \in torn' <=> u \in torn)
        BY <1>0, <2>3, <3>2 DEF ConnectorTypeOK
      <4>2. \A j \in Commands : ~Inside(j, u)
        BY <2>5, <2>10, <2>11, <3>2
      <4>3. serverOnline[u] <=> \E v \in TeamsOf(u) : teamOnline[v]
        BY <1>0, <2>11, <4>1, <4>2 DEF FlagsAgree
      <4>4. \A v \in TeamsOf(u) : teamOnline'[v] = teamOnline[v]
        BY <1>0, <2>1, <2>3, <3>2 DEF TeamsOf, ConnectorTypeOK
      <4> QED
        BY <4>1, <4>3, <4>4
    <3> QED
      BY <3>1, <3>2
  <2> QED
    BY <2>5, <2>9, <2>11 DEF FlagInv, FlagsAgree
<1>11. CASE UNCHANGED connectorVars
  BY <1>1, <1>11 DEF connectorVars
<1> QED
  BY ONLY [ConnectorNext]_connectorVars, <1>2, <1>3, <1>4, <1>5, <1>6, <1>7, <1>8, <1>9, <1>10,
          <1>11
  DEF ConnectorNext

\* The lists of servers and of teams agree but for refreshes under way or crossed by a
\* probe, for any teams and servers and however many commands overlap.
THEOREM FlagsAgreeHolds == ConnectorSpec => []FlagsAgree
<1>1. ConnectorInit => FlagInv
  BY FlagInit
<1>2. ConnectorInv /\ FlagInv /\ [ConnectorNext]_connectorVars => FlagInv'
  BY FlagStep
<1>3. FlagInv => FlagsAgree
  BY DEF FlagInv
<1> QED
  BY ConnectorInvariance, <1>1, <1>2, <1>3, PTL DEF ConnectorSpec

-----------------------------------------------------------------------------
(* HostBacklog. Retention outlasts every envelope because a message becomes    *)
(* final at a time that is known, and its envelope ends at most MessageTtl     *)
(* after that.                                                                 *)

\* Never is not a time.
RowOK(m) ==
    /\ row[m].status = "absent" => row[m] = NoRow
    /\ expires[m] = Never => insertions[m] = 0
    /\ insertions[m] = 0 => row[m] = NoRow
    /\ row[m] = NoRow /\ insertions[m] # 0 => Past(m)
    /\ row[m].status = "queued" => row[m].attempt < MaxLeases
    /\ row[m].status = "expired" => Past(m)
    /\ row[m].status \in Final =>
          /\ row[m].completed \in Nat /\ row[m].completed <= now
          /\ expires[m] <= row[m].completed + MessageTtl
    /\ expires[m] <= now + MessageTtl
    /\ insertions[m] <= 1

BacklogInv == BacklogTypeOK /\ (\A m \in Messages : RowOK(m)) /\ InflightBounded

Row == [status : {"absent"} \cup Live \cup Final, attempt : 0..MaxLeases,
        completed : Nat \cup {Never}, held : BOOLEAN]

\* The messages under way that may still be executed.
Executable == {m \in Messages : row[m].status \in Live /\ ~Past(m)}

\* As long as none joins them they stay within the limit.
LEMMA NoneJoins ==
    ASSUME InflightBounded, BacklogTypeOK, Executable' \subseteq Executable
    PROVE  InflightBounded'
<1>1. IsFiniteSet(Executable)
  BY FS_Subset, HostBacklogAssumption DEF Executable
<1>2. Cardinality(Executable') <= Cardinality(Executable) /\ Cardinality(Executable) \in Nat
      /\ Cardinality(Executable') \in Nat
  BY <1>1, FS_Subset, FS_CardinalityType
<1>3. Cardinality(Executable) <= MaxInflight /\ MaxInflight \in Nat
  BY HostBacklogAssumption DEF InflightBounded, Executable
<1>4. Cardinality(Executable') <= MaxInflight
  BY <1>2, <1>3
<1> QED
  BY <1>4 DEF InflightBounded, Executable

LEMMA BacklogInit_Inv == BacklogInit => BacklogInv
<1> SUFFICES ASSUME BacklogInit PROVE BacklogInv
  OBVIOUS
<1>1. BacklogTypeOK
  BY HostBacklogAssumption DEF BacklogInit, BacklogTypeOK, NoRow, NoWindow
<1>2. ASSUME NEW m \in Messages PROVE RowOK(m)
  BY HostBacklogAssumption DEF BacklogInit, RowOK, NoRow, Never, Past, Final
<1>3. Executable = {}
  BY DEF BacklogInit, Executable, NoRow, Live
<1>4. Cardinality({}) = 0
  BY FS_EmptySet
<1>5. InflightBounded
  <2>1. Cardinality(Executable) = 0 /\ MaxInflight \in Nat
    BY <1>3, <1>4, HostBacklogAssumption
  <2>2. Cardinality(Executable) <= MaxInflight
    BY <2>1
  <2> QED
    BY <2>2 DEF InflightBounded, Executable
<1> QED
  BY <1>1, <1>2, <1>5 DEF BacklogInv

\* What a pull makes of a row.
LEMMA PullFacts ==
    ASSUME BacklogInv, NEW lapsed \in SUBSET Messages, NEW visited \in SUBSET Messages,
           NEW leased \in SUBSET Messages, PullOnce(lapsed, visited, leased)
    PROVE  /\ row' \in [Messages -> Row]
           /\ \A m \in Messages :
                 \/ row'[m] = row[m]
                 \/ /\ row[m].status \in Live
                    /\ row'[m].status \in {"queued", "leased"}
                    /\ row'[m].status = "queued" => row'[m].attempt < MaxLeases
                 \/ /\ row[m].status \in Live
                    /\ row'[m].status \in {"dead", "expired"} /\ row'[m].completed = now
                    /\ row'[m].status = "expired" => Past(m)
<1> DEFINE back(m) == IF m \in lapsed THEN Reclaims(row[m]) ELSE row[m]
           swept == {m \in visited : back(m).status \in {"queued", "leased"}}
<1>0. /\ BacklogTypeOK /\ now \in Nat /\ MaxLeases \in Nat
      /\ row \in [Messages -> Row]
      /\ \A m \in Messages : RowOK(m)
  BY HostBacklogAssumption DEF BacklogInv, BacklogTypeOK, Row
<1>1. /\ lapsed \subseteq {m \in Messages : row[m].status \in {"leased", "acknowledged"}}
      /\ visited \subseteq {m \in Messages : Past(m)}
      /\ leased \subseteq {m \in Messages \ visited : back(m).status = "queued"}
      /\ row' = [m \in Messages |->
           IF m \in swept THEN [back(m) EXCEPT !.status = "expired", !.completed = now]
           ELSE IF m \in leased THEN [back(m) EXCEPT !.status = "leased", !.held = TRUE,
                                                     !.attempt = @ + 1]
           ELSE back(m)]
  BY DEF PullOnce
<1>2. ASSUME NEW m \in Messages
      PROVE  /\ back(m) \in Row
             /\ back(m) = row[m] \/ (row[m].status \in Live /\ back(m).status \in {"queued", "dead"})
             /\ back(m).status = "queued" => back(m).attempt < MaxLeases
             /\ back(m).status = "dead" => back(m) = row[m] \/ back(m).completed = now
             /\ back(m).status \in {"queued", "leased"} => row[m].status \in Live
  <2>1. CASE m \in lapsed /\ row[m].attempt >= MaxLeases
    <3>1. back(m) = [row[m] EXCEPT !.status = "dead", !.held = FALSE, !.completed = now]
      BY <2>1 DEF Reclaims
    <3>2. row[m] \in Row /\ row[m].status \in Live
      BY <1>0, <1>1, <2>1 DEF Live
    <3> QED
      BY <1>0, <3>1, <3>2 DEF Row, Live, Final
  <2>2. CASE m \in lapsed /\ ~(row[m].attempt >= MaxLeases)
    <3>1. back(m) = [row[m] EXCEPT !.status = "queued", !.held = FALSE]
      BY <2>2 DEF Reclaims
    <3>2. row[m] \in Row /\ row[m].status \in Live
      BY <1>0, <1>1, <2>2 DEF Live
    <3>3. back(m).status = "queued" /\ back(m).attempt = row[m].attempt /\ back(m) \in Row
      BY <3>1, <3>2 DEF Row, Live
    <3>4. row[m].attempt \in 0..MaxLeases
      BY <3>2 DEF Row
    <3>5. back(m).attempt < MaxLeases
      BY <1>0, <2>2, <3>3, <3>4
    <3> QED
      BY <3>2, <3>3, <3>5
  <2>3. CASE m \notin lapsed
    BY <1>0, <2>3 DEF RowOK, Live
  <2> QED
    BY <2>1, <2>2, <2>3
<1> HIDE DEF back
<1>3. ASSUME NEW m \in Messages
      PROVE  /\ row'[m] \in Row
             /\ \/ row'[m] = row[m]
                \/ /\ row[m].status \in Live
                   /\ row'[m].status \in {"queued", "leased"}
                   /\ row'[m].status = "queued" => row'[m].attempt < MaxLeases
                \/ /\ row[m].status \in Live
                   /\ row'[m].status \in {"dead", "expired"} /\ row'[m].completed = now
                   /\ row'[m].status = "expired" => Past(m)
  <2>1. CASE m \in swept
    <3>1. row'[m] = [back(m) EXCEPT !.status = "expired", !.completed = now]
      BY <1>1, <2>1
    <3>2. Past(m) /\ row[m].status \in Live /\ back(m) \in Row
      BY <1>1, <1>2, <2>1
    <3> QED
      BY <1>0, <3>1, <3>2 DEF Row, Final
  <2>2. CASE m \notin swept /\ m \in leased
    <3>1. row'[m] = [back(m) EXCEPT !.status = "leased", !.held = TRUE, !.attempt = @ + 1]
      BY <1>1, <2>2
    <3>2. row[m].status \in Live /\ back(m) \in Row /\ back(m).attempt < MaxLeases
      BY <1>1, <1>2, <2>2
    <3>3. back(m).attempt \in 0..MaxLeases
      BY <3>2 DEF Row
    <3>4. back(m).attempt + 1 \in 0..MaxLeases
      BY <1>0, <3>2, <3>3
    <3>5. row'[m] \in Row /\ row'[m].status = "leased"
      BY <3>1, <3>2, <3>4 DEF Row, Live
    <3> QED
      BY <3>2, <3>5
  <2>3. CASE m \notin swept /\ m \notin leased
    <3>1. row'[m] = back(m)
      BY <1>1, <2>3
    <3> QED
      BY <1>2, <3>1
  <2> QED
    BY <2>1, <2>2, <2>3
<1> QED
  BY <1>1, <1>3

LEMMA BacklogStep_Inv == BacklogInv /\ [BacklogNext]_backlogVars => BacklogInv'
<1> SUFFICES ASSUME BacklogInv, [BacklogNext]_backlogVars PROVE BacklogInv'
  OBVIOUS
<1>0. /\ BacklogTypeOK /\ (\A m \in Messages : RowOK(m)) /\ InflightBounded
      /\ now \in Nat /\ expires \in [Messages -> Nat \cup {Never}]
      /\ row \in [Messages -> Row] /\ insertions \in [Messages -> Nat]
      /\ MessageTtl \in Nat /\ TerminalAge \in Nat /\ MaxLeases \in Nat \ {0}
      /\ MessageTtl <= TerminalAge /\ LastTick \in Nat /\ NoRow \in Row /\ Never = -1
  BY HostBacklogAssumption DEF BacklogInv, BacklogTypeOK, Row, NoRow, Never
<1>1. ASSUME NEW m \in Messages, CreateEnvelope(m) PROVE BacklogInv'
  <2>1. /\ expires[m] = Never /\ expires' = [expires EXCEPT ![m] = now + MessageTtl]
        /\ UNCHANGED <<now, row, window, insertions>>
    BY <1>1 DEF CreateEnvelope
  <2>2. BacklogTypeOK'
    BY <1>0, <2>1 DEF BacklogTypeOK
  <2>3. row[m] = NoRow /\ insertions[m] = 0
    BY <1>0, <2>1 DEF RowOK
  <2>4. \A n \in Messages : expires'[n] = IF n = m THEN now + MessageTtl ELSE expires[n]
    BY <1>0, <2>1
  <2>5. ASSUME NEW n \in Messages PROVE RowOK(n)'
    <3>1. CASE n = m
      BY <1>0, <2>1, <2>3, <2>4, <3>1 DEF RowOK, NoRow, Final, Past
    <3>2. CASE n # m
      BY <1>0, <2>1, <2>4, <3>2 DEF RowOK, Past
    <3> QED
      BY <3>1, <3>2
  <2>6. Executable' \subseteq Executable
    BY <2>1, <2>3, <2>4 DEF Executable, NoRow, Live, Past
  <2> QED
    BY <1>0, <2>2, <2>5, <2>6, NoneJoins DEF BacklogInv
<1>2. ASSUME NEW m \in Messages, AcceptFederationMessage(m) PROVE BacklogInv'
  <2>0. Counted \in [started : Nat \cup {Never}, count : Nat]
    <3>1. window \in [started : Nat \cup {Never}, count : Nat] /\ Rate \in Nat
      BY <1>0, HostBacklogAssumption DEF BacklogTypeOK
    <3> QED
      BY <1>0, <3>1 DEF Counted
  <2>1. /\ expires[m] # Never /\ ~Past(m) /\ window' = Counted
        /\ UNCHANGED <<now, expires>>
    BY <1>2 DEF AcceptFederationMessage
  <2>2. CASE MayStore /\ row[m] = NoRow
    <3> DEFINE r == [row[m] EXCEPT !.status = "queued"]
    <3>1. /\ row' = [row EXCEPT ![m] = r] /\ insertions' = [insertions EXCEPT ![m] = @ + 1]
          /\ Count(Live) < MaxInflight
      BY <1>0, <1>2, <2>2 DEF AcceptFederationMessage, MayStore
    <3>2. r \in Row /\ r.status = "queued" /\ r.attempt = 0
      <4>1. row[m] \in Row /\ row[m].attempt = 0
        BY <1>0, <2>2 DEF NoRow
      <4> QED
        BY <4>1 DEF Row, Live
    <3> HIDE DEF r
    <3>3. insertions[m] = 0
      BY <1>0, <2>1, <2>2 DEF RowOK
    <3>4. /\ \A n \in Messages : row'[n] = IF n = m THEN r ELSE row[n]
          /\ \A n \in Messages : insertions'[n] = IF n = m THEN 1 ELSE insertions[n]
      BY <1>0, <3>1, <3>3
    <3>5. BacklogTypeOK'
      <4>1. row' \in [Messages -> Row] /\ insertions' \in [Messages -> Nat]
        BY <1>0, <3>1, <3>2
      <4>2. /\ now' = now /\ expires' = expires
            /\ window' \in [started : Nat \cup {Never}, count : Nat]
        BY <2>0, <2>1
      <4> QED
        BY <1>0, <4>1, <4>2 DEF BacklogTypeOK, Row
    <3>6. ASSUME NEW n \in Messages PROVE RowOK(n)'
      <4>1. CASE n = m
        BY <1>0, <2>1, <3>2, <3>4, <4>1 DEF RowOK, NoRow, Final, Past
      <4>2. CASE n # m
        BY <1>0, <2>1, <3>4, <4>2 DEF RowOK, Past
      <4> QED
        BY <4>1, <4>2
    <3>7. InflightBounded'
      <4> DEFINE L == {n \in Messages : row[n].status \in Live}
      <4>1. L \in SUBSET Messages /\ IsFiniteSet(L) /\ Cardinality(L) \in Nat
        BY FS_Subset, FS_CardinalityType, HostBacklogAssumption
      <4>2. Cardinality(L) < MaxInflight /\ MaxInflight \in Nat
        BY <3>1, HostBacklogAssumption DEF Count
      <4>3. Executable' \in SUBSET (L \cup {m})
        BY <2>1, <3>4 DEF Executable, Past
      <4> HIDE DEF L
      <4>4. IsFiniteSet(L \cup {m}) /\ Cardinality(L \cup {m}) <= Cardinality(L) + 1
            /\ Cardinality(L \cup {m}) \in Nat
        BY <4>1, FS_AddElement
      <4>5. Cardinality(Executable') <= Cardinality(L \cup {m}) /\ Cardinality(Executable') \in Nat
        BY <4>3, <4>4, FS_Subset, FS_CardinalityType
      <4>6. Cardinality(Executable') <= MaxInflight
        BY <4>1, <4>2, <4>4, <4>5
      <4> QED
        BY <4>6 DEF InflightBounded, Executable
    <3> QED
      BY <3>5, <3>6, <3>7 DEF BacklogInv
  <2>3. CASE ~(MayStore /\ row[m] = NoRow)
    <3>1. UNCHANGED <<row, insertions>>
      BY <1>2, <2>3 DEF AcceptFederationMessage
    <3>2. BacklogTypeOK'
      BY <1>0, <2>0, <2>1, <3>1 DEF BacklogTypeOK
    <3>3. \A n \in Messages : RowOK(n)'
      BY <1>0, <2>1, <3>1 DEF RowOK, Past
    <3>4. Executable' \subseteq Executable
      BY <2>1, <3>1 DEF Executable, Past
    <3> QED
      BY <1>0, <3>2, <3>3, <3>4, NoneJoins DEF BacklogInv
  <2> QED
    BY <2>2, <2>3
<1>3. ASSUME NEW m \in Messages, AckFederationMessage(m) PROVE BacklogInv'
  <2> DEFINE r == [row[m] EXCEPT !.status = "acknowledged"]
  <2>1. /\ row[m].status \in {"leased", "expired"} /\ row' = [row EXCEPT ![m] = r]
        /\ UNCHANGED <<now, expires, window, insertions>>
    BY <1>0, <1>3 DEF AckFederationMessage
  <2>2. r \in Row /\ r.status = "acknowledged"
    BY <1>0 DEF Row, Live
  <2> HIDE DEF r
  <2>3. \A n \in Messages : row'[n] = IF n = m THEN r ELSE row[n]
    BY <1>0, <2>1
  <2>4. BacklogTypeOK'
    BY <1>0, <2>1, <2>2 DEF BacklogTypeOK, Row
  <2>5. ASSUME NEW n \in Messages PROVE RowOK(n)'
    <3>1. CASE n = m
      BY <1>0, <2>1, <2>2, <2>3, <3>1 DEF RowOK, NoRow, Final, Past
    <3>2. CASE n # m
      BY <1>0, <2>1, <2>3, <3>2 DEF RowOK, Past
    <3> QED
      BY <3>1, <3>2
  <2>6. Executable' \subseteq Executable
    BY <1>0, <2>1, <2>3 DEF Executable, Past, RowOK, Live
  <2> QED
    BY <1>0, <2>4, <2>5, <2>6, NoneJoins DEF BacklogInv
<1>4. ASSUME NEW m \in Messages, NEW verdict \in {"delivered", "failed"},
             CompleteFederationMessage(m, verdict)
      PROVE  BacklogInv'
  <2> DEFINE r == [row[m] EXCEPT !.status = verdict, !.held = FALSE, !.completed = now]
  <2>1. /\ row[m].held /\ row' = [row EXCEPT ![m] = r]
        /\ UNCHANGED <<now, expires, window, insertions>>
    BY <1>0, <1>4 DEF CompleteFederationMessage
  <2>2. r \in Row /\ r.status = verdict /\ r.completed = now
    BY <1>0 DEF Row, Final
  <2> HIDE DEF r
  <2>3. \A n \in Messages : row'[n] = IF n = m THEN r ELSE row[n]
    BY <1>0, <2>1
  <2>4. BacklogTypeOK'
    BY <1>0, <2>1, <2>2 DEF BacklogTypeOK, Row
  <2>5. insertions[m] # 0
    BY <1>0, <2>1 DEF RowOK, NoRow
  <2>6. ASSUME NEW n \in Messages PROVE RowOK(n)'
    <3>1. CASE n = m
      BY <1>0, <2>1, <2>2, <2>3, <2>5, <3>1 DEF RowOK, NoRow, Final, Past
    <3>2. CASE n # m
      BY <1>0, <2>1, <2>3, <3>2 DEF RowOK, Past
    <3> QED
      BY <3>1, <3>2
  <2>7. Executable' \subseteq Executable
    BY <2>1, <2>2, <2>3 DEF Executable, Past, Live
  <2> QED
    BY <1>0, <2>4, <2>6, <2>7, NoneJoins DEF BacklogInv
<1>5. ASSUME NEW lapsed \in SUBSET Messages, NEW visited \in SUBSET Messages,
             NEW leased \in SUBSET Messages, PullOnce(lapsed, visited, leased)
      PROVE  BacklogInv'
  <2>1. UNCHANGED <<now, expires, window, insertions>>
    BY <1>5 DEF PullOnce
  <2>2. /\ row' \in [Messages -> Row]
        /\ \A m \in Messages :
              \/ row'[m] = row[m]
              \/ /\ row[m].status \in Live
                 /\ row'[m].status \in {"queued", "leased"}
                 /\ row'[m].status = "queued" => row'[m].attempt < MaxLeases
              \/ /\ row[m].status \in Live
                 /\ row'[m].status \in {"dead", "expired"} /\ row'[m].completed = now
                 /\ row'[m].status = "expired" => Past(m)
    BY <1>5, PullFacts
  <2>3. BacklogTypeOK'
    BY <1>0, <2>1, <2>2 DEF BacklogTypeOK, Row
  <2>4. ASSUME NEW m \in Messages PROVE RowOK(m)'
    <3>1. CASE row'[m] = row[m]
      BY <1>0, <2>1, <3>1 DEF RowOK, Past
    <3>2. CASE row[m].status \in Live /\ row'[m] # row[m]
      <4>1. insertions[m] # 0
        BY <1>0, <3>2 DEF RowOK, NoRow, Live
      <4>2. row'[m].status \notin {"absent"} /\ row'[m] # NoRow
        BY <2>2, <3>2 DEF NoRow
      <4> QED
        BY <1>0, <2>1, <2>2, <3>2, <4>1, <4>2 DEF RowOK, Past, Final
    <3> QED
      BY <2>2, <3>1, <3>2
  <2>5. Executable' \subseteq Executable
    BY <2>1, <2>2 DEF Executable, Past, Live
  <2> QED
    BY <1>0, <2>3, <2>4, <2>5, NoneJoins DEF BacklogInv
<1>6. CASE ClockMoves
  <2>1. now' = now + 1 /\ now < LastTick /\ UNCHANGED <<expires, row, window, insertions>>
    BY <1>6 DEF ClockMoves
  <2>2. BacklogTypeOK'
    BY <1>0, <2>1 DEF BacklogTypeOK
  <2>3. ASSUME NEW m \in Messages PROVE RowOK(m)'
    BY <1>0, <2>1 DEF RowOK, Past
  <2>4. Executable' \subseteq Executable
    BY <1>0, <2>1 DEF Executable, Past
  <2> QED
    BY <1>0, <2>2, <2>3, <2>4, NoneJoins DEF BacklogInv
<1>7. CASE HostStarts
  <2>1. /\ row' = [m \in Messages |-> IF OldEnough(m) THEN NoRow ELSE row[m]]
        /\ window' = NoWindow /\ UNCHANGED <<now, expires, insertions>>
    BY <1>7 DEF HostStarts
  <2>2. BacklogTypeOK'
    BY <1>0, <2>1 DEF BacklogTypeOK, Row, NoWindow
  <2>3. ASSUME NEW m \in Messages PROVE RowOK(m)'
    <3>1. CASE OldEnough(m)
      <4>1. Past(m)
        BY <1>0, <3>1 DEF OldEnough, RowOK, Past
      <4> QED
        BY <1>0, <2>1, <3>1, <4>1 DEF RowOK, Past, NoRow, Final
    <3>2. CASE ~OldEnough(m)
      BY <1>0, <2>1, <3>2 DEF RowOK, Past
    <3> QED
      BY <3>1, <3>2
  <2>4. Executable' \subseteq Executable
    BY <2>1 DEF Executable, Past, NoRow, Live
  <2> QED
    BY <1>0, <2>2, <2>3, <2>4, NoneJoins DEF BacklogInv
<1>8. CASE UNCHANGED backlogVars
  <2>1. BacklogTypeOK' /\ (\A m \in Messages : RowOK(m)')
    BY <1>0, <1>8 DEF backlogVars, BacklogTypeOK, RowOK, Past
  <2>2. Executable' \subseteq Executable
    BY <1>8 DEF backlogVars, Executable, Past
  <2> QED
    BY <1>0, <2>1, <2>2, NoneJoins DEF BacklogInv
<1> QED
  BY ONLY [BacklogNext]_backlogVars, <1>1, <1>2, <1>3, <1>4, <1>5, <1>6, <1>7, <1>8
  DEF BacklogNext

\* The invariant of the Host's backlog holds.
THEOREM BacklogInvariance == BacklogSpec => []BacklogInv
BY BacklogInit_Inv, BacklogStep_Inv, PTL DEF BacklogSpec

\* No message is stored a second time and the limit on messages under way holds, for any
\* messages, limits and durations with the retention no shorter than an envelope's life.
THEOREM BacklogIsBoundedHolds == BacklogSpec => []BacklogIsBounded
<1>1. BacklogInv => BacklogIsBounded
  BY DEF BacklogInv, BacklogIsBounded, StoredOnce, RowOK
<1> QED
  BY <1>1, BacklogInvariance, PTL

-----------------------------------------------------------------------------
(* WpRunner. A claim belongs to one process, which posts its prompt once; and   *)
(* the lease it began with, less the time each step so far may have taken, is   *)
(* what is left of it.                                                          *)

\* The steps of a process whose reply still counts, and the time those before took.
Timed == {"pulled", "ack", "dispatch", "running", "wait", "renew", "report"}
TakenBefore(s) == CASE s = "ack"      -> RequestTime
               [] s = "dispatch" -> 2 * RequestTime
               [] s = "running"  -> 2 * RequestTime + DispatchTime
               [] s = "wait"     -> 3 * RequestTime + DispatchTime
               [] s = "renew"    -> 3 * RequestTime + DispatchTime + WaitTime
               [] OTHER          -> 0

LeaseIsEnough == 4 * RequestTime + DispatchTime + WaitTime < LeaseTime

InTime(p) ==
    at[p] \in Timed => held[p] = attempt /\ leaseLeft + spent[p] + TakenBefore(at[p]) >= LeaseTime

WorkerOK(p) ==
    /\ at[p] = "idle" <=> held[p] = 0
    /\ held[p] <= attempt
    /\ at[p] \in {"pulled", "ack", "dispatch"} => posts[held[p]] = 0

OwnersDiffer == \A p, q \in Workers : held[p] = held[q] /\ held[p] # 0 => p = q

PostsOK == \A c \in Attempts : posts[c] <= 1 /\ (posts[c] > 0 => c <= attempt)

WpTypeOK == RunnerTypeOK /\ spent \in [Workers -> Nat]

WpInv ==
    /\ WpTypeOK
    /\ \A p \in Workers : WorkerOK(p)
    /\ OwnersDiffer
    /\ PostsOK
    /\ ReplyIsItsOwn
    /\ LeaseIsEnough => \A p \in Workers : InTime(p)

LEMMA Times ==
    /\ {MaxClaims, LeaseTime, RequestTime, DispatchTime, WaitTime} \subseteq Nat \ {0}
    /\ LimitOf("dispatch") = DispatchTime /\ LimitOf("wait") = WaitTime
    /\ \A s \in Places \ {"dispatch", "wait"} : LimitOf(s) = RequestTime
    /\ \A s \in Places : LimitOf(s) \in Nat
    /\ TakenBefore("pulled") = 0 /\ TakenBefore("report") = 0 /\ TakenBefore("ack") = RequestTime
    /\ TakenBefore("dispatch") = 2 * RequestTime /\ TakenBefore("running") = 2 * RequestTime + DispatchTime
    /\ TakenBefore("wait") = 3 * RequestTime + DispatchTime
    /\ TakenBefore("renew") = 3 * RequestTime + DispatchTime + WaitTime
    /\ \A s \in Timed : TakenBefore(s) \in Nat
<1>1. {MaxClaims, LeaseTime, RequestTime, DispatchTime, WaitTime} \subseteq Nat \ {0}
  BY WpRunnerAssumption
<1>2. /\ LimitOf("dispatch") = DispatchTime /\ LimitOf("wait") = WaitTime
      /\ \A s \in Places \ {"dispatch", "wait"} : LimitOf(s) = RequestTime
  BY DEF LimitOf
<1>3. \A s \in Places : LimitOf(s) \in Nat
  BY <1>1, <1>2
<1>4. /\ TakenBefore("pulled") = 0 /\ TakenBefore("report") = 0 /\ TakenBefore("ack") = RequestTime
      /\ TakenBefore("dispatch") = 2 * RequestTime /\ TakenBefore("running") = 2 * RequestTime + DispatchTime
      /\ TakenBefore("wait") = 3 * RequestTime + DispatchTime
      /\ TakenBefore("renew") = 3 * RequestTime + DispatchTime + WaitTime
  BY DEF TakenBefore
<1>5. \A s \in Timed : TakenBefore(s) \in Nat
  BY <1>1, <1>4 DEF Timed
<1> QED
  BY <1>1, <1>2, <1>3, <1>4, <1>5

LEMMA WpInitial == RunnerInit => WpInv
<1> SUFFICES ASSUME RunnerInit PROVE WpInv
  OBVIOUS
<1>1. WpTypeOK
  <2>1. \A p \in Workers : spent[p] \in 0..LimitOf(at[p]) /\ at[p] \in Places
    <3>1. LimitOf("idle") = RequestTime /\ RequestTime \in Nat
      BY Times DEF Places
    <3>2. \A p \in Workers : spent[p] = 0 /\ at[p] = "idle"
      BY DEF RunnerInit
    <3>3. "idle" \in Places
      BY DEF Places
    <3>4. 0 \in 0..RequestTime
      BY <3>1
    <3> QED
      BY <3>1, <3>2, <3>3, <3>4
  <2>2. NothingStored \in [claim: 0..MaxClaims, text: Texts]
    BY Times DEF NothingStored, Texts
  <2> QED
    BY <2>1, <2>2, Times DEF RunnerInit, WpTypeOK, RunnerTypeOK, Places, Texts
<1> QED
  BY <1>1 DEF RunnerInit, WpInv, WorkerOK, OwnersDiffer, PostsOK, ReplyIsItsOwn, InTime, Timed

\* As long as a process is in time its lease is in force.
LEMMA LeaseLasts ==
    ASSUME WpInv, LeaseIsEnough, NEW p \in Workers, at[p] \in Timed
    PROVE  InForce(p)
<1>1. /\ held[p] = attempt /\ leaseLeft + spent[p] + TakenBefore(at[p]) >= LeaseTime
      /\ leaseLeft \in Nat /\ spent[p] \in 0..LimitOf(at[p])
  BY Times DEF WpInv, WpTypeOK, RunnerTypeOK, InTime
<1>2. TakenBefore(at[p]) + LimitOf(at[p]) < LeaseTime
  BY Times DEF LeaseIsEnough, Timed, Places
<1>3. TakenBefore(at[p]) \in Nat /\ LimitOf(at[p]) \in Nat /\ LeaseTime \in Nat
  BY Times DEF Timed, Places
<1> QED
  BY <1>1, <1>2, <1>3 DEF InForce

\* A process goes on to its next step.
LEMMA GoesOnInTime ==
    ASSUME WpInv, NEW p \in Workers, NEW s \in Places \ {"idle"}, at[p] # "idle",
           WorkerGoesOn(p, s), UNCHANGED <<attempt, stored, held, knowsRun, groupVars>>,
           s \in {"pulled", "ack", "dispatch"} => at[p] \in {"pulled", "ack", "dispatch"},
           taskStatus' \in {"queued", "dispatched", "acknowledged", "running"} \cup Over,
           leaseLeft' \in 0..LeaseTime, leaseLeft' >= leaseLeft,
           text' \in [Workers -> Texts], \A q \in Workers : q # p => text'[q] = text[q],
           s \in {"renew", "report"} /\ knowsRun[p] => text'[p] \in {NoText, held[p]},
           LeaseIsEnough /\ s \in Timed => held[p] = attempt /\ leaseLeft' + TakenBefore(s) >= LeaseTime
    PROVE  WpInv'
<1>1. /\ at' = [at EXCEPT ![p] = s] /\ spent' = [spent EXCEPT ![p] = 0]
      /\ at \in [Workers -> Places] /\ spent \in [Workers -> Nat]
      /\ text \in [Workers -> Texts] /\ leaseLeft \in Nat /\ leaseLeft' \in Nat
      /\ \A q \in Workers : spent[q] \in 0..LimitOf(at[q])
  BY Times DEF WorkerGoesOn, WpInv, WpTypeOK, RunnerTypeOK
<1>2. WpTypeOK'
  <2>1. \A q \in Workers : spent'[q] \in 0..LimitOf(at'[q])
    <3>1. LimitOf(s) \in Nat
      BY Times
    <3>2. ASSUME NEW q \in Workers PROVE spent'[q] \in 0..LimitOf(at'[q])
      <4>1. CASE q = p
        BY <1>1, <3>1, <4>1
      <4>2. CASE q # p
        BY <1>1, <4>2
      <4> QED
        BY <4>1, <4>2
    <3> QED
      BY <3>2
  <2> QED
    BY <1>1, <2>1 DEF WpInv, WpTypeOK, RunnerTypeOK, groupVars
<1>3. ASSUME NEW q \in Workers PROVE WorkerOK(q)'
  BY <1>1 DEF WpInv, WorkerOK, groupVars
<1>4. OwnersDiffer' /\ PostsOK'
  BY DEF WpInv, OwnersDiffer, PostsOK, groupVars
<1>5. ReplyIsItsOwn'
  BY <1>1 DEF WpInv, ReplyIsItsOwn
<1>6. ASSUME LeaseIsEnough, NEW q \in Workers PROVE InTime(q)'
  <2>1. CASE q = p
    BY <1>1, <1>6, <2>1 DEF InTime
  <2>2. CASE q # p
    <3>1. at'[q] = at[q] /\ spent'[q] = spent[q] /\ spent[q] \in Nat
      BY <1>1, <2>2
    <3>2. at[q] \in Timed => TakenBefore(at[q]) \in Nat
      BY Times
    <3>3. at[q] \in Timed => held[q] = attempt /\ leaseLeft + spent[q] + TakenBefore(at[q]) >= LeaseTime
      BY <1>6 DEF WpInv, InTime
    <3>4. LeaseTime \in Nat
      BY Times
    <3> HIDE DEF TakenBefore, Timed
    <3>5. at[q] \in Timed => leaseLeft' + spent[q] + TakenBefore(at[q]) >= LeaseTime
      BY <1>1, <3>1, <3>2, <3>3, <3>4
    <3> QED
      BY <3>1, <3>3, <3>5 DEF InTime
  <2> QED
    BY <2>1, <2>2
<1> QED
  BY <1>2, <1>3, <1>4, <1>5, <1>6 DEF WpInv, LeaseIsEnough

\* A process leaves the task.
LEMMA LeavesInTime ==
    ASSUME WpInv, NEW p \in Workers, at[p] # "idle", WorkerLeaves(p),
           UNCHANGED <<attempt, groupVars>>,
           taskStatus' \in {"queued", "dispatched", "acknowledged", "running"} \cup Over,
           stored' \in [claim: 0..MaxClaims, text: Texts],
           leaseLeft' \in 0..LeaseTime, leaseLeft' = leaseLeft \/ InForce(p)
    PROVE  WpInv'
<1>1. /\ at' = [at EXCEPT ![p] = "idle"] /\ spent' = [spent EXCEPT ![p] = 0]
      /\ held' = [held EXCEPT ![p] = 0] /\ knowsRun' = [knowsRun EXCEPT ![p] = FALSE]
      /\ text' = [text EXCEPT ![p] = NoText]
      /\ at \in [Workers -> Places] /\ spent \in [Workers -> Nat] /\ knowsRun \in [Workers -> BOOLEAN]
      /\ text \in [Workers -> Texts] /\ held \in [Workers -> 0..MaxClaims]
      /\ leaseLeft \in Nat /\ leaseLeft' \in Nat /\ attempt \in Nat
      /\ \A q \in Workers : spent[q] \in 0..LimitOf(at[q])
  BY Times DEF WorkerGoesOn, WorkerLeaves, WpInv, WpTypeOK, RunnerTypeOK
<1>2. WpTypeOK'
  <2>1. \A q \in Workers : spent'[q] \in 0..LimitOf(at'[q])
    <3>1. LimitOf("idle") \in Nat
      BY Times DEF Places
    <3>2. ASSUME NEW q \in Workers PROVE spent'[q] \in 0..LimitOf(at'[q])
      <4>1. CASE q = p
        BY <1>1, <3>1, <4>1
      <4>2. CASE q # p
        BY <1>1, <4>2
      <4> QED
        BY <4>1, <4>2
    <3> QED
      BY <3>2
  <2>2. NoText \in Texts /\ 0 \in 0..MaxClaims /\ "idle" \in Places
    BY Times DEF Texts, Places
  <2> QED
    BY <1>1, <2>1, <2>2 DEF WpInv, WpTypeOK, RunnerTypeOK, groupVars
<1>3. ASSUME NEW q \in Workers PROVE WorkerOK(q)'
  BY <1>1 DEF WpInv, WorkerOK, groupVars
<1>4. OwnersDiffer' /\ PostsOK'
  BY <1>1 DEF WpInv, OwnersDiffer, PostsOK, groupVars
<1>5. ReplyIsItsOwn'
  BY <1>1 DEF WpInv, ReplyIsItsOwn
<1>6. ASSUME LeaseIsEnough, NEW q \in Workers PROVE InTime(q)'
  <2>1. CASE q = p
    BY <1>1, <2>1 DEF InTime, Timed
  <2>2. CASE q # p /\ at[q] \in Timed
    <3>1. InForce(q) /\ held[q] # 0
      BY <1>6, <2>2, LeaseLasts DEF WpInv, WorkerOK, Timed
    <3>2. ~InForce(p)
      BY <2>2, <3>1 DEF InForce, WpInv, OwnersDiffer
    <3> QED
      BY <1>1, <1>6, <2>2, <3>2 DEF WpInv, InTime
  <2>3. CASE q # p /\ at[q] \notin Timed
    BY <1>1, <2>3 DEF InTime
  <2> QED
    BY <2>1, <2>2, <2>3
<1> QED
  BY <1>2, <1>3, <1>4, <1>5, <1>6 DEF WpInv, LeaseIsEnough

LEMMA WpStep == WpInv /\ [RunnerNext]_runnerVars => WpInv'
<1> SUFFICES ASSUME WpInv, [RunnerNext]_runnerVars PROVE WpInv'
  OBVIOUS
<1>0. /\ WpTypeOK
      /\ taskStatus \in {"queued", "dispatched", "acknowledged", "running"} \cup Over
      /\ attempt \in 0..MaxClaims /\ attempt \in Nat /\ leaseLeft \in 0..LeaseTime /\ leaseLeft \in Nat
      /\ stored \in [claim: 0..MaxClaims, text: Texts]
      /\ at \in [Workers -> Places] /\ spent \in [Workers -> Nat]
      /\ \A q \in Workers : spent[q] \in 0..LimitOf(at[q])
      /\ held \in [Workers -> 0..MaxClaims]
      /\ knowsRun \in [Workers -> BOOLEAN] /\ text \in [Workers -> Texts]
      /\ posts \in [Attempts -> Nat] /\ replied \subseteq Attempts
      /\ MaxClaims \in Nat /\ LeaseTime \in Nat /\ LeaseTime > 0
  BY Times DEF WpInv, WpTypeOK, RunnerTypeOK
<1>n. {"pulled", "ack", "dispatch", "running", "unsent", "wait", "renew", "report", "fail"}
         \subseteq Places \ {"idle"}
  BY DEF Places
<1>1. CASE UNCHANGED runnerVars
  <2>1. UNCHANGED <<taskStatus, attempt, leaseLeft, stored, at, spent, held, knowsRun, text, posts, replied>>
    BY <1>1 DEF runnerVars, taskVars, placeVars, replyVars, groupVars
  <2> QED
    BY <2>1 DEF WpInv, WpTypeOK, RunnerTypeOK, WorkerOK, OwnersDiffer, PostsOK, ReplyIsItsOwn,
                InTime, LeaseIsEnough
\* A process goes on.
<1>2. ASSUME NEW p \in Workers, Pulled(p) PROVE WpInv'
  <2>1. /\ at[p] = "pulled" /\ WorkerGoesOn(p, "ack") /\ text' = text
        /\ UNCHANGED <<taskStatus, attempt, leaseLeft, stored, held, knowsRun, groupVars>>
    BY <1>0, <1>2 DEF Pulled, taskVars, replyVars
  <2>2. LeaseIsEnough => held[p] = attempt /\ leaseLeft + TakenBefore("ack") >= LeaseTime
    <3>1. LeaseIsEnough => held[p] = attempt /\ leaseLeft + spent[p] + 0 >= LeaseTime
      BY <2>1, Times DEF WpInv, InTime, Timed
    <3>2. spent[p] \in 0..RequestTime
      BY <1>0, <2>1, Times DEF Places
    <3> QED
      BY <1>0, <3>1, <3>2, Times
  <2> QED
    BY <1>0, <1>n, <2>1, <2>2, GoesOnInTime
<1>3. ASSUME NEW p \in Workers, NEW backend \in BOOLEAN, Acknowledge(p, backend) PROVE WpInv'
  <2>1. CASE InForce(p)
    <3> DEFINE s == IF backend THEN "dispatch" ELSE "fail"
    <3>1. /\ at[p] = "ack" /\ WorkerGoesOn(p, s) /\ text' = text
          /\ taskStatus' = "acknowledged"
          /\ UNCHANGED <<attempt, leaseLeft, stored, held, knowsRun, groupVars>>
      BY <1>0, <1>3, <2>1 DEF Acknowledge, replyVars
    <3>2. LeaseIsEnough /\ s = "dispatch" => held[p] = attempt /\ leaseLeft + TakenBefore(s) >= LeaseTime
      <4>1. LeaseIsEnough => held[p] = attempt /\ leaseLeft + spent[p] + RequestTime >= LeaseTime
        BY <3>1, Times DEF WpInv, InTime, Timed
      <4>2. spent[p] \in 0..RequestTime
        BY <1>0, <3>1, Times DEF Places
      <4> QED
        BY <1>0, <4>1, <4>2, Times
    <3>3. s \in Places \ {"idle"} /\ s \in {"dispatch", "fail"}
      BY <1>0, <1>n
    <3>4. "fail" \notin Timed
      BY DEF Timed
    <3> HIDE DEF s
    <3> QED
      BY <1>0, <3>1, <3>2, <3>3, <3>4, GoesOnInTime
  <2>2. CASE ~InForce(p)
    <3>1. /\ at[p] # "idle" /\ WorkerLeaves(p)
          /\ UNCHANGED <<taskStatus, attempt, leaseLeft, stored, groupVars>>
      BY <1>3, <2>2 DEF Acknowledge, taskVars
    <3> QED
      BY <1>0, <3>1, LeavesInTime
  <2> QED
    BY <2>1, <2>2
<1>4. ASSUME NEW p \in Workers, ReportRunning(p) PROVE WpInv'
  <2> DEFINE s == IF at[p] = "running" THEN "wait" ELSE "fail"
  <2>1. /\ at[p] \in {"running", "unsent"} /\ WorkerGoesOn(p, s) /\ text' = text
        /\ taskStatus' \in {"queued", "dispatched", "acknowledged", "running"} \cup Over
        /\ UNCHANGED <<attempt, leaseLeft, stored, held, knowsRun, groupVars>>
    BY <1>0, <1>4 DEF ReportRunning, replyVars
  <2>2. LeaseIsEnough /\ s = "wait" => held[p] = attempt /\ leaseLeft + TakenBefore(s) >= LeaseTime
    <3>1. s = "wait" => at[p] = "running"
      OBVIOUS
    <3>2. LeaseIsEnough /\ at[p] = "running" =>
             /\ held[p] = attempt
             /\ leaseLeft + spent[p] + (2 * RequestTime + DispatchTime) >= LeaseTime
      BY Times DEF WpInv, InTime, Timed
    <3>3. at[p] = "running" => spent[p] \in 0..RequestTime
      BY <1>0, Times DEF Places
    <3> QED
      BY <1>0, <3>1, <3>2, <3>3, Times
  <2>3. s \in Places \ {"idle"} /\ s \in {"wait", "fail"}
    BY <1>0, <1>n
  <2>4. "fail" \notin Timed
    BY DEF Timed
  <2> HIDE DEF s
  <2> QED
    BY <1>0, <2>1, <2>2, <2>3, <2>4, GoesOnInTime
<1>5. ASSUME NEW p \in Workers, WaitEnds(p) PROVE WpInv'
  <2>1. PICK heard \in Texts :
           /\ text' = [text EXCEPT ![p] = heard]
           /\ knowsRun[p] => heard \in {NoText, held[p]}
    BY <1>0, <1>5 DEF WaitEnds, AcceptedReplies, Texts
  <2>2. /\ at[p] = "wait" /\ WorkerGoesOn(p, "renew")
        /\ UNCHANGED <<taskStatus, attempt, leaseLeft, stored, held, knowsRun, groupVars>>
    BY <1>5 DEF WaitEnds, taskVars
  <2>3. LeaseIsEnough => held[p] = attempt /\ leaseLeft + TakenBefore("renew") >= LeaseTime
    <3>1. LeaseIsEnough => /\ held[p] = attempt
                           /\ leaseLeft + spent[p] + (3 * RequestTime + DispatchTime) >= LeaseTime
      BY <2>2, Times DEF WpInv, InTime, Timed
    <3>2. spent[p] \in 0..WaitTime
      BY <1>0, <2>2, Times DEF Places
    <3> QED
      BY <1>0, <3>1, <3>2, Times
  <2>4. /\ text' \in [Workers -> Texts] /\ \A q \in Workers : q # p => text'[q] = text[q]
        /\ knowsRun[p] => text'[p] \in {NoText, held[p]}
    BY <1>0, <2>1
  <2> QED
    BY <1>0, <1>n, <2>2, <2>3, <2>4, GoesOnInTime
<1>6. ASSUME NEW p \in Workers, Renew(p) PROVE WpInv'
  <2>1. /\ at[p] = "renew" /\ WorkerGoesOn(p, "report") /\ text' = text
        /\ leaseLeft' = IF InForce(p) THEN LeaseTime ELSE leaseLeft
        /\ UNCHANGED <<taskStatus, attempt, stored, held, knowsRun, groupVars>>
    BY <1>0, <1>6 DEF Renew, replyVars
  <2>2. LeaseIsEnough => held[p] = attempt /\ leaseLeft' + TakenBefore("report") >= LeaseTime
    <3>1. LeaseIsEnough => InForce(p)
      BY <2>1, LeaseLasts DEF Timed
    <3> QED
      BY <1>0, <2>1, <3>1, Times DEF InForce
  <2>3. knowsRun[p] => text[p] \in {NoText, held[p]}
    BY <1>0, <2>1 DEF WpInv, ReplyIsItsOwn
  <2>4. leaseLeft' \in 0..LeaseTime /\ leaseLeft' >= leaseLeft
    BY <1>0, <2>1
  <2> QED
    BY <1>0, <1>n, <2>1, <2>2, <2>3, <2>4, GoesOnInTime
\* A process leaves.
<1>7. ASSUME NEW p \in Workers, Report(p) PROVE WpInv'
  <2>1. /\ at[p] # "idle" /\ WorkerLeaves(p) /\ UNCHANGED <<attempt, groupVars>>
        /\ taskStatus' \in {"queued", "dispatched", "acknowledged", "running"} \cup Over
        /\ leaseLeft' \in 0..LeaseTime
        /\ leaseLeft' = leaseLeft \/ InForce(p)
    BY <1>0, <1>7 DEF Report, Over
  <2>2. stored' \in [claim: 0..MaxClaims, text: Texts]
    BY <1>0, <1>7 DEF Report
  <2> QED
    BY <2>1, <2>2, LeavesInTime
<1>8. ASSUME NEW p \in Workers, Dies(p) PROVE WpInv'
  <2>1. /\ at[p] # "idle" /\ WorkerLeaves(p)
        /\ UNCHANGED <<taskStatus, attempt, leaseLeft, stored, groupVars>>
    BY <1>8 DEF Dies, taskVars
  <2> QED
    BY <1>0, <2>1, LeavesInTime
\* The prompt is posted.
<1>9. ASSUME NEW p \in Workers, NEW executed \in BOOLEAN, NEW answered \in BOOLEAN, NEW told \in BOOLEAN,
             Dispatch(p, executed, answered, told)
      PROVE  WpInv'
  <2>0. PICK s \in {"running", "unsent"} : WorkerGoesOn(p, s)
    BY <1>9 DEF Dispatch
  <2>1. /\ at[p] = "dispatch" /\ UNCHANGED <<taskStatus, attempt, leaseLeft, stored, held, text, replied>>
        /\ at' = [at EXCEPT ![p] = s] /\ spent' = [spent EXCEPT ![p] = 0]
        /\ posts' = [posts EXCEPT ![held[p]] = @ + 1] \/ posts' = posts
        /\ \E owns \in BOOLEAN : knowsRun' = [knowsRun EXCEPT ![p] = owns]
    BY <1>9, <2>0 DEF Dispatch, WorkerGoesOn, taskVars
  <2>2. /\ held[p] # 0 /\ held[p] <= attempt /\ posts[held[p]] = 0 /\ held[p] \in Attempts
    BY <1>0, <2>1 DEF WpInv, WorkerOK, Attempts
  <2>3. WpTypeOK'
    <3>1. LimitOf(s) \in Nat /\ s \in Places
      BY Times, <2>0 DEF Places
    <3>2. ASSUME NEW q \in Workers PROVE spent'[q] \in 0..LimitOf(at'[q])
      <4>1. CASE q = p
        BY <1>0, <2>1, <3>1, <4>1
      <4>2. CASE q # p
        BY <1>0, <2>1, <4>2
      <4> QED
        BY <4>1, <4>2
    <3>3. posts' \in [Attempts -> Nat]
      BY <1>0, <2>1, <2>2
    <3> QED
      BY <1>0, <2>1, <3>1, <3>2, <3>3 DEF WpTypeOK, RunnerTypeOK
  <2>4. ASSUME NEW q \in Workers PROVE WorkerOK(q)'
    <3>1. CASE q = p
      BY <1>0, <2>1, <2>0, <3>1 DEF WpInv, WorkerOK
    <3>2. CASE q # p
      <4>1. at'[q] = at[q] /\ held[q] # held[p]
        BY <1>0, <2>1, <2>2, <3>2 DEF WpInv, OwnersDiffer
      <4>2. WorkerOK(q)
        BY DEF WpInv
      <4>3. at[q] \in {"pulled", "ack", "dispatch"} => held[q] \in Attempts
        BY <1>0, <4>2 DEF WorkerOK, Attempts
      <4>4. at[q] \in {"pulled", "ack", "dispatch"} => posts'[held[q]] = posts[held[q]]
        BY <1>0, <2>1, <4>1, <4>3
      <4> QED
        BY <2>1, <4>1, <4>2, <4>4 DEF WorkerOK
    <3> QED
      BY <3>1, <3>2
  <2>5. OwnersDiffer'
    BY <2>1 DEF WpInv, OwnersDiffer
  <2>6. PostsOK'
    BY <1>0, <2>1, <2>2 DEF WpInv, PostsOK
  <2>7. ReplyIsItsOwn'
    BY <1>0, <2>0, <2>1 DEF WpInv, ReplyIsItsOwn
  <2>8. ASSUME LeaseIsEnough, NEW q \in Workers PROVE InTime(q)'
    <3>1. CASE q = p /\ s = "running"
      <4>1. held[p] = attempt /\ leaseLeft + spent[p] + 2 * RequestTime >= LeaseTime
        BY <2>1, <2>8, Times DEF WpInv, InTime, Timed
      <4>2. spent[p] \in 0..DispatchTime
        BY <1>0, <2>1, Times
      <4>3. leaseLeft + 0 + (2 * RequestTime + DispatchTime) >= LeaseTime
        BY <1>0, <4>1, <4>2, Times
      <4>4. at'[p] = "running" /\ spent'[p] = 0
        BY <1>0, <2>1, <3>1
      <4> QED
        BY <2>1, <3>1, <4>1, <4>3, <4>4, Times DEF InTime
    <3>2. CASE q = p /\ s = "unsent"
      BY <1>0, <2>1, <3>2 DEF InTime, Timed
    <3>3. CASE q # p
      BY <1>0, <2>1, <2>8, <3>3 DEF WpInv, InTime
    <3> QED
      BY <2>0, <3>1, <3>2, <3>3
  <2> QED
    BY <2>3, <2>4, <2>5, <2>6, <2>7, <2>8 DEF WpInv, LeaseIsEnough
\* The task is claimed, which needs that no process is in time, or is over.
<1>10. ASSUME NEW p \in Workers, Pull(p) PROVE WpInv'
  <2>1. at[p] = "idle" /\ leaseLeft = 0 /\ UNCHANGED <<stored, knowsRun, text, posts, replied>>
    BY <1>10 DEF Pull, replyVars, groupVars
  <2>2. CASE attempt < MaxClaims /\ attempt' = attempt + 1
    <3>1. /\ held' = [held EXCEPT ![p] = attempt + 1] /\ taskStatus' = "dispatched"
          /\ leaseLeft' = LeaseTime
          /\ at' = [at EXCEPT ![p] = "pulled"] /\ spent' = [spent EXCEPT ![p] = 0]
      BY <1>0, <1>10, <2>2 DEF Pull, WorkerGoesOn
    <3>2. attempt + 1 \in Attempts /\ posts[attempt + 1] = 0
      BY <1>0, <2>2 DEF WpInv, PostsOK, Attempts
    <3>3. WpTypeOK'
      <4>1. LimitOf("pulled") \in Nat /\ "pulled" \in Places
        BY Times, <1>n
      <4>2. ASSUME NEW q \in Workers PROVE spent'[q] \in 0..LimitOf(at'[q])
        <5>1. CASE q = p
          BY <1>0, <3>1, <4>1, <5>1
        <5>2. CASE q # p
          BY <1>0, <3>1, <5>2
        <5> QED
          BY <5>1, <5>2
      <4> QED
        BY <1>0, <2>1, <2>2, <3>1, <4>1, <4>2 DEF WpTypeOK, RunnerTypeOK
    <3>4. ASSUME NEW q \in Workers PROVE WorkerOK(q)'
      BY <1>0, <2>1, <2>2, <3>1, <3>2 DEF WpInv, WorkerOK
    <3>5. OwnersDiffer'
      BY <1>0, <2>1, <2>2, <3>1 DEF WpInv, WorkerOK, OwnersDiffer
    <3>6. PostsOK'
      <4>1. \A c \in Attempts : c \in Nat
        BY DEF Attempts
      <4> QED
        BY <1>0, <2>1, <2>2, <4>1 DEF WpInv, PostsOK
    <3>7. ReplyIsItsOwn'
      BY <1>0, <2>1, <3>1 DEF WpInv, ReplyIsItsOwn
    <3>8. ASSUME LeaseIsEnough, NEW q \in Workers PROVE InTime(q)'
      <4>1. CASE q = p
        <5>1. at'[q] = "pulled" /\ spent'[q] = 0 /\ held'[q] = attempt'
          BY <1>0, <2>2, <3>1, <4>1
        <5> QED
          BY <1>0, <3>1, <5>1, Times DEF InTime
      <4>2. CASE q # p
        <5>1. at[q] \notin Timed
          BY <2>1, <3>8, LeaseLasts DEF InForce
        <5> QED
          BY <1>0, <3>1, <4>2, <5>1 DEF InTime
      <4> QED
        BY <4>1, <4>2
    <3> QED
      BY <3>3, <3>4, <3>5, <3>6, <3>7, <3>8 DEF WpInv, LeaseIsEnough
  <2>3. CASE UNCHANGED <<attempt, leaseLeft, placeVars>>
    <3>1. UNCHANGED <<attempt, leaseLeft, at, spent, held>> /\ taskStatus' \in Over
      BY <1>0, <1>10, <2>3 DEF Pull, placeVars, Over
    <3> QED
      BY <1>0, <2>1, <3>1 DEF WpInv, WpTypeOK, RunnerTypeOK, WorkerOK, OwnersDiffer, PostsOK,
         ReplyIsItsOwn, InTime, LeaseIsEnough
  <2> QED
    BY <1>10, <2>2, <2>3 DEF Pull
<1>11. ASSUME NEW c \in Attempts, AgentReplies(c) PROVE WpInv'
  <2>1. /\ UNCHANGED <<taskStatus, attempt, leaseLeft, stored, at, spent, held, knowsRun, text, posts>>
        /\ replied' \subseteq Attempts
    BY <1>0, <1>11 DEF AgentReplies, taskVars, placeVars, replyVars
  <2> QED
    BY <1>0, <2>1 DEF WpInv, WpTypeOK, RunnerTypeOK, WorkerOK, OwnersDiffer, PostsOK, ReplyIsItsOwn,
       InTime, LeaseIsEnough
\* What a process spends the lease loses.
<1>12. CASE TimePasses
  <2>1. /\ UNCHANGED <<taskStatus, attempt, stored, at, held, knowsRun, text, posts, replied>>
        /\ spent' = [q \in Workers |-> IF at[q] = "idle" THEN 0 ELSE spent[q] + 1]
        /\ \A q \in Workers : at[q] # "idle" => spent[q] < LimitOf(at[q])
        /\ leaseLeft' = IF leaseLeft > 0 THEN leaseLeft - 1 ELSE 0
    BY <1>12 DEF TimePasses, replyVars, groupVars
  <2>2. WpTypeOK'
    <3>1. ASSUME NEW q \in Workers PROVE spent'[q] \in 0..LimitOf(at'[q])
      <4>1. LimitOf(at[q]) \in Nat
        BY <1>0, Times
      <4> QED
        BY <1>0, <2>1, <4>1
    <3>2. leaseLeft' \in 0..LeaseTime /\ spent' \in [Workers -> Nat]
      BY <1>0, <2>1
    <3> QED
      BY <1>0, <2>1, <3>1, <3>2 DEF WpTypeOK, RunnerTypeOK
  <2>3. ASSUME NEW q \in Workers PROVE WorkerOK(q)'
    BY <2>1 DEF WpInv, WorkerOK
  <2>4. OwnersDiffer' /\ PostsOK' /\ ReplyIsItsOwn'
    BY <2>1 DEF WpInv, OwnersDiffer, PostsOK, ReplyIsItsOwn
  <2>5. ASSUME LeaseIsEnough, NEW q \in Workers, at[q] \in Timed PROVE InTime(q)'
    <3>1. leaseLeft > 0
      BY <2>5, LeaseLasts DEF InForce
    <3>2. spent'[q] = spent[q] + 1 /\ leaseLeft' = leaseLeft - 1
      BY <1>0, <2>1, <2>5, <3>1 DEF Timed
    <3>3. held[q] = attempt /\ leaseLeft + spent[q] + TakenBefore(at[q]) >= LeaseTime
      BY <2>5 DEF WpInv, InTime
    <3>4. TakenBefore(at[q]) \in Nat /\ spent[q] \in Nat
      BY <1>0, <2>5, Times
    <3>5. leaseLeft' + spent'[q] + TakenBefore(at[q]) >= LeaseTime
      BY <1>0, <3>2, <3>3, <3>4
    <3> QED
      BY <2>1, <3>3, <3>5 DEF InTime
  <2>6. ASSUME LeaseIsEnough, NEW q \in Workers PROVE InTime(q)'
    BY <2>1, <2>5, <2>6 DEF InTime
  <2> QED
    BY <2>2, <2>3, <2>4, <2>6 DEF WpInv, LeaseIsEnough
<1> QED
  BY ONLY [RunnerNext]_runnerVars, <1>1, <1>2, <1>3, <1>4, <1>5, <1>6, <1>7, <1>8, <1>9, <1>10,
          <1>11, <1>12
  DEF RunnerNext

\* The loop's invariant holds throughout.
LEMMA WpInvariance == RunnerSpec => []WpInv
  BY WpInitial, WpStep, PTL DEF RunnerSpec

\* One prompt, one reply, and the reply is heard: for any number of processes and
\* claims, and any durations.
THEOREM OnePromptOneReplyHolds == RunnerSpec => []OnePromptOneReply
<1>1. WpInv => OnePromptOneReply
  <2> SUFFICES ASSUME WpInv PROVE OnePromptOneReply
    OBVIOUS
  <2>1. PostedOncePerClaim /\ ReplyIsItsOwn
    BY DEF WpInv, PostsOK, PostedOncePerClaim
  <2>2. ReplyInTimeCounts
    BY LeaseLasts DEF ReplyInTimeCounts, LeaseIsEnough, Timed
  <2> QED
    BY <2>1, <2>2 DEF OnePromptOneReply
<1> QED
  BY <1>1, WpInitial, WpStep, PTL DEF RunnerSpec

\* What the relay's row says together: a lease in force is a hold, and a result is
\* stored with the end it made.
RowAgrees ==
    /\ leaseLeft > 0 => taskStatus \in {"dispatched", "acknowledged", "running"}
    /\ taskStatus = "queued" <=> attempt = 0
    /\ taskStatus \in {"completed", "failed"} =>
         stored.claim \in 1..MaxClaims /\ (taskStatus = "failed" <=> stored.text = NoText)
    /\ taskStatus \notin {"completed", "failed"} => stored = NothingStored

\* A result is reported by a process with a claim, and only while that holds the task.
LEMMA InForceHolds ==
    ASSUME WpInv, RowAgrees, NEW p \in Workers, at[p] # "idle", InForce(p)
    PROVE  /\ held[p] = attempt /\ attempt \in 1..MaxClaims
           /\ taskStatus \in {"dispatched", "acknowledged", "running"}
           /\ stored = NothingStored
<1>1. held[p] = attempt /\ held[p] # 0 /\ attempt \in 0..MaxClaims
  BY DEF WpInv, WorkerOK, InForce, WpTypeOK, RunnerTypeOK
<1> QED
  BY <1>1, WpRunnerAssumption DEF RowAgrees, InForce

\* What a step may do to the row of the task.
Kept == UNCHANGED <<taskStatus, attempt, stored>>
Held == /\ taskStatus \in {"dispatched", "acknowledged", "running"}
        /\ taskStatus' \in {"acknowledged", "running"}
        /\ UNCHANGED <<attempt, stored>>
Claimed == /\ taskStatus \notin Over /\ attempt < MaxClaims
           /\ taskStatus' = "dispatched" /\ attempt' = attempt + 1
           /\ UNCHANGED stored
Died == /\ taskStatus \notin Over /\ attempt = MaxClaims
        /\ taskStatus' = "dead" /\ UNCHANGED <<attempt, stored>>
Reported ==
    /\ taskStatus \in {"dispatched", "acknowledged", "running"}
    /\ attempt \in 1..MaxClaims /\ stored = NothingStored
    /\ stored' = [claim |-> attempt, text |-> stored'.text]
    /\ taskStatus' = IF stored'.text = NoText THEN "failed" ELSE "completed"
    /\ UNCHANGED attempt

LEMMA RowStep ==
    ASSUME WpInv, RowAgrees, [RunnerNext]_runnerVars
    PROVE  /\ Kept \/ Held \/ Claimed \/ Died \/ Reported
           /\ RowAgrees'
<1>0. /\ leaseLeft \in Nat /\ attempt \in 0..MaxClaims /\ MaxClaims \in Nat \ {0}
      /\ taskStatus \in {"queued", "dispatched", "acknowledged", "running"} \cup Over
  BY Times DEF WpInv, WpTypeOK, RunnerTypeOK
<1>1. ASSUME Kept, leaseLeft' > 0 => leaseLeft > 0
      PROVE  RowAgrees'
  BY <1>1 DEF Kept, RowAgrees
<1>2. ASSUME NEW p \in Workers, Pull(p)
      PROVE  (Claimed \/ Died) /\ RowAgrees'
  <2>1. CASE attempt < MaxClaims
    <3>1. Claimed
      BY <1>0, <1>2, <2>1 DEF Pull, Claimed
    <3>2. attempt' # 0 /\ taskStatus' = "dispatched"
      BY <1>0, <3>1 DEF Claimed
    <3>3. stored' = NothingStored
      BY <3>1 DEF Claimed, RowAgrees, Over
    <3> QED
      BY <3>1, <3>2, <3>3 DEF RowAgrees
  <2>2. CASE attempt = MaxClaims
    <3>1. Died /\ leaseLeft = 0 /\ leaseLeft' = leaseLeft
      BY <1>0, <1>2, <2>2 DEF Pull, Died
    <3>2. attempt' # 0 /\ taskStatus' = "dead" /\ ~(leaseLeft' > 0)
      BY <1>0, <3>1 DEF Died
    <3>3. stored' = NothingStored
      BY <3>1 DEF Died, RowAgrees, Over
    <3> QED
      BY <3>1, <3>2, <3>3 DEF RowAgrees
  <2> QED
    BY <1>0, <2>1, <2>2
<1>3. ASSUME NEW p \in Workers, NEW backend \in BOOLEAN, Acknowledge(p, backend)
      PROVE  (Kept \/ Held) /\ RowAgrees'
  <2>1. CASE InForce(p)
    <3>1. taskStatus' = "acknowledged" /\ UNCHANGED <<attempt, leaseLeft, stored>> /\ at[p] = "ack"
      BY <1>3, <2>1 DEF Acknowledge
    <3>2. Held
      BY <2>1, <3>1, InForceHolds DEF Held
    <3> QED
      BY <3>1, <3>2 DEF Held, RowAgrees
  <2>2. CASE ~InForce(p)
    BY <1>1, <1>3, <2>2 DEF Acknowledge, Kept, taskVars
  <2> QED
    BY <2>1, <2>2
<1>4. ASSUME NEW p \in Workers, ReportRunning(p)
      PROVE  (Kept \/ Held) /\ RowAgrees'
  <2>1. UNCHANGED <<attempt, leaseLeft, stored>> /\ at[p] # "idle"
    BY <1>4 DEF ReportRunning
  <2>2. CASE InForce(p)
    <3>1. Held /\ taskStatus' = "running"
      BY <1>4, <2>1, <2>2, InForceHolds DEF ReportRunning, Held
    <3> QED
      BY <2>1, <3>1 DEF Held, RowAgrees
  <2>3. CASE ~InForce(p)
    BY <1>1, <1>4, <2>1, <2>3 DEF ReportRunning, Kept
  <2> QED
    BY <2>2, <2>3
<1>5. ASSUME NEW p \in Workers, Renew(p)
      PROVE  Kept /\ RowAgrees'
  <2>1. Kept /\ (leaseLeft' > 0 => leaseLeft > 0)
    BY <1>5 DEF Renew, Kept, InForce
  <2> QED
    BY <1>1, <2>1
<1>6. ASSUME NEW p \in Workers, Report(p)
      PROVE  (Kept \/ Reported) /\ RowAgrees'
  <2>1. CASE InForce(p)
    <3>1. /\ at[p] # "idle" /\ stored' = [claim |-> held[p], text |-> text[p]]
          /\ taskStatus' = IF text[p] = NoText THEN "failed" ELSE "completed"
          /\ leaseLeft' = 0 /\ attempt' = attempt
      BY <1>6, <2>1 DEF Report
    <3>2. Reported
      BY <2>1, <3>1, InForceHolds DEF Reported
    <3> QED
      BY <3>1, <3>2 DEF Reported, RowAgrees
  <2>2. CASE ~InForce(p)
    BY <1>1, <1>6, <2>2 DEF Report, Kept
  <2> QED
    BY <2>1, <2>2
<1>7. ASSUME \/ \E p \in Workers : Pulled(p) \/ WaitEnds(p) \/ Dies(p)
             \/ \E p \in Workers : \E executed, answered, told \in BOOLEAN :
                    Dispatch(p, executed, answered, told)
             \/ \E c \in Attempts : AgentReplies(c)
             \/ UNCHANGED runnerVars
      PROVE  Kept /\ RowAgrees'
  <2>1. UNCHANGED taskVars
    BY <1>7 DEF Pulled, WaitEnds, Dies, Dispatch, AgentReplies, runnerVars, taskVars
  <2> QED
    BY <1>1, <2>1 DEF Kept, taskVars
<1>8. ASSUME TimePasses
      PROVE  Kept /\ RowAgrees'
  <2>1. Kept /\ (leaseLeft' > 0 => leaseLeft > 0)
    BY <1>0, <1>8 DEF TimePasses, Kept
  <2> QED
    BY <1>1, <2>1
<1> QED
  BY ONLY [RunnerNext]_runnerVars, <1>2, <1>3, <1>4, <1>5, <1>6, <1>7, <1>8 DEF RunnerNext

\* Each of the five is a move of the job, or none.
LEMMA JobMoves ==
    ASSUME RowAgrees, RowAgrees', WpTypeOK, WpTypeOK',
           Kept \/ Held \/ Claimed \/ Died \/ Reported
    PROVE  [Queue!Next]_WpJob
<1> DEFINE old == WpJob[TheTask]
           new == WpJob'[TheTask]
<1>0. /\ old = [phase |-> TaskPhase, claims |-> attempt, outcomes |-> TaskOutcomes]
      /\ new = [phase |-> TaskPhase', claims |-> attempt', outcomes |-> TaskOutcomes']
  BY DEF WpJob
<1>1. WpJob' \in [{TheTask} -> Queue!JobState]
  <2>1. TaskPhase' \in Queue!Phase
    BY DEF TaskPhase, Queue!Phase
  <2>2. attempt' \in 0..MaxClaims
    BY DEF WpTypeOK, RunnerTypeOK
  <2>3. TaskOutcomes' \in SUBSET Queue!GivenOutcome
    BY DEF TaskOutcomes, RowAgrees, Queue!GivenOutcome, Queue!Results
  <2> QED
    BY <2>1, <2>2, <2>3 DEF WpJob, Queue!JobState
<1>2. ASSUME Queue!Moves(TheTask) \/ new = old
      PROVE  [Queue!Next]_WpJob
  BY <1>1, <1>2 DEF Queue!Next, WpJob
<1>3. CASE Kept
  <2>1. TaskPhase' = TaskPhase /\ TaskOutcomes' = TaskOutcomes /\ attempt' = attempt
    BY <1>3 DEF Kept, TaskPhase, TaskOutcomes
  <2> QED
    BY <1>0, <1>2, <2>1
<1>4. CASE Held
  <2>1. TaskPhase' = TaskPhase /\ TaskOutcomes' = TaskOutcomes /\ attempt' = attempt
    BY <1>4 DEF Held, TaskPhase, TaskOutcomes
  <2> QED
    BY <1>0, <1>2, <2>1
<1>5. CASE Claimed
  <2>1. /\ TaskPhase \in {"pending", "held"} /\ TaskPhase' = "held"
        /\ TaskOutcomes' = TaskOutcomes
    BY <1>5 DEF Claimed, TaskPhase, TaskOutcomes, Over
  <2>2. Queue!Claim(TheTask)
    BY <1>0, <1>5, <2>1 DEF Claimed, Queue!Claim, WpJob
  <2> QED
    BY <1>2, <2>2 DEF Queue!Moves
<1>6. CASE Died
  <2>1. taskStatus \in {"dispatched", "acknowledged", "running"}
    BY <1>6, WpRunnerAssumption DEF Died, RowAgrees, WpTypeOK, RunnerTypeOK, Over
  <2>2. TaskPhase = "held" /\ TaskPhase' = "dead" /\ TaskOutcomes' = TaskOutcomes
    BY <1>6, <2>1 DEF Died, TaskPhase, TaskOutcomes
  <2>3. Queue!GiveUp(TheTask)
    BY <1>0, <1>6, <2>2 DEF Died, Queue!GiveUp, Queue!Goes, WpJob
  <2> QED
    BY <1>2, <2>3 DEF Queue!Moves
<1>7. CASE Reported
  <2> DEFINE report == IF stored'.text = NoText THEN "failed" ELSE "completed"
  <2>1. /\ TaskPhase = "held" /\ TaskPhase' = IF report = "completed" THEN "done" ELSE "closed"
        /\ TaskOutcomes = {}
    BY <1>7 DEF Reported, TaskPhase, TaskOutcomes
  <2>2. stored'.claim = attempt /\ stored' # NothingStored
    BY <1>7 DEF Reported, NothingStored
  <2>3. TaskOutcomes' = {[report |-> report, generation |-> attempt]}
    BY <2>2 DEF TaskOutcomes
  <2>4. report \in Queue!Results
    BY DEF Queue!Results
  <2> HIDE DEF report
  <2>5. Queue!Finish(TheTask, report)
    BY <1>0, <1>7, <2>1, <2>3 DEF Reported, Queue!Finish, WpJob
  <2> QED
    BY <1>2, <2>4, <2>5 DEF Queue!Moves
<1> QED
  BY <1>3, <1>4, <1>5, <1>6, <1>7

\* The relay's side of WpRunner moves its task as the queue of fenced jobs does
\* (KeepsToFencedJobs), for any number of processes and claims and all durations.
THEOREM KeepsToFencedJobsHolds == RunnerSpec => KeepsToFencedJobs
<1>1. RunnerInit => RowAgrees
  BY DEF RunnerInit, RowAgrees
<1>2. WpInv /\ RowAgrees /\ [RunnerNext]_runnerVars => RowAgrees'
  BY RowStep
<1>3. WpInv => WpTypeOK
  BY DEF WpInv
<1>4. WpInv' => WpTypeOK'
  BY <1>3, PTL
<1>5. WpInv /\ WpInv' /\ RowAgrees /\ RowAgrees' /\ [RunnerNext]_runnerVars
        => [Queue!Next]_WpJob
  BY <1>3, <1>4, RowStep, JobMoves
<1> QED
  BY <1>1, <1>2, <1>5, WpInvariance, PTL DEF RunnerSpec, KeepsToFencedJobs

-----------------------------------------------------------------------------
(* CodexExecutor. What an executor may still believe of its lease is bounded by *)
(* what is left of it at the relay and by the time answers take; of children    *)
(* that overlap all but one have lost the lease, and the one that lost it first *)
(* ends the overlap.                                                           *)

\* What is left of the lease of e.
LeaseOf(e) == IF HoldsLease(e) THEN lease ELSE 0

Timely(e) ==
    /\ step[e] = "poll" /\ request[e] = "granted" => LeaseOf(e) + age[e] >= Lease
    /\ step[e] = "ack" /\ request[e] \in {"sent", "granted"} =>
          LeaseOf(e) + age[e] + Delay >= Lease
    /\ step[e] = "running" => deadline[e] <= LeaseOf(e) + 2 * Delay
    /\ step[e] = "running" /\ request[e] = "granted" => LeaseOf(e) + age[e] >= Lease

\* The child of w, which has lost the lease, ends the overlap in time.
Lapsing(w) ==
    /\ ~HoldsLease(w)
    /\ together + deadline[w] <= 2 * Delay + (IF forced THEN Lease ELSE 0)
    /\ request[w] = "granted" => together + (IF forced THEN 0 ELSE Lease) <= age[w]

OneFailureFits == 3 * Delay + 2 * RenewEvery < Lease

\* Renewals are sent when the timer fires, and answered before it fires again.
Paced(e) == step[e] = "running" /\ request[e] # "none" => age[e] + renewal[e] = RenewEvery

\* The time e may have spent since its lease began.
SpentOf(e) == 2 * Delay + (IF failures[e] = 0 THEN 0 ELSE RenewEvery)
                        + (IF request[e] = "none" THEN RenewEvery - renewal[e]
                                                  ELSE RenewEvery + age[e])

Borne(e) ==
    step[e] = "running" /\ ~forced /\ ~settled /\ failures[e] <= 1 =>
        HoldsLease(e) /\ request[e] # "refused" /\ lease + SpentOf(e) >= Lease

OverlapOK ==
    IF Overlapping THEN \E w \in Running : Lapsing(w) ELSE together = 0

ExecutorInv ==
    /\ ExecutorTypeOK
    /\ OverlapOK
    /\ ~forced => \A e \in Executors : Timely(e)
    /\ OneFailureFits => \A e \in Executors : Paced(e) /\ Borne(e)

LEMMA Durations ==
    /\ Lease \in Nat /\ Lease > 0 /\ RenewEvery \in Nat /\ RenewEvery > 0
    /\ Delay \in Nat /\ Delay > 0 /\ Watch \in Nat
    /\ OneFailureFits => Delay < RenewEvery
    /\ Slack = 2 * Delay + Watch
<1>1. Lease <= 3 * RenewEvery + 2
  BY CodexExecutorAssumption
<1> QED
  BY <1>1, CodexExecutorAssumption DEF OneFailureFits, Slack

LEMMA ExecutorTypeStep ==
    ExecutorTypeOK /\ [ExecutorNext]_executorVars => ExecutorTypeOK'
<1> SUFFICES ASSUME ExecutorTypeOK, [ExecutorNext]_executorVars PROVE ExecutorTypeOK'
  OBVIOUS
<1> USE Durations DEF ExecutorTypeOK, relayVars, timerVars, historyVars
<1>1. CASE UNCHANGED executorVars
  BY <1>1 DEF executorVars
<1>2. ASSUME NEW e \in Executors, Polls(e) PROVE ExecutorTypeOK'
  BY <1>2 DEF Polls, Sends
<1>3. ASSUME NEW e \in Executors, TaskPulled(e) PROVE ExecutorTypeOK'
  BY <1>3 DEF TaskPulled, Sends, GoesTo
<1>4. ASSUME NEW e \in Executors, Starts(e) PROVE ExecutorTypeOK'
  BY <1>4 DEF Starts, GoesTo
<1>5. ASSUME NEW e \in Executors, DoesNotStart(e) PROVE ExecutorTypeOK'
  BY <1>5 DEF DoesNotStart, Sends, GoesTo
<1>6. ASSUME NEW e \in Executors, RenewTimer(e) PROVE ExecutorTypeOK'
  BY <1>6 DEF RenewTimer, Sends
<1>7. ASSUME NEW e \in Executors, Renewed(e) PROVE ExecutorTypeOK'
  BY <1>7 DEF Renewed, GoesTo, ChildGone
<1>8. ASSUME NEW e \in Executors, Watchdog(e) PROVE ExecutorTypeOK'
  BY <1>8 DEF Watchdog, GoesTo, ChildGone
<1>9. ASSUME NEW e \in Executors, ResultAnswered(e) PROVE ExecutorTypeOK'
  BY <1>9 DEF ResultAnswered, GoesTo
<1>10. ASSUME NEW e \in Executors, RequestFails(e) PROVE ExecutorTypeOK'
  <2>1. failures' \in [Executors -> 0..3]
    BY <1>10 DEF RequestFails
  <2> QED
    BY <1>10, <2>1 DEF RequestFails, GoesTo
<1>11. ASSUME NEW e \in Executors, NEW started \in BOOLEAN, ChildEnds(e, started)
       PROVE  ExecutorTypeOK'
  BY <1>11 DEF ChildEnds, Sends, GoesTo, ChildGone
<1>12. ASSUME NEW e \in Executors, PollServed(e) PROVE ExecutorTypeOK'
  BY <1>12 DEF PollServed, Answers
<1>13. ASSUME NEW e \in Executors, AckServed(e) PROVE ExecutorTypeOK'
  BY <1>13 DEF AckServed, Answers
<1>14. ASSUME NEW e \in Executors, RenewServed(e) PROVE ExecutorTypeOK'
  BY <1>14 DEF RenewServed, Answers
<1>15. ASSUME NEW e \in Executors, ResultServed(e) PROVE ExecutorTypeOK'
  <2>1. /\ holder' \in Executors \cup {Nobody} /\ lease' \in 0..Lease /\ settled' \in BOOLEAN
    <3>1. CASE HoldsLease(e)
      BY <1>15, <3>1 DEF ResultServed
    <3>2. CASE ~HoldsLease(e)
      <4>1. UNCHANGED <<holder, lease, settled>>
        BY <1>15, <3>2 DEF ResultServed
      <4> QED
        BY <4>1
    <3> QED
      BY <3>1, <3>2
  <2>2. request' \in [Executors -> {"none", "sent", "granted", "refused"}]
    BY <1>15 DEF ResultServed, Answers
  <2> QED
    BY <1>15, <2>1, <2>2 DEF ResultServed
<1>16. CASE OperatorRequeues
  BY <1>16 DEF OperatorRequeues
<1>17. CASE Tick
  <2>1. age' \in [Executors -> 0..Delay]
    BY <1>17 DEF Tick
  <2>2. lease' \in 0..Lease
    BY <1>17 DEF Tick
  <2>3. deadline' \in [Executors -> (-Watch)..Lease]
    BY <1>17 DEF Tick, Running
  <2>4. renewal' \in [Executors -> 0..RenewEvery]
    BY <1>17 DEF Tick, Running
  <2>5. together' \in 0..(Lease + Slack + 1)
    BY <1>17 DEF Tick
  <2> QED
    BY <1>17, <2>1, <2>2, <2>3, <2>4, <2>5 DEF Tick
<1> QED
  BY ONLY [ExecutorNext]_executorVars, <1>1, <1>2, <1>3, <1>4, <1>5, <1>6, <1>7, <1>8, <1>9,
          <1>10, <1>11, <1>12, <1>13, <1>14, <1>15, <1>16, <1>17
  DEF ExecutorNext, ExecutorSteps, RelayServes

LEMMA ExecutorInitial == ExecutorInit => ExecutorInv
<1> SUFFICES ASSUME ExecutorInit PROVE ExecutorInv
  OBVIOUS
<1>1. ExecutorTypeOK
  <2>1. 0 \in 0..Lease /\ 0 \in 0..Delay /\ 0 \in (-Watch)..Lease /\ 0 \in 0..RenewEvery
        /\ 0 \in 0..(Lease + Slack + 1) /\ 0 \in 0..3
    BY Durations
  <2> QED
    BY <2>1 DEF ExecutorInit, ExecutorTypeOK
<1>2. \A e \in Executors : step[e] = "idle"
  BY DEF ExecutorInit
<1>3. OverlapOK
  BY <1>2 DEF ExecutorInit, OverlapOK, Overlapping, Running
<1> QED
  BY <1>1, <1>2, <1>3 DEF ExecutorInv, Timely, Paced, Borne

\* The types, as far as the steps need them.
LEMMA Typed ==
    ASSUME ExecutorTypeOK
    PROVE  /\ lease \in Nat /\ together \in Nat /\ together <= Lease + Slack + 1
           /\ \A e \in Executors :
                 /\ age[e] \in Nat /\ age[e] <= Delay
                 /\ deadline[e] \in Int /\ deadline[e] <= Lease /\ -Watch <= deadline[e]
                 /\ renewal[e] \in Nat /\ renewal[e] <= RenewEvery
                 /\ failures[e] \in Nat
                 /\ LeaseOf(e) \in Nat /\ LeaseOf(e) <= Lease
BY Durations DEF ExecutorTypeOK, LeaseOf

\* An overlap that begins, or begins anew: one of two children has lost the lease.
LEMMA OneHasLapsed ==
    ExecutorTypeOK /\ together = 0 /\ (~forced => \A e \in Executors : Timely(e)) => OverlapOK
<1> SUFFICES ASSUME ExecutorTypeOK, together = 0, ~forced => \A e \in Executors : Timely(e),
                    Overlapping
             PROVE  \E w \in Running : Lapsing(w)
  BY DEF OverlapOK
<1>1. PICK w \in Running : ~HoldsLease(w)
  BY DEF Overlapping, HoldsLease
<1>2. w \in Executors /\ step[w] = "running" /\ LeaseOf(w) = 0
  BY <1>1 DEF Running, LeaseOf
<1>3. CASE forced
  BY <1>1, <1>2, <1>3, Typed, Durations DEF Lapsing
<1>4. CASE ~forced
  BY <1>1, <1>2, <1>4, Typed, Durations DEF Lapsing, Timely
<1> QED
  BY <1>1, <1>3, <1>4

LEMMA OneHasLapsedThen ==
    (ExecutorTypeOK /\ together = 0 /\ (~forced => \A e \in Executors : Timely(e)) => OverlapOK)'
BY OneHasLapsed, PTL

\* What the executors beside e keep.
KeepBut(e) ==
    \A f \in Executors :
        f # e => /\ step'[f] = step[f] /\ request'[f] = request[f] /\ age'[f] = age[f]
                 /\ deadline'[f] = deadline[f] /\ renewal'[f] = renewal[f]
                 /\ failures'[f] = failures[f]

\* The invariant but for the overlap, when the relay is as before.
LEMMA OthersKeep ==
    ASSUME ExecutorInv, NEW e \in Executors, KeepBut(e), UNCHANGED <<relayVars, forced>>,
           ~forced => Timely(e)', OneFailureFits => Paced(e)' /\ Borne(e)'
    PROVE  /\ ~forced' => \A f \in Executors : Timely(f)'
           /\ OneFailureFits => \A f \in Executors : Paced(f)' /\ Borne(f)'
<1>1. UNCHANGED <<holder, lease, settled>>
  BY DEF relayVars
<1>2. ASSUME NEW f \in Executors, f # e
      PROVE  /\ Timely(f)' <=> Timely(f)
             /\ Paced(f)' <=> Paced(f)
             /\ Borne(f)' <=> Borne(f)
  BY <1>1, <1>2 DEF KeepBut, Timely, LeaseOf, HoldsLease, Paced, Borne, SpentOf
<1> QED
  BY <1>2 DEF ExecutorInv

\* e is not running, before or after, and the relay is as before.
LEMMA BesideChildren ==
    ASSUME ExecutorInv, NEW e \in Executors, KeepBut(e), ExecutorTypeOK',
           UNCHANGED <<relayVars, forced, together>>,
           step[e] # "running", step'[e] # "running", ~forced => Timely(e)'
    PROVE  ExecutorInv'
<1>1. Running' = Running /\ (Overlapping' <=> Overlapping)
  BY DEF Running, Overlapping, KeepBut
<1>2. \A w \in Running : Lapsing(w)' <=> Lapsing(w)
  BY DEF Running, KeepBut, Lapsing, HoldsLease, relayVars
<1>3. OverlapOK'
  BY <1>1, <1>2 DEF ExecutorInv, OverlapOK
<1>4. Paced(e)' /\ Borne(e)'
  BY DEF Paced, Borne
<1> QED
  BY <1>3, <1>4, OthersKeep DEF ExecutorInv, OneFailureFits

\* The child of e is gone.
LEMMA ChildIsGone ==
    ASSUME ExecutorInv, NEW e \in Executors, KeepBut(e), ExecutorTypeOK',
           UNCHANGED <<relayVars, forced>>, together' = 0, step'[e] \in {"idle", "submit"}
    PROVE  ExecutorInv'
<1>1. Timely(e)' /\ Paced(e)' /\ Borne(e)'
  BY DEF Timely, Paced, Borne
<1>2. /\ ~forced' => \A f \in Executors : Timely(f)'
      /\ OneFailureFits => \A f \in Executors : Paced(f)' /\ Borne(f)'
  BY <1>1, OthersKeep
<1>3. OverlapOK'
  BY <1>2, OneHasLapsedThen
<1> QED
  BY <1>2, <1>3 DEF ExecutorInv, OneFailureFits

LEMMA ExecutorStep == ExecutorInv /\ [ExecutorNext]_executorVars => ExecutorInv'
<1> SUFFICES ASSUME ExecutorInv, [ExecutorNext]_executorVars PROVE ExecutorInv'
  OBVIOUS
<1>0. ExecutorTypeOK /\ ExecutorTypeOK' /\ OverlapOK
      /\ (~forced => \A f \in Executors : Timely(f))
      /\ (OneFailureFits => \A f \in Executors : Paced(f) /\ Borne(f))
  BY ExecutorTypeStep DEF ExecutorInv
<1>t. /\ step \in [Executors -> {"idle", "poll", "ack", "running", "submit"}]
      /\ request \in [Executors -> {"none", "sent", "granted", "refused"}]
      /\ age \in [Executors -> 0..Delay] /\ deadline \in [Executors -> (-Watch)..Lease]
      /\ renewal \in [Executors -> 0..RenewEvery] /\ failures \in [Executors -> 0..3]
  BY <1>0 DEF ExecutorTypeOK
<1>1. CASE UNCHANGED executorVars
  <2>1. UNCHANGED <<holder, lease, settled, step, request, age, deadline, renewal, forced,
                    together, failures>>
    BY <1>1 DEF executorVars
  <2> QED
    BY <1>0, <2>1 DEF ExecutorInv, OverlapOK, Overlapping, Running, Lapsing, Timely, Paced, Borne,
                      LeaseOf, HoldsLease, SpentOf, OneFailureFits
\* No child has to do with it.
<1>2. ASSUME NEW e \in Executors, Polls(e) PROVE ExecutorInv'
  <2>1. /\ KeepBut(e) /\ UNCHANGED <<relayVars, forced, together>>
        /\ step[e] # "running" /\ step'[e] = "poll" /\ request'[e] = "sent"
    BY <1>t, <1>2 DEF Polls, Sends, KeepBut, timerVars, historyVars
  <2> QED
    BY <1>0, <2>1, BesideChildren DEF Timely
<1>3. ASSUME NEW e \in Executors, TaskPulled(e) PROVE ExecutorInv'
  <2>1. /\ KeepBut(e) /\ UNCHANGED <<relayVars, forced, together>>
        /\ step[e] = "poll"
        /\ \/ request[e] = "granted" /\ step'[e] = "ack" /\ age'[e] = 0
           \/ step'[e] = "idle"
    BY <1>t, <1>3 DEF TaskPulled, Sends, GoesTo, KeepBut, timerVars, historyVars
  <2>2. LeaseOf(e)' = LeaseOf(e)
    BY <2>1 DEF LeaseOf, HoldsLease, relayVars
  <2>3. ~forced => Timely(e)'
    BY <1>0, <2>1, <2>2, Typed, Durations DEF Timely
  <2> QED
    BY <1>0, <2>1, <2>3, BesideChildren
<1>4. ASSUME NEW e \in Executors, DoesNotStart(e) PROVE ExecutorInv'
  <2>1. /\ KeepBut(e) /\ UNCHANGED <<relayVars, forced, together>>
        /\ step[e] # "running" /\ step'[e] \in {"idle", "submit"}
    BY <1>t, <1>4 DEF DoesNotStart, Sends, GoesTo, KeepBut, timerVars, historyVars
  <2> QED
    BY <1>0, <2>1, BesideChildren DEF Timely
<1>5. ASSUME NEW e \in Executors, ResultAnswered(e) PROVE ExecutorInv'
  <2>1. /\ KeepBut(e) /\ UNCHANGED <<relayVars, forced, together>>
        /\ step[e] # "running" /\ step'[e] = "idle"
    BY <1>t, <1>5 DEF ResultAnswered, GoesTo, KeepBut, timerVars, historyVars
  <2> QED
    BY <1>0, <2>1, BesideChildren DEF Timely
<1>6. ASSUME NEW e \in Executors, AckServed(e) PROVE ExecutorInv'
  <2>1. /\ KeepBut(e) /\ UNCHANGED <<relayVars, forced, together>>
        /\ step[e] = "ack" /\ step'[e] = "ack" /\ request[e] = "sent" /\ age'[e] = age[e]
    BY <1>t, <1>6 DEF AckServed, Answers, KeepBut, timerVars, historyVars
  <2>2. LeaseOf(e)' = LeaseOf(e)
    BY <2>1 DEF LeaseOf, HoldsLease, relayVars
  <2>3. ~forced => Timely(e)'
    BY <1>0, <2>1, <2>2 DEF Timely
  <2> QED
    BY <1>0, <2>1, <2>3, BesideChildren
\* A child starts.
<1>7. ASSUME NEW e \in Executors, Starts(e) PROVE ExecutorInv'
  <2>1. /\ KeepBut(e) /\ UNCHANGED <<relayVars, forced, together>>
        /\ step[e] = "ack" /\ request[e] = "granted"
        /\ step'[e] = "running" /\ request'[e] = "none" /\ age'[e] = 0
        /\ deadline'[e] = Lease /\ renewal'[e] = RenewEvery /\ failures'[e] = 0
    BY <1>t, <1>7 DEF Starts, GoesTo, KeepBut
  <2>2. LeaseOf(e)' = LeaseOf(e) /\ UNCHANGED <<holder, lease, settled>>
    BY <2>1 DEF LeaseOf, HoldsLease, relayVars
  <2>3. ~forced => LeaseOf(e) + 2 * Delay >= Lease
    BY <1>0, <2>1, Typed, Durations DEF Timely
  <2>4. ~forced => Timely(e)'
    BY <2>1, <2>2, <2>3 DEF Timely
  <2>5. OneFailureFits => Paced(e)' /\ Borne(e)'
    <3>1. ASSUME OneFailureFits, ~forced PROVE HoldsLease(e) /\ lease + 2 * Delay >= Lease
      BY <1>0, <2>3, <3>1, Durations DEF LeaseOf, OneFailureFits
    <3>2. ASSUME OneFailureFits, ~forced PROVE HoldsLease(e)' /\ lease' + SpentOf(e)' >= Lease
      BY <2>1, <2>2, <3>1, <3>2, Durations DEF HoldsLease, SpentOf
    <3> QED
      BY <2>1, <3>2 DEF Paced, Borne
  <2>6. /\ ~forced' => \A f \in Executors : Timely(f)'
        /\ OneFailureFits => \A f \in Executors : Paced(f)' /\ Borne(f)'
    BY <2>1, <2>4, <2>5, OthersKeep
  <2>7. OverlapOK'
    <3>1. CASE Overlapping
      <4>1. PICK w \in Running : Lapsing(w)
        BY <1>0, <3>1 DEF OverlapOK
      <4>2. w # e /\ w \in Executors
        BY <2>1, <4>1 DEF Running
      <4>3. Lapsing(w)' /\ w \in Running'
        BY <2>1, <2>2, <4>1, <4>2 DEF Lapsing, HoldsLease, KeepBut, Running
      <4>4. Overlapping'
        BY <2>1, <3>1 DEF Overlapping, Running, KeepBut
      <4> QED
        BY <4>3, <4>4 DEF OverlapOK
    <3>2. CASE ~Overlapping
      BY <1>0, <2>1, <2>6, <3>2, OneHasLapsedThen DEF OverlapOK
    <3> QED
      BY <3>1, <3>2
  <2> QED
    BY <1>0, <2>6, <2>7 DEF ExecutorInv, OneFailureFits
\* A child ends.
<1>8. ASSUME NEW e \in Executors, Watchdog(e) PROVE ExecutorInv'
  <2>1. /\ KeepBut(e) /\ UNCHANGED <<relayVars, forced>> /\ together' = 0 /\ step'[e] = "idle"
    BY <1>t, <1>8 DEF Watchdog, GoesTo, ChildGone, KeepBut
  <2> QED
    BY <1>0, <2>1, ChildIsGone
<1>9. ASSUME NEW e \in Executors, NEW started \in BOOLEAN, ChildEnds(e, started) PROVE ExecutorInv'
  <2>1. /\ KeepBut(e) /\ UNCHANGED <<relayVars, forced>> /\ together' = 0
        /\ step'[e] \in {"idle", "submit"}
    BY <1>t, <1>9 DEF ChildEnds, Sends, GoesTo, ChildGone, KeepBut
  <2> QED
    BY <1>0, <2>1, ChildIsGone
<1>10. ASSUME NEW e \in Executors, Renewed(e), request[e] = "refused" PROVE ExecutorInv'
  <2>1. /\ KeepBut(e) /\ UNCHANGED <<relayVars, forced>> /\ together' = 0 /\ step'[e] = "idle"
    BY <1>t, <1>10 DEF Renewed, GoesTo, ChildGone, KeepBut
  <2> QED
    BY <1>0, <2>1, ChildIsGone
\* The child of e goes on, and the relay is as before.
<1>11. ASSUME NEW e \in Executors, KeepBut(e), UNCHANGED <<relayVars, forced, together>>,
              step[e] = "running", step'[e] = "running", ~forced => Timely(e)',
              OneFailureFits => Paced(e)' /\ Borne(e)', Lapsing(e) => Lapsing(e)'
       PROVE  ExecutorInv'
  <2>1. Running' = Running /\ (Overlapping' <=> Overlapping)
    BY <1>11 DEF Running, Overlapping, KeepBut
  <2>2. \A w \in Running : w # e => (Lapsing(w)' <=> Lapsing(w))
    BY <1>11 DEF Running, KeepBut, Lapsing, HoldsLease, relayVars
  <2>3. OverlapOK'
    BY <1>0, <1>11, <2>1, <2>2 DEF OverlapOK
  <2> QED
    BY <1>0, <1>11, <2>3, OthersKeep DEF ExecutorInv, OneFailureFits
<1>12. ASSUME NEW e \in Executors, RenewTimer(e) PROVE ExecutorInv'
  <2>1. /\ KeepBut(e) /\ UNCHANGED <<relayVars, forced, together>>
        /\ step[e] = "running" /\ step'[e] = "running" /\ renewal[e] = 0
        /\ renewal'[e] = RenewEvery /\ deadline'[e] = deadline[e] /\ failures'[e] = failures[e]
        /\ \/ request[e] = "none" /\ request'[e] = "sent" /\ age'[e] = 0
           \/ request[e] # "none" /\ request'[e] = request[e] /\ age'[e] = age[e]
    BY <1>t, <1>12 DEF RenewTimer, Sends, KeepBut, historyVars
  <2>2. LeaseOf(e)' = LeaseOf(e) /\ (HoldsLease(e)' <=> HoldsLease(e))
        /\ UNCHANGED <<holder, lease, settled>>
    BY <2>1 DEF LeaseOf, HoldsLease, relayVars
  <2>3. ~forced => Timely(e)'
    BY <1>0, <2>1, <2>2 DEF Timely
  <2>4. OneFailureFits => Paced(e)' /\ Borne(e)'
    <3>1. OneFailureFits => request[e] = "none"
      BY <1>0, <2>1, Typed, Durations DEF Paced
    <3>2. OneFailureFits => Paced(e)'
      BY <2>1, <3>1, Durations DEF Paced
    <3>3. OneFailureFits => SpentOf(e)' = SpentOf(e)
      BY <2>1, <3>1, Durations DEF SpentOf
    <3>4. OneFailureFits => Borne(e)'
      BY <1>0, <2>1, <2>2, <3>1, <3>3 DEF Borne
    <3> QED
      BY <3>2, <3>4
  <2>5. Lapsing(e) => Lapsing(e)'
    BY <2>1, <2>2 DEF Lapsing
  <2> QED
    BY <1>11, <2>1, <2>3, <2>4, <2>5
<1>13. ASSUME NEW e \in Executors, Renewed(e), request[e] = "granted" PROVE ExecutorInv'
  <2>1. /\ KeepBut(e) /\ UNCHANGED <<relayVars, forced, together>>
        /\ step[e] = "running" /\ step'[e] = "running" /\ request'[e] = "none" /\ age'[e] = 0
        /\ renewal'[e] = renewal[e] /\ deadline'[e] = Lease /\ failures'[e] = 0
    BY <1>t, <1>13 DEF Renewed, GoesTo, KeepBut
  <2>2. LeaseOf(e)' = LeaseOf(e) /\ (HoldsLease(e)' <=> HoldsLease(e))
        /\ UNCHANGED <<holder, lease, settled>>
    BY <2>1 DEF LeaseOf, HoldsLease, relayVars
  <2>3. ~forced => Timely(e)'
    BY <1>0, <1>13, <2>1, <2>2, Typed, Durations DEF Timely
  <2>4. OneFailureFits => Paced(e)' /\ Borne(e)'
    <3>1. ASSUME OneFailureFits, ~forced PROVE HoldsLease(e) /\ lease + age[e] >= Lease
      <4>1. LeaseOf(e) + age[e] >= Lease
        BY <1>0, <1>13, <2>1, <3>1 DEF Timely
      <4>2. LeaseOf(e) > 0
        BY <1>0, <3>1, <4>1, Typed, Durations DEF OneFailureFits
      <4> QED
        BY <4>1, <4>2 DEF LeaseOf
    <3>2. ASSUME OneFailureFits, ~forced PROVE lease' + SpentOf(e)' >= Lease
      <4>1. age[e] + renewal[e] = RenewEvery
        BY <1>0, <1>13, <2>1, <3>2 DEF Paced
      <4>2. SpentOf(e)' = 2 * Delay + 0 + (RenewEvery - renewal[e])
        BY <2>1 DEF SpentOf
      <4> QED
        BY <1>0, <2>2, <3>1, <3>2, <4>1, <4>2, Typed, Durations
    <3> QED
      BY <2>1, <2>2, <3>1, <3>2 DEF Paced, Borne
  <2>5. Lapsing(e) => Lapsing(e)'
    BY <1>0, <1>13, <2>1, <2>2, Typed, Durations DEF Lapsing
  <2> QED
    BY <1>11, <2>1, <2>3, <2>4, <2>5
<1>14. ASSUME NEW e \in Executors, RequestFails(e) PROVE ExecutorInv'
  <2>1. CASE step[e] # "running"
    <3>1. /\ KeepBut(e) /\ UNCHANGED <<relayVars, forced, together>> /\ step'[e] = "idle"
      BY <1>t, <1>14, <2>1 DEF RequestFails, GoesTo, KeepBut, timerVars
    <3> QED
      BY <1>0, <2>1, <3>1, BesideChildren DEF Timely
  <2>2. CASE step[e] = "running"
    <3>1. /\ KeepBut(e) /\ UNCHANGED <<relayVars, forced, together>>
          /\ step'[e] = "running" /\ request[e] # "none" /\ request'[e] = "none" /\ age'[e] = 0
          /\ renewal'[e] = renewal[e] /\ deadline'[e] = deadline[e]
          /\ failures'[e] = IF failures[e] < 3 THEN failures[e] + 1 ELSE failures[e]
      BY <1>t, <1>14, <2>2 DEF RequestFails, GoesTo, KeepBut, timerVars
    <3>2. LeaseOf(e)' = LeaseOf(e) /\ (HoldsLease(e)' <=> HoldsLease(e))
          /\ UNCHANGED <<holder, lease, settled>>
      BY <3>1 DEF LeaseOf, HoldsLease, relayVars
    <3>3. ~forced => Timely(e)'
      BY <1>0, <2>2, <3>1, <3>2 DEF Timely
    <3>4. OneFailureFits => Borne(e)'
      <4> SUFFICES ASSUME OneFailureFits, ~forced, ~settled, failures'[e] <= 1
                   PROVE  HoldsLease(e) /\ lease + SpentOf(e)' >= Lease
        BY <3>1, <3>2 DEF Borne
      <4>1. failures[e] = 0 /\ failures'[e] = 1
        BY <1>0, <3>1, Typed
      <4>2. HoldsLease(e) /\ lease + SpentOf(e) >= Lease
        BY <1>0, <2>2, <4>1 DEF Borne
      <4>3. age[e] + renewal[e] = RenewEvery
        BY <1>0, <2>2, <3>1 DEF Paced
      <4>4. /\ SpentOf(e) = 2 * Delay + 0 + (RenewEvery + age[e])
            /\ SpentOf(e)' = 2 * Delay + RenewEvery + (RenewEvery - renewal[e])
        BY <3>1, <4>1 DEF SpentOf
      <4> QED
        BY <1>0, <4>2, <4>3, <4>4, Typed, Durations
    <3>5. Paced(e)'
      BY <3>1 DEF Paced
    <3>6. Lapsing(e) => Lapsing(e)'
      BY <3>1, <3>2 DEF Lapsing
    <3> QED
      BY <1>11, <2>2, <3>1, <3>3, <3>4, <3>5, <3>6
  <2> QED
    BY <2>1, <2>2
\* A renewal is granted, or refused as the lease is lost.
<1>15. ASSUME NEW e \in Executors, RenewServed(e) PROVE ExecutorInv'
  <2>1. /\ KeepBut(e) /\ UNCHANGED <<holder, settled, forced, together, step, age, deadline,
                                     renewal, failures>>
        /\ step[e] = "running" /\ request[e] = "sent"
        /\ \/ HoldsLease(e) /\ lease' = Lease /\ request'[e] = "granted"
           \/ ~HoldsLease(e) /\ lease' = lease /\ request'[e] = "refused"
        /\ \A f \in Executors : f # e => request'[f] = request[f]
    BY <1>t, <1>15 DEF RenewServed, Answers, KeepBut, timerVars, historyVars
  <2>2. \A f \in Executors :
           /\ HoldsLease(f)' <=> HoldsLease(f)
           /\ LeaseOf(f)' = IF f = e /\ HoldsLease(e) THEN Lease ELSE LeaseOf(f)
    <3>1. \A f \in Executors : f # e => ~(HoldsLease(e) /\ HoldsLease(f))
      BY DEF HoldsLease
    <3> QED
      BY <1>0, <2>1, <3>1, Durations DEF LeaseOf, HoldsLease
  <2>3. ASSUME NEW f \in Executors, ~forced PROVE Timely(f)'
    <3>1. CASE f = e
      BY <1>0, <2>1, <2>2, <2>3, <3>1, Typed, Durations DEF Timely
    <3>2. CASE f # e
      BY <1>0, <2>1, <2>2, <2>3, <3>2 DEF Timely
    <3> QED
      BY <3>1, <3>2
  <2>4. ASSUME NEW f \in Executors, OneFailureFits PROVE Paced(f)' /\ Borne(f)'
    <3>1. CASE f = e
      <4>1. Paced(f)'
        BY <1>0, <2>1, <2>4, <3>1 DEF Paced
      <4>2. SpentOf(e)' \in Nat
        BY <1>0, <2>1, Typed, Durations DEF SpentOf
      <4>3. Borne(f)'
        <5> SUFFICES ASSUME ~forced, ~settled, failures[e] <= 1
                     PROVE  HoldsLease(e)' /\ request'[e] # "refused" /\ lease' + SpentOf(e)' >= Lease
          BY <2>1, <3>1 DEF Borne
        <5>1. HoldsLease(e)
          BY <1>0, <2>1, <2>4 DEF Borne
        <5>2. HoldsLease(e)' /\ lease' = Lease /\ request'[e] = "granted"
          BY <2>1, <2>2, <5>1
        <5> QED
          BY <4>2, <5>2, Durations
      <4> QED
        BY <4>1, <4>3
    <3>2. CASE f # e
      <4>1. HoldsLease(f) => lease' = lease
        BY <2>1, <3>2 DEF HoldsLease
      <4>2. SpentOf(f)' = SpentOf(f)
        BY <2>1, <3>2 DEF SpentOf
      <4> QED
        BY <1>0, <2>1, <2>2, <2>4, <3>2, <4>1, <4>2 DEF Paced, Borne
    <3> QED
      BY <3>1, <3>2
  <2>5. OverlapOK'
    <3>1. Running' = Running /\ (Overlapping' <=> Overlapping)
      BY <2>1 DEF Running, Overlapping
    <3>2. \A w \in Running : Lapsing(w) => Lapsing(w)'
      BY <2>1, <2>2 DEF Running, Lapsing
    <3> QED
      BY <1>0, <2>1, <3>1, <3>2 DEF OverlapOK
  <2> QED
    BY <1>0, <2>1, <2>3, <2>4, <2>5 DEF ExecutorInv, OneFailureFits
\* The relay grants the task, stores a result or takes the task away.
<1>16. ASSUME NEW e \in Executors, PollServed(e) PROVE ExecutorInv'
  <2>1. /\ UNCHANGED <<settled, forced, together, step, age, deadline, renewal, failures>>
        /\ step[e] = "poll" /\ request[e] = "sent"
        /\ \/ lease = 0 /\ holder' = e /\ lease' = Lease /\ request'[e] = "granted"
           \/ holder' = holder /\ lease' = lease /\ request'[e] = "refused"
        /\ \A f \in Executors : f # e => request'[f] = request[f]
    BY <1>t, <1>16 DEF PollServed, Answers, timerVars, historyVars
  <2>2. \A f \in Executors :
           f # e => (HoldsLease(f)' <=> HoldsLease(f)) /\ LeaseOf(f)' = LeaseOf(f)
                    /\ (HoldsLease(f) => lease' = lease)
    BY <1>0, <2>1, Typed DEF LeaseOf, HoldsLease
  <2>3. ASSUME NEW f \in Executors, ~forced PROVE Timely(f)'
    <3>1. CASE f = e /\ request'[e] = "granted"
      <4>1. LeaseOf(e)' = Lease
        BY <2>1, <3>1, Durations DEF LeaseOf, HoldsLease
      <4> QED
        BY <1>0, <2>1, <3>1, <4>1, Typed, Durations DEF Timely
    <3>2. CASE f = e /\ request'[e] = "refused"
      BY <2>1, <3>2 DEF Timely
    <3>3. CASE f # e
      BY <1>0, <2>1, <2>2, <2>3, <3>3 DEF Timely
    <3> QED
      BY <2>1, <3>1, <3>2, <3>3
  <2>4. ASSUME NEW f \in Executors, OneFailureFits PROVE Paced(f)' /\ Borne(f)'
    <3>1. CASE f = e
      BY <2>1, <3>1 DEF Paced, Borne
    <3>2. CASE f # e
      <4>1. SpentOf(f)' = SpentOf(f)
        BY <2>1, <3>2 DEF SpentOf
      <4> QED
        BY <1>0, <2>1, <2>2, <2>4, <3>2, <4>1 DEF Paced, Borne
    <3> QED
      BY <3>1, <3>2
  <2>5. OverlapOK'
    <3>1. Running' = Running /\ (Overlapping' <=> Overlapping)
      BY <2>1 DEF Running, Overlapping
    <3>2. \A w \in Running : Lapsing(w) => Lapsing(w)'
      BY <2>1, <2>2 DEF Running, Lapsing
    <3> QED
      BY <1>0, <2>1, <3>1, <3>2 DEF OverlapOK
  <2> QED
    BY <1>0, <2>1, <2>3, <2>4, <2>5 DEF ExecutorInv, OneFailureFits
<1>17. ASSUME NEW e \in Executors, ResultServed(e) PROVE ExecutorInv'
  <2>1. /\ UNCHANGED <<forced, together, step, age, deadline, renewal, failures>>
        /\ step[e] = "submit"
        /\ \/ HoldsLease(e) /\ holder' = Nobody /\ lease' = 0
           \/ UNCHANGED <<holder, lease>>
        /\ settled => settled'
        /\ \A f \in Executors : f # e => request'[f] = request[f]
    BY <1>t, <1>17 DEF ResultServed, Answers, relayVars, timerVars, historyVars
  <2>2. \A f \in Executors :
           f # e => (HoldsLease(f)' <=> HoldsLease(f)) /\ LeaseOf(f)' = LeaseOf(f)
                    /\ (HoldsLease(f) => lease' = lease)
    BY <1>0, <2>1, Typed DEF LeaseOf, HoldsLease
  <2>3. ASSUME NEW f \in Executors, ~forced PROVE Timely(f)'
    <3>1. CASE f = e
      BY <2>1, <3>1 DEF Timely
    <3>2. CASE f # e
      BY <1>0, <2>1, <2>2, <2>3, <3>2 DEF Timely
    <3> QED
      BY <3>1, <3>2
  <2>4. ASSUME NEW f \in Executors, OneFailureFits PROVE Paced(f)' /\ Borne(f)'
    <3>1. CASE f = e
      BY <2>1, <3>1 DEF Paced, Borne
    <3>2. CASE f # e
      <4>1. SpentOf(f)' = SpentOf(f)
        BY <2>1, <3>2 DEF SpentOf
      <4> QED
        BY <1>0, <2>1, <2>2, <2>4, <3>2, <4>1 DEF Paced, Borne
    <3> QED
      BY <3>1, <3>2
  <2>5. OverlapOK'
    <3>1. Running' = Running /\ (Overlapping' <=> Overlapping)
      BY <2>1 DEF Running, Overlapping
    <3>2. \A w \in Running : Lapsing(w) => Lapsing(w)'
      BY <2>1, <2>2 DEF Running, Lapsing
    <3> QED
      BY <1>0, <2>1, <3>1, <3>2 DEF OverlapOK
  <2> QED
    BY <1>0, <2>1, <2>3, <2>4, <2>5 DEF ExecutorInv, OneFailureFits
<1>18. CASE OperatorRequeues
  <2>1. /\ holder' = Nobody /\ lease' = 0 /\ forced'
        /\ UNCHANGED <<step, request, age, deadline, renewal, together, failures>>
    BY <1>18 DEF OperatorRequeues, timerVars
  <2>2. \A w \in Executors : Lapsing(w) => Lapsing(w)'
    <3>1. ASSUME NEW w \in Executors, Lapsing(w) PROVE Lapsing(w)'
      <4>1. ~HoldsLease(w)'
        BY <2>1 DEF HoldsLease
      <4>2. together + deadline[w] <= 2 * Delay + Lease
        BY <1>0, <3>1, Typed, Durations DEF Lapsing
      <4>3. request[w] = "granted" => together + 0 <= age[w]
        BY <1>0, <3>1, Typed, Durations DEF Lapsing
      <4> QED
        BY <2>1, <4>1, <4>2, <4>3 DEF Lapsing
    <3> QED
      BY <3>1
  <2>3. OverlapOK'
    <3>1. Running' = Running /\ (Overlapping' <=> Overlapping)
      BY <2>1 DEF Running, Overlapping
    <3> QED
      BY <1>0, <2>1, <2>2, <3>1 DEF OverlapOK, Running
  <2>4. OneFailureFits => \A f \in Executors : Paced(f)' /\ Borne(f)'
    BY <1>0, <2>1 DEF Paced, Borne
  <2> QED
    BY <1>0, <2>1, <2>3, <2>4 DEF ExecutorInv, OneFailureFits
\* Time passes for the relay and for all executors alike.
<1>19. CASE Tick
  <2>1. /\ UNCHANGED <<holder, settled, step, request, forced, failures>>
        /\ lease' = IF lease > 0 THEN lease - 1 ELSE 0
        /\ \A f \in Executors :
              /\ request[f] # "none" => age'[f] = age[f] + 1
              /\ f \in Running => deadline'[f] = deadline[f] - 1 /\ renewal'[f] = renewal[f] - 1
        /\ Overlapping => together' <= together + 1
        /\ ~Overlapping => together' = together
    <3>1. Overlapping => together' <= together + 1
      BY <1>0, <1>19, Typed DEF Tick
    <3> QED
      BY <1>t, <1>19, <3>1 DEF Tick
  <2>2. \A f \in Executors :
           /\ HoldsLease(f)' => HoldsLease(f)
           /\ LeaseOf(f)' = IF LeaseOf(f) > 0 THEN LeaseOf(f) - 1 ELSE 0
    BY <1>0, <2>1, Typed DEF LeaseOf, HoldsLease
  <2>3. ASSUME NEW f \in Executors, ~forced PROVE Timely(f)'
    <3>1. CASE step[f] = "poll" \/ step[f] = "ack"
      BY <1>0, <2>1, <2>2, <2>3, <3>1, Typed, Durations DEF Timely
    <3>2. CASE step[f] = "running"
      <4>1. deadline'[f] = deadline[f] - 1
        BY <2>1, <3>2 DEF Running
      <4> QED
        BY <1>0, <2>1, <2>2, <2>3, <3>2, <4>1, Typed, Durations DEF Timely
    <3>3. CASE step[f] \notin {"poll", "ack", "running"}
      BY <2>1, <3>3 DEF Timely
    <3> QED
      BY <3>1, <3>2, <3>3
  <2>4. ASSUME NEW f \in Executors, OneFailureFits PROVE Paced(f)' /\ Borne(f)'
    <3>1. CASE step[f] = "running"
      <4>1. renewal'[f] = renewal[f] - 1 /\ (request[f] # "none" => age'[f] = age[f] + 1)
        BY <2>1, <3>1 DEF Running
      <4>2. Paced(f)'
        BY <1>0, <2>1, <2>4, <3>1, <4>1, Typed, Durations DEF Paced
      <4>3. Borne(f)'
        <5> SUFFICES ASSUME ~forced, ~settled, failures[f] <= 1
                     PROVE  HoldsLease(f)' /\ request[f] # "refused" /\ lease' + SpentOf(f)' >= Lease
          BY <2>1 DEF Borne
        <5>1. HoldsLease(f) /\ request[f] # "refused" /\ lease + SpentOf(f) >= Lease
          BY <1>0, <2>4, <3>1 DEF Borne
        <5>2. SpentOf(f)' = SpentOf(f) + 1
          BY <1>0, <2>1, <4>1, Typed, Durations DEF SpentOf
        <5>3. SpentOf(f)' <= 2 * Delay + RenewEvery + RenewEvery + Delay /\ SpentOf(f) \in Nat
          <6>1. age'[f] <= Delay /\ age'[f] \in Nat /\ renewal'[f] \in Nat
            BY <1>0 DEF ExecutorTypeOK
          <6>2. SpentOf(f)' <= 2 * Delay + RenewEvery + RenewEvery + Delay
            BY <2>1, <6>1, Durations DEF SpentOf
          <6>3. SpentOf(f) \in Nat
            BY <1>0, Typed, Durations DEF SpentOf
          <6> QED
            BY <6>2, <6>3
        <5>4. lease' = lease - 1 /\ lease' \in Nat
          BY <1>0, <2>1, <5>1, Typed DEF HoldsLease
        <5>5. lease' + SpentOf(f)' >= Lease
          BY <1>0, <5>1, <5>2, <5>3, <5>4, Typed, Durations
        <5>6. lease' > 0
          BY <2>4, <5>3, <5>4, <5>5, <5>2, Durations DEF OneFailureFits
        <5> QED
          BY <2>1, <5>1, <5>5, <5>6 DEF HoldsLease
      <4> QED
        BY <4>2, <4>3
    <3>2. CASE step[f] # "running"
      BY <2>1, <3>2 DEF Paced, Borne
    <3> QED
      BY <3>1, <3>2
  <2>5. OverlapOK'
    <3>1. Running' = Running /\ (Overlapping' <=> Overlapping)
      BY <2>1 DEF Running, Overlapping
    <3>2. CASE Overlapping
      <4>1. PICK w \in Running : Lapsing(w)
        BY <1>0, <3>2 DEF OverlapOK
      <4>2. w \in Executors /\ deadline'[w] = deadline[w] - 1
            /\ (request[w] = "granted" => age'[w] = age[w] + 1)
        BY <2>1, <4>1 DEF Running
      <4>3. together' \in Nat
        BY <1>0 DEF ExecutorTypeOK
      <4>4. Lapsing(w)'
        BY <1>0, <2>1, <2>2, <3>2, <4>1, <4>2, <4>3, Typed, Durations DEF Lapsing
      <4> QED
        BY <3>1, <3>2, <4>1, <4>4 DEF OverlapOK
    <3>3. CASE ~Overlapping
      BY <1>0, <2>1, <3>1, <3>3 DEF OverlapOK
    <3> QED
      BY <3>2, <3>3
  <2> QED
    BY <1>0, <2>1, <2>3, <2>4, <2>5 DEF ExecutorInv, OneFailureFits
<1>20. ASSUME NEW e \in Executors, Renewed(e) PROVE ExecutorInv'
  BY <1>10, <1>13, <1>20 DEF Renewed
<1> QED
  BY ONLY [ExecutorNext]_executorVars, <1>1, <1>2, <1>3, <1>4, <1>5, <1>6, <1>7, <1>8, <1>9,
          <1>12, <1>14, <1>15, <1>16, <1>17, <1>18, <1>19, <1>20
  DEF ExecutorNext, ExecutorSteps, RelayServes

\* The executors' invariant holds throughout.
LEMMA ExecutorInvariance == ExecutorSpec => []ExecutorInv
  BY ExecutorInitial, ExecutorStep, PTL DEF ExecutorSpec

\* The timer and the watchdog keep a child to its lease: for any number of executors
\* and any durations, also when requests take longer than the lease.
THEOREM ChildKeepsToItsLeaseHolds == ExecutorSpec => []ChildKeepsToItsLease
<1>1. ExecutorInv => ChildKeepsToItsLease
  <2> SUFFICES ASSUME ExecutorInv PROVE ChildKeepsToItsLease
    OBVIOUS
  <2>0. ExecutorTypeOK /\ OverlapOK
    BY DEF ExecutorInv
  <2>1. BoundedOverlap
    <3>1. CASE Overlapping
      <4>1. PICK w \in Running : Lapsing(w)
        BY <2>0, <3>1 DEF OverlapOK
      <4> QED
        BY <2>0, <4>1, Typed, Durations DEF Lapsing, BoundedOverlap, Running
    <3>2. CASE ~Overlapping
      BY <2>0, <3>2, Durations DEF OverlapOK, BoundedOverlap
    <3> QED
      BY <3>1, <3>2
  <2>2. OneFailureIsBorne
    BY DEF ExecutorInv, OneFailureIsBorne, OneFailureFits, Borne, Running
  <2> QED
    BY <2>1, <2>2 DEF ChildKeepsToItsLease
<1> QED
  BY <1>1, ExecutorInitial, ExecutorStep, PTL DEF ExecutorSpec

-----------------------------------------------------------------------------
(* WorkPetConsole. That an open panel polls once everything has come needs to   *)
(* know who will start the timers: a click that opened the panel or logged in   *)
(* and whose chain is under way.                                               *)

\* The chain of f, whose login is accepted if it began with one, starts the timers.
WillStart(f) == flow[f].at \notin {"idle", "login"} /\ flow[f].click \in {"expand", "login"}

Polling == panelOpen /\ loggedIn /\ ~paused

\* A chain that asks for groups knows the server it asks, one that asks for members
\* the group, if any.
FlowTyped ==
    /\ flow \in [Flows -> Flow]
    /\ \A f \in Flows :
        /\ flow[f].at = "groups" => flow[f].asked \in Envs
        /\ flow[f].at \in {"selected", "members"} => flow[f].asked \in Groups \cup {NoGroup}

ViewTyped ==
    /\ panelOpen \in BOOLEAN /\ paused \in BOOLEAN /\ loggedIn \in BOOLEAN
    /\ strayNote \in BOOLEAN /\ env \in Envs /\ timers \in 0..2
    /\ group \in Groups \cup {NoGroup} /\ mentions \in Groups \cup {NoGroup}
    /\ sending \in Groups \cup {NoGroup}
    /\ saved \in [Envs -> Groups \cup {NoGroup}]
    /\ options \subseteq Groups /\ screen \subseteq Groups /\ fetches \subseteq Groups

LoginFirst == \A f \in Flows : flow[f].at = "login" => flow[f].click = "login"

ConsoleInv ==
    /\ FlowTyped /\ ViewTyped
    /\ OneGroupOnScreen
    /\ LoginFirst
    /\ timers \in {0, 2}
    /\ timers > 0 => Polling
    /\ Polling => timers = 2 \/ \E f \in Flows : WillStart(f)

LEMMA ConsoleInitial == ConsoleInit => ConsoleInv
<1> SUFFICES ASSUME ConsoleInit PROVE ConsoleInv
  OBVIOUS
<1>1. FlowTyped /\ \A f \in Flows : flow[f].at = "idle"
  BY DEF ConsoleInit, FlowTyped, Idle, Flow, Await, Click
<1>2. ViewTyped /\ ~panelOpen
  <2>1. saved \in [Envs -> Groups \cup {NoGroup}]
    BY DEF ConsoleInit
  <2>2. options \subseteq Groups /\ screen \subseteq Groups /\ fetches \subseteq Groups
    BY DEF ConsoleInit
  <2>3. /\ panelOpen = FALSE /\ paused = FALSE /\ loggedIn = FALSE /\ strayNote = FALSE
        /\ group = NoGroup /\ mentions = NoGroup /\ sending = NoGroup
        /\ env \in Envs /\ timers = 0
    BY DEF ConsoleInit
  <2>4. timers \in 0..2
    BY <2>3
  <2>5. ~panelOpen /\ {panelOpen, paused, loggedIn, strayNote} \subseteq BOOLEAN
    BY <2>3
  <2>6. {group, mentions, sending} \subseteq Groups \cup {NoGroup}
    BY <2>3
  <2> QED
    BY <2>1, <2>2, <2>3, <2>4, <2>5, <2>6 DEF ViewTyped
<1>3. LoginFirst
  BY <1>1 DEF LoginFirst
<1>4. timers = 0 /\ screen = {} /\ ~Polling
  BY <1>2 DEF ConsoleInit, Polling
<1> QED
  BY <1>1, <1>2, <1>3, <1>4 DEF ConsoleInv, OneGroupOnScreen

\* A 429 stops the timers, anything else leaves them.
PausedOrSame ==
    /\ paused' \in BOOLEAN
    /\ \/ paused' /\ timers' = 0
       \/ paused' = paused /\ timers' = timers

LEMMA PausesOrNot ==
    ASSUME paused \in BOOLEAN, NEW due \in BOOLEAN, PausesPolling(due)
    PROVE  PausedOrSame
<1> USE DEF PausedOrSame
<1>1. CASE due
  BY <1>1 DEF PausesPolling
<1>2. CASE ~due
  <2>1. paused' = paused
    BY <1>2 DEF PausesPolling
  <2> QED
    BY <1>2, <2>1 DEF PausesPolling
<1> QED
  BY <1>1, <1>2

LEMMA AnswersMayPause ==
    ASSUME paused \in BOOLEAN,
           \/ \E limited \in BOOLEAN : ChatAnswered(limited)
           \/ \E f \in Flows, limited \in BOOLEAN : GroupsNotListed(f, limited)
           \/ \E g \in Groups, outcome \in {"ok", "error", "429"}, last \in BOOLEAN :
                 ContentAnswered(g, outcome, last)
    PROVE  PausedOrSame
<1>1. ASSUME NEW limited \in BOOLEAN, ChatAnswered(limited) PROVE PausedOrSame
  BY <1>1, PausesOrNot DEF ChatAnswered
<1>2. ASSUME NEW f \in Flows, NEW limited \in BOOLEAN, GroupsNotListed(f, limited)
      PROVE  PausedOrSame
  <2>1. (panelOpen /\ limited) \in BOOLEAN /\ PausesPolling(panelOpen /\ limited)
    BY <1>2 DEF GroupsNotListed
  <2> QED
    BY <2>1, PausesOrNot
<1>3. ASSUME NEW g \in Groups, NEW outcome \in {"ok", "error", "429"}, NEW last \in BOOLEAN,
             ContentAnswered(g, outcome, last)
      PROVE  PausedOrSame
  <2>1. \E due \in BOOLEAN : PausesPolling(due)
    BY <1>3 DEF ContentAnswered, IsStaleGroupFetch
  <2> QED
    BY <2>1, PausesOrNot
<1> QED
  BY <1>1, <1>2, <1>3

LEMMA ConsoleFlowStep ==
    ASSUME FlowTyped, ViewTyped, [ConsoleNext]_consoleVars
    PROVE  FlowTyped'
<1> USE DEF FlowTyped
<1>0. env \in Envs /\ group \in Groups \cup {NoGroup}
  BY DEF ViewTyped
<1>1. ASSUME NEW f \in Flows, NEW place \in Await,
             NEW about \in Envs \cup Groups \cup {NoEnv, NoGroup},
             place = "groups" => about \in Envs,
             place \in {"selected", "members"} => about \in Groups \cup {NoGroup},
             Asks(f, place, about)
      PROVE  FlowTyped'
  <2>1. /\ flow'[f] = [flow[f] EXCEPT !.at = place, !.asked = about]
        /\ \A g \in Flows : g # f => flow'[g] = flow[g]
        /\ flow' = [flow EXCEPT ![f] = flow'[f]]
    BY <1>1 DEF Asks
  <2>2. flow[f] \in Flow
    OBVIOUS
  <2>3. flow'[f] \in Flow /\ flow'[f].at = place /\ flow'[f].asked = about
    BY <2>1, <2>2 DEF Flow
  <2> QED
    BY <1>1, <2>1, <2>3
<1>2. ASSUME NEW f \in Flows, NEW click \in Click,
             NEW place \in Await \ {"groups", "selected", "members"},
             Begins(f, click, place) \/ Ends(f)
      PROVE  FlowTyped'
  <2>1. PICK r \in Flow : /\ flow' = [flow EXCEPT ![f] = r]
                          /\ r.at \notin {"groups", "selected", "members"}
    <3>1. Idle \in Flow /\ Idle.at = "idle"
      BY DEF Idle, Flow, Await, Click
    <3>2. [at |-> place, click |-> click, asked |-> NoEnv] \in Flow
      BY DEF Flow
    <3> QED
      BY <1>2, <3>1, <3>2 DEF Begins, Ends
  <2> QED
    BY <2>1
<1>3. ASSUME UNCHANGED flow PROVE FlowTyped'
  BY <1>3
<1>4. /\ {"window", "login", "health", "envs", "stored", "content"}
            \subseteq Await \ {"groups", "selected", "members"}
      /\ {"groups", "selected", "members"} \subseteq Await
      /\ {"expand", "login", "env", "group"} \subseteq Click
  BY DEF Await, Click
<1>5. ASSUME NEW f \in Flows,
             \/ Expand(f) \/ SubmitLogin(f)
             \/ \E e \in Envs : SelectEnv(f, e)
             \/ \E g \in Groups : ChooseGroup(f, g)
      PROVE  FlowTyped'
  BY <1>2, <1>4, <1>5 DEF Expand, SubmitLogin, SelectEnv, ChooseGroup
<1>6. ASSUME NEW f \in Flows, NEW place \in Await \ {"groups", "selected", "members"},
             Awaits(f, place)
      PROVE  FlowTyped'
  BY <1>1, <1>6 DEF Awaits
<1>7. ASSUME NEW f \in Flows, AwaitsGroups(f) PROVE FlowTyped'
  BY <1>0, <1>1, <1>4, <1>7 DEF AwaitsGroups
<1>8. ASSUME NEW f \in Flows, NEW about \in Groups \cup {NoGroup},
             Asks(f, "selected", about) \/ Asks(f, "members", about)
      PROVE  FlowTyped'
  BY <1>1, <1>4, <1>8
<1>9. ASSUME NEW f \in Flows, Ends(f) PROVE FlowTyped'
  BY <1>2, <1>4, <1>9
<1>10. ASSUME NEW f \in Flows,
              \/ WindowSized(f) \/ HealthAnswered(f) \/ ConfigStored(f)
              \/ \E yes \in BOOLEAN : LoginAnswered(f, yes)
              \/ \E e \in Envs : EnvsAnswered(f, e)
       PROVE  FlowTyped'
  BY <1>4, <1>6, <1>7, <1>9, <1>10
  DEF WindowSized, HealthAnswered, ConfigStored, LoginAnswered, EnvsAnswered
<1>11. ASSUME NEW f \in Flows, GroupsAnswered(f) PROVE FlowTyped'
  <2>1. Awaits(f, "content") \/ Asks(f, "members", NoGroup)
    BY <1>11 DEF GroupsAnswered
  <2> QED
    BY <1>4, <1>6, <1>8, <2>1
<1>12. ASSUME NEW f \in Flows, ContentLoaded(f) PROVE FlowTyped'
  BY <1>0, <1>8, <1>12 DEF ContentLoaded
<1>13. ASSUME NEW f \in Flows, NEW yes \in BOOLEAN,
              GroupsNotListed(f, yes) \/ SelectedAnswered(f, yes) \/ MembersAnswered(f, yes)
       PROVE  FlowTyped'
  <2>1. Asks(f, "members", group) \/ Ends(f)
    BY <1>13 DEF GroupsNotListed, SelectedAnswered, MembersAnswered
  <2> QED
    BY <1>0, <1>8, <1>9, <2>1
<1>14. CASE \/ Collapse \/ TimerFires \/ Send \/ UNCHANGED consoleVars
            \/ \E limited \in BOOLEAN : ChatAnswered(limited)
            \/ \E g \in Groups, outcome \in {"ok", "error", "429"}, last \in BOOLEAN :
                  ContentAnswered(g, outcome, last)
  BY <1>3, <1>14 DEF Collapse, TimerFires, Send, consoleVars, ChatAnswered, ContentAnswered
<1> QED
  BY ONLY [ConsoleNext]_consoleVars, <1>5, <1>10, <1>11, <1>12, <1>13, <1>14
  DEF ConsoleNext, FlowSteps

LEMMA ConsoleViewStep ==
    ASSUME FlowTyped, ViewTyped, [ConsoleNext]_consoleVars
    PROVE  ViewTyped'
<1> USE DEF ViewTyped
<1>1. ASSUME NEW g \in Groups \cup {NoGroup}, NEW wanted PROVE Asked(g, wanted) \subseteq Groups
  BY <1>1 DEF Asked
<1>2. ASSUME NEW g \in Groups, SelectGroup(g)
      PROVE  /\ group' \in Groups \cup {NoGroup} /\ saved' \in [Envs -> Groups \cup {NoGroup}]
             /\ screen' \subseteq Groups /\ fetches' \subseteq Groups /\ strayNote' \in BOOLEAN
  BY <1>1, <1>2 DEF SelectGroup
<1>3. ASSUME NEW asked \in Groups \cup {NoGroup}, NEW ok \in BOOLEAN, LoadMembers(asked, ok)
      PROVE  mentions' \in Groups \cup {NoGroup}
  BY <1>3 DEF LoadMembers
<1>4. ASSUME NEW f \in Flows, Expand(f) \/ SubmitLogin(f) PROVE ViewTyped'
  BY <1>4 DEF Expand, SubmitLogin, viewVars
<1>5. ASSUME NEW f \in Flows, NEW e \in Envs, SelectEnv(f, e) \/ EnvsAnswered(f, e)
      PROVE  ViewTyped'
  BY <1>5 DEF SelectEnv, EnvsAnswered, viewVars
<1>6. ASSUME NEW f \in Flows, NEW g \in Groups, ChooseGroup(f, g) PROVE ViewTyped'
  BY <1>2, <1>6 DEF ChooseGroup
<1>7. ASSUME NEW f \in Flows,
             \/ WindowSized(f) \/ HealthAnswered(f) \/ ConfigStored(f) \/ ContentLoaded(f)
             \/ \E yes \in BOOLEAN : LoginAnswered(f, yes)
      PROVE  ViewTyped'
  BY <1>7 DEF WindowSized, HealthAnswered, ConfigStored, ContentLoaded, LoginAnswered, viewVars
<1>8. ASSUME NEW f \in Flows, GroupsAnswered(f) PROVE ViewTyped'
  <2> DEFINE L == GroupsOf[flow[f].asked]
  <2>1. flow[f].asked \in Envs
    BY <1>8 DEF FlowTyped, GroupsAnswered
  <2>2. L \subseteq Groups
    BY <2>1, WorkPetConsoleAssumption
  <2>3. Preferred(L) \subseteq Groups
    BY <2>2 DEF Preferred
  <2>4. /\ options' \subseteq Groups
        /\ UNCHANGED <<panelOpen, paused, loggedIn, env, mentions, timers, sending>>
    BY <1>8, <2>2 DEF GroupsAnswered
  <2>5. CASE L # {}
    <3>1. PICK g \in Preferred(L) : SelectGroup(g)
      BY <1>8, <2>5 DEF GroupsAnswered
    <3> QED
      BY <1>2, <2>3, <2>4, <3>1
  <2>6. CASE L = {}
    <3>1. group' = NoGroup /\ UNCHANGED <<saved, screen, strayNote, fetches>>
      BY <1>8, <2>6 DEF GroupsAnswered
    <3> QED
      BY <2>4, <3>1
  <2> QED
    BY <2>5, <2>6
<1>9. ASSUME NEW f \in Flows, NEW yes \in BOOLEAN, SelectedAnswered(f, yes) \/ MembersAnswered(f, yes)
      PROVE  ViewTyped'
  <2>1. mentions' \in Groups \cup {NoGroup}
    <3>1. flow[f].asked \in Groups \cup {NoGroup} /\ LoadMembers(flow[f].asked, yes)
      BY <1>9 DEF FlowTyped, SelectedAnswered, MembersAnswered
    <3> QED
      BY <1>3, <3>1
  <2> QED
    BY <1>9, <2>1 DEF SelectedAnswered, MembersAnswered
<1>10. ASSUME NEW f \in Flows, NEW yes \in BOOLEAN, GroupsNotListed(f, yes) PROVE ViewTyped'
  <2>1. PausedOrSame
    BY <1>10, AnswersMayPause
  <2> QED
    BY <1>10, <2>1 DEF GroupsNotListed, PausedOrSame
<1>11. CASE Collapse \/ UNCHANGED consoleVars
  <2>0. /\ UNCHANGED <<paused, loggedIn, strayNote, env, group, mentions, sending>>
        /\ UNCHANGED <<saved, options, screen, fetches>>
    BY ONLY <1>11 DEF Collapse, consoleVars, viewVars
  <2>1. panelOpen' \in BOOLEAN /\ timers' \in 0..2
    <3>1. CASE Collapse
      <4>1. panelOpen' = FALSE /\ timers' = 0
        BY ONLY <3>1 DEF Collapse
      <4>2. timers' \in 0..2
        BY ONLY <4>1
      <4> QED
        BY ONLY <4>1, <4>2
    <3>2. CASE UNCHANGED consoleVars
      <4>1. panelOpen' = panelOpen
        BY ONLY <3>2 DEF consoleVars
      <4>2. timers' = timers
        BY ONLY <3>2 DEF consoleVars
      <4>3. panelOpen' \in BOOLEAN
        BY <4>1
      <4>4. timers' \in 0..2
        BY <4>2
      <4> QED
        BY <4>3, <4>4
    <3> QED
      BY <1>11, <3>1, <3>2
  <2>2. paused' \in BOOLEAN /\ loggedIn' \in BOOLEAN /\ strayNote' \in BOOLEAN /\ env' \in Envs
    BY <2>0
  <2>3. /\ group' \in Groups \cup {NoGroup} /\ mentions' \in Groups \cup {NoGroup}
        /\ sending' \in Groups \cup {NoGroup}
    BY <2>0
  <2>4. /\ saved' \in [Envs -> Groups \cup {NoGroup}]
        /\ options' \subseteq Groups /\ screen' \subseteq Groups /\ fetches' \subseteq Groups
    BY <2>0
  <2> QED
    BY <2>1, <2>2, <2>3, <2>4
<1>12. CASE TimerFires
  BY <1>1, <1>12 DEF TimerFires, viewVars
<1>13. CASE Send
  <2>1. group \in Groups
    BY <1>13 DEF Send
  <2>2. sending' \in Groups /\ screen' \subseteq Groups
    BY <1>13, <2>1 DEF Send
  <2>3. UNCHANGED <<panelOpen, paused, loggedIn, env, group, saved, options, strayNote, mentions,
                    timers, fetches>>
    BY <1>13 DEF Send
  <2> QED
    BY <2>2, <2>3
<1>14. ASSUME NEW limited \in BOOLEAN, ChatAnswered(limited) PROVE ViewTyped'
  <2>1. PausedOrSame
    BY <1>14, AnswersMayPause
  <2>2. screen' \subseteq Groups /\ strayNote' \in BOOLEAN
    BY <1>14 DEF ChatAnswered
  <2> QED
    BY <1>14, <2>1, <2>2 DEF ChatAnswered, PausedOrSame
<1>15. ASSUME NEW g \in Groups, NEW outcome \in {"ok", "error", "429"}, NEW last \in BOOLEAN,
              ContentAnswered(g, outcome, last)
       PROVE  ViewTyped'
  <2>1. PausedOrSame
    BY <1>15, AnswersMayPause
  <2>2. screen' \subseteq Groups /\ fetches' \subseteq Groups /\ mentions' \in Groups \cup {NoGroup}
    BY <1>15 DEF ContentAnswered
  <2> QED
    BY <1>15, <2>1, <2>2 DEF ContentAnswered, PausedOrSame
<1> QED
  BY ONLY [ConsoleNext]_consoleVars, <1>4, <1>5, <1>6, <1>7, <1>8, <1>9, <1>10, <1>11, <1>12,
          <1>13, <1>14, <1>15
  DEF ConsoleNext, FlowSteps

\* A chain that goes on to another request keeps its click.
LEMMA ChainGoesOn ==
    ASSUME flow \in [Flows -> Flow], LoginFirst, NEW f \in Flows, flow[f].at # "idle",
           NEW place \in Await \ {"idle", "login"}, NEW about, Asks(f, place, about)
    PROVE  /\ LoginFirst'
           /\ \A g \in Flows : WillStart(g) => WillStart(g)'
           /\ flow[f].click \in {"expand", "login"} => WillStart(f)'
<1>1. /\ flow'[f] = [flow[f] EXCEPT !.at = place, !.asked = about]
      /\ \A g \in Flows : g # f => flow'[g] = flow[g]
  BY DEF Asks
<1>2. flow[f] \in Flow
  OBVIOUS
<1>3. flow'[f].at = place /\ flow'[f].click = flow[f].click
  BY <1>1, <1>2 DEF Flow
<1> QED
  BY <1>1, <1>3 DEF WillStart, LoginFirst

\* A click begins a chain on a flow that was idle.
LEMMA ChainBegins ==
    ASSUME flow \in [Flows -> Flow], LoginFirst, NEW f \in Flows, NEW click \in Click,
           NEW place \in Await \ {"idle"}, Begins(f, click, place), place = "login" => click = "login"
    PROVE  /\ LoginFirst'
           /\ \A g \in Flows : WillStart(g) => WillStart(g)'
           /\ click = "expand" /\ place = "window" => WillStart(f)'
<1>1. /\ flow[f].at = "idle"
      /\ flow'[f] = [at |-> place, click |-> click, asked |-> NoEnv]
      /\ \A g \in Flows : g # f => flow'[g] = flow[g]
  BY DEF Begins, Idle
<1> QED
  BY <1>1 DEF WillStart, LoginFirst

\* A chain ends.
LEMMA ChainEnds ==
    ASSUME flow \in [Flows -> Flow], LoginFirst, NEW f \in Flows, Ends(f)
    PROVE  LoginFirst' /\ \A g \in Flows : g # f => (WillStart(g)' <=> WillStart(g))
<1>1. /\ flow'[f].at = "idle"
      /\ \A g \in Flows : g # f => flow'[g] = flow[g]
  BY DEF Ends, Idle
<1> QED
  BY <1>1 DEF WillStart, LoginFirst

LEMMA ConsoleStep == ConsoleInv /\ [ConsoleNext]_consoleVars => ConsoleInv'
<1> DEFINE Rest ==
      /\ OneGroupOnScreen
      /\ LoginFirst
      /\ timers \in {0, 2}
      /\ timers > 0 => Polling
      /\ Polling => timers = 2 \/ \E f \in Flows : WillStart(f)
<1> SUFFICES ASSUME ConsoleInv, [ConsoleNext]_consoleVars PROVE Rest'
  BY ConsoleFlowStep, ConsoleViewStep DEF ConsoleInv
<1>0. /\ flow \in [Flows -> Flow] /\ env \in Envs /\ paused \in BOOLEAN
      /\ {"window", "login", "health", "envs", "stored", "groups", "content", "selected",
          "members"} \subseteq Await \ {"idle"}
      /\ {"expand", "login", "env", "group"} \subseteq Click
      /\ Rest
  BY DEF ConsoleInv, FlowTyped, ViewTyped, Await, Click
<1> USE DEF Polling
\* Steps that leave the chains alone.
<1>1. CASE UNCHANGED consoleVars
  BY <1>0, <1>1 DEF consoleVars, viewVars, OneGroupOnScreen, WillStart, LoginFirst
<1>2. CASE Collapse
  BY <1>0, <1>2 DEF Collapse, viewVars, OneGroupOnScreen, WillStart, LoginFirst
<1>3. CASE TimerFires
  BY <1>0, <1>3 DEF TimerFires, viewVars, OneGroupOnScreen, WillStart, LoginFirst
<1>4. CASE Send
  BY <1>0, <1>4 DEF Send, OneGroupOnScreen, WillStart, LoginFirst
<1>5. ASSUME NEW limited \in BOOLEAN, ChatAnswered(limited) PROVE Rest'
  <2>1. OneGroupOnScreen'
    BY <1>0, <1>5 DEF ChatAnswered, OneGroupOnScreen
  <2>2. PausedOrSame /\ UNCHANGED <<panelOpen, loggedIn, flow>>
    BY <1>0, <1>5, AnswersMayPause DEF ChatAnswered
  <2> QED
    BY <1>0, <2>1, <2>2 DEF PausedOrSame, WillStart, LoginFirst
<1>6. ASSUME NEW g \in Groups, NEW outcome \in {"ok", "error", "429"}, NEW last \in BOOLEAN,
             ContentAnswered(g, outcome, last)
      PROVE  Rest'
  <2>1. OneGroupOnScreen'
    BY <1>0, <1>6 DEF ContentAnswered, IsStaleGroupFetch, OneGroupOnScreen
  <2>2. PausedOrSame /\ UNCHANGED <<panelOpen, loggedIn, flow>>
    BY <1>0, <1>6, AnswersMayPause DEF ContentAnswered
  <2> QED
    BY <1>0, <2>1, <2>2 DEF PausedOrSame, WillStart, LoginFirst
\* Clicks.
<1>7. ASSUME NEW f \in Flows, Expand(f) PROVE Rest'
  <2>1. WillStart(f)' /\ LoginFirst'
    <3>1. Begins(f, "expand", "window")
      BY <1>7 DEF Expand
    <3> QED
      BY <1>0, <3>1, ChainBegins
  <2> QED
    BY <1>0, <1>7, <2>1 DEF Expand, viewVars, OneGroupOnScreen
<1>8. ASSUME NEW f \in Flows, SubmitLogin(f) PROVE Rest'
  <2>1. LoginFirst'
    <3>1. Begins(f, "login", "login")
      BY <1>8 DEF SubmitLogin
    <3> QED
      BY <1>0, <3>1, ChainBegins
  <2> QED
    BY <1>0, <1>8, <2>1 DEF SubmitLogin, viewVars, OneGroupOnScreen
<1>9. ASSUME NEW f \in Flows, NEW e \in Envs, SelectEnv(f, e) PROVE Rest'
  <2>1. LoginFirst' /\ \A g \in Flows : WillStart(g) => WillStart(g)'
    <3>1. Begins(f, "env", "stored")
      BY <1>9 DEF SelectEnv
    <3> QED
      BY <1>0, <3>1, ChainBegins
  <2> QED
    BY <1>0, <1>9, <2>1 DEF SelectEnv, viewVars, OneGroupOnScreen
<1>10. ASSUME NEW f \in Flows, NEW g \in Groups, ChooseGroup(f, g) PROVE Rest'
  <2>1. LoginFirst' /\ \A h \in Flows : WillStart(h) => WillStart(h)'
    <3>1. Begins(f, "group", "content")
      BY <1>10 DEF ChooseGroup
    <3> QED
      BY <1>0, <3>1, ChainBegins
  <2> QED
    BY <1>0, <1>10, <2>1 DEF ChooseGroup, SelectGroup, OneGroupOnScreen
\* Answers.
<1>11. ASSUME NEW f \in Flows, flow[f].at # "idle", NEW place \in Await \ {"idle", "login"},
              \/ Awaits(f, place)
              \/ AwaitsGroups(f)
              \/ \E about : Asks(f, place, about)
       PROVE  /\ LoginFirst'
              /\ \A g \in Flows : WillStart(g) => WillStart(g)'
              /\ flow[f].click \in {"expand", "login"} => WillStart(f)'
  <2>1. "groups" \in Await \ {"idle", "login"}
    BY DEF Await
  <2> QED
    BY <1>0, <1>11, <2>1, ChainGoesOn DEF Awaits, AwaitsGroups
<1>12. ASSUME NEW f \in Flows, WindowSized(f) PROVE Rest'
  <2>1. CASE loggedIn
    <3>1. flow[f].at = "window" /\ Awaits(f, "envs")
      BY <1>12, <2>1 DEF WindowSized
    <3> QED
      BY <1>0, <1>11, <1>12, <3>1 DEF WindowSized, viewVars, OneGroupOnScreen
  <2>2. CASE ~loggedIn
    <3>1. Ends(f)
      BY <1>12, <2>2 DEF WindowSized
    <3> QED
      BY <1>0, <1>12, <2>2, <3>1, ChainEnds DEF WindowSized, viewVars, OneGroupOnScreen
  <2> QED
    BY <2>1, <2>2
<1>13. ASSUME NEW f \in Flows, NEW accepted \in BOOLEAN, LoginAnswered(f, accepted)
       PROVE  Rest'
  <2>1. CASE accepted
    <3>1. flow[f].at = "login" /\ Awaits(f, "health") /\ flow[f].click = "login"
      BY <1>0, <1>13, <2>1 DEF LoginAnswered, LoginFirst
    <3>2. WillStart(f)' /\ LoginFirst'
      BY <1>0, <1>11, <3>1
    <3>3. loggedIn' = TRUE /\ UNCHANGED <<panelOpen, paused, env, viewVars, timers>>
      BY <1>13, <2>1 DEF LoginAnswered
    <3> QED
      BY <1>0, <3>2, <3>3 DEF viewVars, OneGroupOnScreen
  <2>2. CASE ~accepted
    <3>1. Ends(f) /\ ~WillStart(f)
      BY <1>13, <2>2 DEF LoginAnswered, WillStart
    <3>2. loggedIn' = loggedIn
      BY <1>13, <2>2 DEF LoginAnswered, ConsoleInv, ViewTyped
    <3> QED
      BY <1>0, <1>13, <3>1, <3>2, ChainEnds DEF LoginAnswered, viewVars, OneGroupOnScreen
  <2> QED
    BY <2>1, <2>2
<1>14. ASSUME NEW f \in Flows, HealthAnswered(f) PROVE Rest'
  <2>1. CASE panelOpen
    <3>1. flow[f].at = "health" /\ Awaits(f, "envs")
      BY <1>14, <2>1 DEF HealthAnswered
    <3> QED
      BY <1>0, <1>11, <1>14, <3>1 DEF HealthAnswered, viewVars, OneGroupOnScreen
  <2>2. CASE ~panelOpen
    <3>1. Ends(f)
      BY <1>14, <2>2 DEF HealthAnswered
    <3> QED
      BY <1>0, <1>14, <2>2, <3>1, ChainEnds DEF HealthAnswered, viewVars, OneGroupOnScreen
  <2> QED
    BY <2>1, <2>2
<1>15. ASSUME NEW f \in Flows, NEW e \in Envs, EnvsAnswered(f, e) PROVE Rest'
  <2>1. flow[f].at = "envs" /\ (Awaits(f, "stored") \/ AwaitsGroups(f))
    BY <1>15 DEF EnvsAnswered
  <2> QED
    BY <1>0, <1>11, <1>15, <2>1 DEF EnvsAnswered, viewVars, OneGroupOnScreen
<1>16. ASSUME NEW f \in Flows, ConfigStored(f) PROVE Rest'
  <2>1. flow[f].at = "stored" /\ AwaitsGroups(f)
    BY <1>16 DEF ConfigStored
  <2> QED
    BY <1>0, <1>11, <1>16, <2>1 DEF ConfigStored, OneGroupOnScreen
<1>17. ASSUME NEW f \in Flows, GroupsAnswered(f) PROVE Rest'
  <2>1. flow[f].at = "groups" /\ (Awaits(f, "content") \/ Asks(f, "members", NoGroup))
    BY <1>17 DEF GroupsAnswered
  <2>2. OneGroupOnScreen'
    BY <1>17 DEF GroupsAnswered, SelectGroup, OneGroupOnScreen
  <2>3. LoginFirst' /\ \A g \in Flows : WillStart(g) => WillStart(g)'
    BY <1>0, <1>11, <2>1
  <2> QED
    BY <1>0, <1>17, <2>2, <2>3 DEF GroupsAnswered
<1>18. ASSUME NEW f \in Flows, NEW limited \in BOOLEAN, GroupsNotListed(f, limited)
       PROVE  Rest'
  <2>1. flow[f].at = "groups" /\ Asks(f, "members", group)
        /\ UNCHANGED <<panelOpen, loggedIn, env, group, screen>>
    BY <1>18 DEF GroupsNotListed
  <2>2. PausedOrSame
    BY <1>0, <1>18, AnswersMayPause
  <2>3. LoginFirst' /\ \A g \in Flows : WillStart(g) => WillStart(g)'
    BY <1>0, <1>11, <2>1
  <2> QED
    BY <1>0, <2>1, <2>2, <2>3 DEF PausedOrSame, OneGroupOnScreen
<1>19. ASSUME NEW f \in Flows, ContentLoaded(f) PROVE Rest'
  <2>1. flow[f].at = "content" /\ Asks(f, "selected", group)
    BY <1>19 DEF ContentLoaded
  <2>2. LoginFirst' /\ \A g \in Flows : WillStart(g) => WillStart(g)'
    BY <1>0, <1>11, <2>1
  <2> QED
    BY <1>0, <1>19, <2>2 DEF ContentLoaded, viewVars, OneGroupOnScreen
<1>20. ASSUME NEW f \in Flows, NEW ok \in BOOLEAN, SelectedAnswered(f, ok) PROVE Rest'
  <2>1. CASE flow[f].click = "group"
    <3>1. Ends(f) /\ ~WillStart(f)
      BY <1>20, <2>1 DEF SelectedAnswered, WillStart
    <3> QED
      BY <1>0, <1>20, <3>1, ChainEnds DEF SelectedAnswered, OneGroupOnScreen
  <2>2. CASE flow[f].click # "group"
    <3>1. flow[f].at = "selected" /\ Asks(f, "members", group)
      BY <1>20, <2>2 DEF SelectedAnswered
    <3>2. LoginFirst' /\ \A g \in Flows : WillStart(g) => WillStart(g)'
      BY <1>0, <1>11, <3>1
    <3> QED
      BY <1>0, <1>20, <3>2 DEF SelectedAnswered, OneGroupOnScreen
  <2> QED
    BY <2>1, <2>2
<1>21. ASSUME NEW f \in Flows, NEW ok \in BOOLEAN, MembersAnswered(f, ok) PROVE Rest'
  <2>1. Ends(f) /\ (Polling /\ WillStart(f) => timers' = 2)
    BY <1>21 DEF MembersAnswered, ShouldStart, WillStart
  <2> QED
    BY <1>0, <1>21, <2>1, ChainEnds DEF MembersAnswered, ShouldStart, OneGroupOnScreen
<1> HIDE DEF Rest
<1> QED
  BY ONLY [ConsoleNext]_consoleVars, <1>1, <1>2, <1>3, <1>4, <1>5, <1>6, <1>7, <1>8, <1>9,
          <1>10, <1>12, <1>13, <1>14, <1>15, <1>16, <1>17, <1>18, <1>19, <1>20, <1>21
  DEF ConsoleNext, FlowSteps

\* The invariant of the console holds.
LEMMA ConsoleInvariance == ConsoleSpec => []ConsoleInv
BY ConsoleInitial, ConsoleStep, PTL DEF ConsoleSpec

\* The messages and the member strip are of one group, whatever answers come late and
\* however many chains of requests overlap.
THEOREM OneGroupOnScreenHolds == ConsoleSpec => []OneGroupOnScreen
<1>1. ConsoleInv => OneGroupOnScreen
  BY DEF ConsoleInv
<1> QED
  BY <1>1, ConsoleInvariance, PTL

\* The timers run if and only if there is something to poll for.
THEOREM PollsWhileOpenHolds == ConsoleSpec => []PollsWhileOpen
<1>1. ConsoleInv => PollsWhileOpen
  BY DEF ConsoleInv, Polling, PollsWhileOpen, WillStart, Idle
<1> QED
  BY <1>1, ConsoleInvariance, PTL

\* The console's variables keep their types.
THEOREM ConsoleTypeCorrect == ConsoleSpec => []ConsoleTypeOK
<1>1. ConsoleInv => ConsoleTypeOK
  BY DEF ConsoleInv, FlowTyped, ViewTyped, ConsoleTypeOK
<1> QED
  BY <1>1, ConsoleInvariance, PTL

-----------------------------------------------------------------------------
(* Eight of them side by side. *)

\* Every component keeps its types (TypesOK), for all values of the constants.
THEOREM TypesOKHolds == ComponentsSpec => []TypesOK
<1>1. AccessInv => AccessTypeOK
  BY DEF AccessInv
<1>2. UpgradeInv => UpgradeTypeOK
  BY DEF UpgradeInv
<1>3. ConnectorInv => ConnectorTypeOK
  BY DEF ConnectorInv
<1>4. BacklogInv => BacklogTypeOK
  BY DEF BacklogInv
<1>5. WpInv => RunnerTypeOK
  BY DEF WpInv, WpTypeOK
<1>6. ExecutorInv => ExecutorTypeOK
  BY DEF ExecutorInv
<1> QED
  BY <1>1, <1>2, <1>3, <1>4, <1>5, <1>6, RegistryTypeCorrect, DirectoryTypeCorrect,
     AccessInvariance, UpgradeInvariance, ConnectorInvariance, BacklogInvariance,
     WpInvariance, ExecutorInvariance, PTL
  DEF ComponentsSpec, TypesOK

================================================================================
