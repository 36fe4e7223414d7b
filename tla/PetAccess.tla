-------------------------------- MODULE PetAccess --------------------------------
(***************************************************************************)
(* How a WorkPet signs in, and under whose name its requests reach         *)
(* WorkPanel: the sessions of pets, the credentials the relay remembers    *)
(* after a login, the cached WorkPanel sessions and the registered slot of *)
(* an environment (src/src/relay/registry.js, sessionWpAuth.js,            *)
(* handlers.js, wpSlots.js, src/src/workpanelClient.js).                   *)
(*                                                                         *)
(* An account signs in as a pet: the entry of config.pets that names it,   *)
(* or a pet whose id is made of the characters of its name that an id may  *)
(* have, 24 at most, so that several accounts may come to one pet.         *)
(* A token <<p, 0>> is the one of config.pets, <<p, n>> the one the n-th   *)
(* login of the pet minted.  Passwords are numbered in the order in which  *)
(* they come into force.                                                   *)
(***************************************************************************)
EXTENDS Integers, FiniteSets

CONSTANTS
    Accounts,      \* WorkPanel users with a WorkPet
    Pets,          \* pet ids
    PetOf,         \* the pet an account signs in as (loginPetId, or its entry's id)
    ConfiguredPets,\* the pets with an entry in config.pets (id, token, wpAuth)
    AccountOf,     \* the account the entry of a configured pet names
    MaxLogins,     \* bound: tokens minted for a pet
    MaxPasswords   \* bound: the number of each account's last password

ASSUME PetAccessAssumption ==
    /\ PetOf \in [Accounts -> Pets]
    /\ ConfiguredPets \subseteq Pets
    /\ AccountOf \in [ConfiguredPets -> Accounts]
    /\ \A p \in ConfiguredPets : PetOf[AccountOf[p]] = p
    /\ MaxLogins \in Nat \ {0}
    /\ MaxPasswords \in [Accounts -> Nat]

VARIABLES
    session,       \* sessions.status of each token, "none" if there is no row
    overlay,       \* byPetId: the account and password remembered, in memory only
    password,      \* WorkPanel: the password in force
    cache,         \* tokenCache: WorkPanel sessions by base URL and user; those of
                   \* the shared accounts, whose passwords do not change, are left out
    logging,       \* logins WorkPanel has accepted and the relay has not yet recorded
    slot,          \* wp_slots: the row of the environment
    signedIn       \* history: tokens handed out since the relay started, and to whom

accessVars == <<session, overlay, password, cache, logging, slot, signedIn>>

-----------------------------------------------------------------------------

\* issueLoginPet finds the account in config.pets.
HasEntry(a) == PetOf[a] \in ConfiguredPets /\ AccountOf[PetOf[a]] = a

\* The pets a login may mint a token for.
LoginPets == {PetOf[a] : a \in {b \in Accounts : ~HasEntry(b)}}
PetTokens == (ConfiguredPets \X {0}) \cup (LoginPets \X (1..MaxLogins))
Passwords == UNION {0..MaxPasswords[a] : a \in Accounts}
NoOverlay == [user |-> "nobody", password |-> -1]

\* backend.auth of the configuration, and that of the registered slot.
SharedAccounts == {"facade", "slot account"}
Bases == {"configured", "registered"}

AccessTypeOK ==
    /\ session \in [PetTokens -> {"none", "active", "revoked"}]
    /\ overlay \in [Pets -> [user : Accounts, password : Passwords] \cup {NoOverlay}]
    /\ password \in [Accounts -> Passwords]
    /\ cache \subseteq Bases \X Accounts
    /\ logging \subseteq Accounts \X Passwords
    /\ slot \in [row: BOOLEAN, fresh: BOOLEAN, auth: BOOLEAN]
    /\ signedIn \subseteq PetTokens \X Accounts

\* A fresh slot replaces the configured base URL (mergeBackendMap).
Base == IF slot.fresh THEN "registered" ELSE "configured"

\* auth of the merged backend: the slot's if it sent one, else the facade account.
BackendAccount == IF slot.fresh /\ slot.auth THEN "slot account" ELSE "facade"

\* serverForPet: the login's overlay, then the configured wpAuth, then the backend.
PetAccount(p) ==
    IF overlay[p] # NoOverlay THEN overlay[p].user
    ELSE IF p \in ConfiguredPets THEN AccountOf[p] ELSE BackendAccount

\* WorkPanel accepts the password serverForPet sends; a configured one is the first.
PasswordAccepted(p) ==
    CASE overlay[p] # NoOverlay -> overlay[p].password = password[overlay[p].user]
      [] overlay[p] = NoOverlay /\ p \in ConfiguredPets -> password[AccountOf[p]] = 0
      [] OTHER -> TRUE

\* Mutation: the cache is asked by base URL alone.
CachedForBase(user) == {u \in Accounts : <<Base, u>> \in cache}

\* The WorkPanel users as whom the cache lets a request for user go on.
CachedAs(user) == {u \in {user} : <<Base, u>> \in cache}

\* wpSession: the users as whom a request of pet p reaches WorkPanel, none if the
\* password is refused.
ServedAs(p) ==
    LET user == PetAccount(p)
    IN  IF CachedAs(user) # {} THEN CachedAs(user)
        ELSE IF PasswordAccepted(p) THEN {user} ELSE {}

\* syncConfigPets: the configured token gets a session unless it has one.
SyncConfigPets(t) ==
    IF t[2] = 0 /\ session[t] = "none" THEN "active" ELSE session[t]

-----------------------------------------------------------------------------

AccessInit ==
    /\ session = [t \in PetTokens |-> IF t[2] = 0 THEN "active" ELSE "none"]
    /\ overlay = [p \in Pets |-> NoOverlay]
    /\ password = [a \in Accounts |-> 0]
    /\ cache = {}
    /\ logging = {}
    /\ slot = [row |-> FALSE, fresh |-> FALSE, auth |-> FALSE]
    /\ signedIn = {}

\* Mutation: a login is content with a cached session (force: true is dropped).
LoginFromCache(a, p) ==
    /\ p = password[a] \/ <<Base, a>> \in cache
    /\ cache' = cache \cup {<<Base, a>>}
    /\ logging' = logging \cup {<<a, p>>}
    /\ UNCHANGED <<session, overlay, password, slot, signedIn>>

\* POST /v1/auth/login: WorkPanel itself is asked whether p is the password of a.
Login(a, p) ==
    /\ p = password[a]
    /\ cache' = cache \cup {<<Base, a>>}
    /\ logging' = logging \cup {<<a, p>>}
    /\ UNCHANGED <<session, overlay, password, slot, signedIn>>

\* issueLoginPet: the token of the account's entry as it is, or the next one minted.
IssueLoginPet(a, t) ==
    /\ t[1] = PetOf[a]
    /\ IF HasEntry(a)
       THEN t[2] = 0 /\ UNCHANGED session
       ELSE /\ t[2] > 0 /\ session[t] = "none"
            /\ \A k \in 1..(t[2] - 1) : session[<<PetOf[a], k>>] # "none"
            /\ session' = [session EXCEPT ![t] = "active"]

\* The handler goes on when WorkPanel has answered: setSessionWpAuth remembers account
\* and password for the pet, in the place of those of an earlier login.
LoginRecorded(a, p, t) ==
    /\ <<a, p>> \in logging
    /\ logging' = logging \ {<<a, p>>}
    /\ IssueLoginPet(a, t)
    /\ overlay' = [overlay EXCEPT ![PetOf[a]] = [user |-> a, password |-> p]]
    /\ signedIn' = signedIn \cup {<<t, a>>}
    /\ UNCHANGED <<password, cache, slot>>

\* A console request: authenticateRequest, serverForPet, wpSession.
Request(t) ==
    /\ session[t] = "active"
    /\ \E u \in ServedAs(t[1]) : cache' = cache \cup ({<<Base, u>>} \cap (Bases \X Accounts))
    /\ UNCHANGED <<session, overlay, password, logging, slot, signedIn>>

\* POST /v1/session/revoke ends every session of the pet.
Revoke(t) ==
    /\ session[t] = "active"
    /\ session' = [s \in PetTokens |->
                      IF s[1] = t[1] /\ session[s] # "none" THEN "revoked" ELSE session[s]]
    /\ UNCHANGED <<overlay, password, cache, logging, slot, signedIn>>

\* The relay starts again: what is in memory is gone, logins under way with it.
RelayRestarts ==
    /\ session' = [t \in PetTokens |-> SyncConfigPets(t)]
    /\ overlay' = [p \in Pets |-> NoOverlay]
    /\ cache' = {}
    /\ logging' = {}
    /\ signedIn' = {}
    /\ UNCHANGED <<password, slot>>

\* upsertWpSlot: a slot that sends no account keeps the one it sent before.
Upserted(auth) == [row |-> TRUE, fresh |-> TRUE, auth |-> auth \/ slot.auth]

\* backendRegister.
SlotRegisters(auth) ==
    /\ slot' = Upserted(auth)
    /\ UNCHANGED <<session, overlay, password, cache, logging, signedIn>>

\* backendHeartbeat, touchWpSlot: a slot that was let go stale is back, account and all.
SlotBeats ==
    /\ slot.row
    /\ slot' = [slot EXCEPT !.fresh = TRUE]
    /\ UNCHANGED <<session, overlay, password, cache, logging, signedIn>>

\* No heartbeat of the slot within its TTL.
SlotGoesStale ==
    /\ slot.fresh
    /\ slot' = [slot EXCEPT !.fresh = FALSE]
    /\ UNCHANGED <<session, overlay, password, cache, logging, signedIn>>

\* Ten minutes after a WorkPanel session was cached.
CacheExpires(entry) ==
    /\ entry \in cache
    /\ cache' = cache \ {entry}
    /\ UNCHANGED <<session, overlay, password, logging, slot, signedIn>>

\* The user changes the password in WorkPanel.
PasswordChanges(a) ==
    /\ password[a] < MaxPasswords[a]
    /\ password' = [password EXCEPT ![a] = @ + 1]
    /\ UNCHANGED <<session, overlay, cache, logging, slot, signedIn>>

AccessNext ==
    \/ \E a \in Accounts, p \in Passwords :
        \/ Login(a, p)
        \/ \E t \in PetTokens : LoginRecorded(a, p, t)
    \/ \E t \in PetTokens : Request(t) \/ Revoke(t)
    \/ \E auth \in BOOLEAN : SlotRegisters(auth)
    \/ \E a \in Accounts : PasswordChanges(a)
    \/ \E entry \in cache : CacheExpires(entry)
    \/ RelayRestarts
    \/ SlotBeats
    \/ SlotGoesStale

AccessSpec == AccessInit /\ [][AccessNext]_accessVars

-----------------------------------------------------------------------------

(* The relay remembers for a pet, and signs in with, only an account of that *)
(* pet and a password WorkPanel accepted for it: a wrong one never replaces  *)
(* it, not even while a session of the account is cached.                    *)
RememberedWasAccepted ==
    \A p \in Pets : overlay[p] # NoOverlay =>
        /\ PetOf[overlay[p].user] = p
        /\ overlay[p].password <= password[overlay[p].user]

(* A token handed out since the relay started is served as an account that   *)
(* has logged in to its pet since then, whatever sessions of others are      *)
(* cached and whatever slot is registered meanwhile.                         *)
ServedAsALogin ==
    \A entry \in signedIn : \A u \in ServedAs(entry[1][1]) :
        \E other \in signedIn : other[1][1] = entry[1][1] /\ other[2] = u

(* It is served as the very account it was handed to, unless another account *)
(* shares the pet id.  (Then it is the one that logged in last; and after a  *)
(* restart a token is served as the shared account until a login.)           *)
ItselfUnlessShared ==
    \A entry \in signedIn :
        (\A b \in Accounts : PetOf[b] = entry[1][1] => b = entry[2])
            => ServedAs(entry[1][1]) \subseteq {entry[2]}

(* Together: a pet is one of its own accounts towards WorkPanel, or nobody.  *)
PetIsItself == RememberedWasAccepted /\ ServedAsALogin /\ ItselfUnlessShared
=============================================================================
