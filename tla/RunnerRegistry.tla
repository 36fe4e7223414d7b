----------------------------- MODULE RunnerRegistry -----------------------------
(***************************************************************************)
(* Who may act as a Runner: enrollment codes, device credentials, the rows *)
(* of runners with their tokens and status, registration, heartbeats and   *)
(* the bindings of agents to Runners (src/src/relay/enrollment.js,         *)
(* credentialStore.js, runners.js, authPet.js).                            *)
(*                                                                         *)
(* A Runner is known by the one token whose hash its row holds: the token  *)
(* of the configuration, or the token of a device credential.  A code is   *)
(* used for one enrollment request; approving it issues a first credential *)
(* and each rotation the next one, so <<c, n>> names the n-th credential   *)
(* of code c, and its token.  The checks of a request and the transaction  *)
(* they lead to run without a pause, except in the handlers that first     *)
(* wait for the rest of the request (server.js).                           *)
(***************************************************************************)
EXTENDS Integers, FiniteSets

CONSTANTS
    Agents,           \* Runner ids
    Provisioned,      \* those listed in config.runners, with a token
    Bindable,         \* what an agent name in a group is bound for
    ConfigBindings,   \* the groups config.runners binds each provisioned Runner to
    Codes,            \* config.enrollment.codes
    MaxCredentials    \* bound: credentials issued under one code

ASSUME RunnerRegistryAssumption ==
    /\ Provisioned \subseteq Agents
    /\ ConfigBindings \in [Provisioned -> SUBSET Bindable]
    /\ MaxCredentials \in Nat \ {0}
    /\ "config" \notin Codes   \* a code's token is never taken for a configured one

VARIABLES
    required,     \* config.enrollment.requireDeviceCredentials
    enrollment,   \* enrollment_requests.status by code, "unused" if there is no row
    device,       \* enrollment_requests.local_id: the Runner the code was used for
    credential,   \* device_credentials.status
    hash,         \* runners.token_hash, NoToken if there is no row
    rstatus,      \* runners.status
    seen,         \* runners.last_seen_at lies within the heartbeat TTL
    binding,      \* runner_bindings.runner_id of each group
    inflight      \* Runners with an authenticated heartbeat whose body is still awaited

registryVars ==
    <<required, enrollment, device, credential, hash, rstatus, seen, binding, inflight>>

-----------------------------------------------------------------------------

Numbers == 1..MaxCredentials
Credentials == Codes \X Numbers
NoToken == <<"no token">>
ConfigToken(a) == <<"config", a>>
NoAgent == "no agent"
Tokens == Credentials \cup {ConfigToken(a) : a \in Provisioned} \cup {NoToken}

RegistryTypeOK ==
    /\ required \in BOOLEAN
    /\ enrollment \in [Codes -> {"unused", "pending", "approved", "rejected"}]
    /\ device \in [Codes -> Agents \cup {NoAgent}]
    /\ credential \in [Credentials -> {"none", "active", "rotated", "revoked", "expired"}]
    /\ hash \in [Agents -> Tokens]
    /\ rstatus \in [Agents -> {"absent", "active", "disabled"}]
    /\ seen \in [Agents -> BOOLEAN]
    /\ binding \in [Bindable -> Agents \cup {NoAgent}]
    /\ inflight \in SUBSET Agents

\* Who can be bound after syncConfigRunners: the last claimant in the list wins.
ConfiguredBindings(bind) ==
    {owner \in [Bindable -> Agents \cup {NoAgent}] :
        \A g \in Bindable :
            LET claimants == {a \in Provisioned : g \in ConfigBindings[a]}
            IN  owner[g] \in (IF claimants = {} THEN {bind[g]} ELSE claimants)}

RegistryInit ==
    /\ required \in BOOLEAN
    /\ enrollment = [c \in Codes |-> "unused"]
    /\ device = [c \in Codes |-> NoAgent]
    /\ credential = [d \in Credentials |-> "none"]
    /\ hash = [a \in Agents |-> IF a \in Provisioned THEN ConfigToken(a) ELSE NoToken]
    /\ rstatus = [a \in Agents |-> IF a \in Provisioned THEN "active" ELSE "absent"]
    /\ seen = [a \in Agents |-> FALSE]
    /\ binding \in ConfiguredBindings([g \in Bindable |-> NoAgent])
    /\ inflight = {}

\* The relay starts again: no request is under way, and syncConfigRunners makes
\* every configured Runner active; its row keeps the token it has.
RelayStarts ==
    /\ rstatus' = [a \in Agents |-> IF a \in Provisioned THEN "active" ELSE rstatus[a]]
    /\ binding' \in ConfiguredBindings(binding)
    /\ inflight' = {}
    /\ UNCHANGED <<required, enrollment, device, credential, hash, seen>>

-----------------------------------------------------------------------------
(* Enrollment. *)

\* A code makes one request, whatever becomes of it (UNIQUE code_hash).
CreateEnrollment(c, a) ==
    /\ enrollment[c] = "unused"
    /\ enrollment' = [enrollment EXCEPT ![c] = "pending"]
    /\ device' = [device EXCEPT ![c] = a]
    /\ UNCHANGED <<required, credential, hash, rstatus, seen, binding, inflight>>

\* Mutation: an enrollment reviewed before can be approved.
ApproveAnyEnrollment(c) ==
    /\ enrollment[c] # "unused"
    /\ enrollment' = [enrollment EXCEPT ![c] = "approved"]
    /\ credential' = [credential EXCEPT ![<<c, 1>>] = "active"]
    /\ UNCHANGED <<required, device, hash, rstatus, seen, binding, inflight>>

ApproveEnrollment(c) ==
    /\ enrollment[c] = "pending"
    /\ enrollment' = [enrollment EXCEPT ![c] = "approved"]
    /\ credential' = [credential EXCEPT ![<<c, 1>>] = "active"]
    /\ UNCHANGED <<required, device, hash, rstatus, seen, binding, inflight>>

RejectEnrollment(c) ==
    /\ enrollment[c] = "pending"
    /\ enrollment' = [enrollment EXCEPT ![c] = "rejected"]
    /\ UNCHANGED <<required, device, credential, hash, rstatus, seen, binding, inflight>>

-----------------------------------------------------------------------------
(* Registration. *)

\* findCredentialForRunnerToken.
HasCredential(a, k) == k \in Credentials /\ credential[k] = "active" /\ device[k[1]] = a

\* What registerRunner asks of the token before its transaction.
MayRegister(a, k) ==
    \/ HasCredential(a, k)
    \/ ~required /\ a \in Provisioned /\ k = ConfigToken(a)

\* The Runner's row comes first, an existing one keeps its token; then the
\* bindings, each taken from whoever held it.  A registration refused here (no
\* group, a group outside the credential's scope, a binding that conflicts) is
\* answered by a value and not by an exception: what was written is committed.
RegisterRunner(a, k, taken) ==
    /\ MayRegister(a, k)
    /\ hash' = [hash EXCEPT ![a] = IF rstatus[a] = "absent" THEN k ELSE @]
    /\ rstatus' = [rstatus EXCEPT ![a] = "active"]
    /\ seen' = [seen EXCEPT ![a] = TRUE]
    /\ binding' = [g \in Bindable |-> IF g \in taken THEN a ELSE binding[g]]
    /\ UNCHANGED <<required, enrollment, device, credential, inflight>>

-----------------------------------------------------------------------------
(* The requests of a Runner. *)

\* Mutation: the token alone makes a Runner.
AuthenticatedByToken(a) == rstatus[a] # "absent"

\* authenticateRequest, for the token whose hash the row of a holds.
Authenticated(a) ==
    /\ rstatus[a] = "active"
    /\ required => hash[a] \in Credentials /\ credential[hash[a]] = "active"

\* Every authenticated request is a sign of life; a heartbeat, an
\* acknowledgement or a result then waits for its body.
RequestArrives(a) ==
    /\ Authenticated(a)
    /\ rstatus' = [rstatus EXCEPT ![a] = "active"]
    /\ seen' = [seen EXCEPT ![a] = TRUE]
    /\ inflight' = inflight \cup {a}
    /\ UNCHANGED <<required, enrollment, device, credential, hash, binding>>

\* heartbeatRunner touches the row as it was found before the wait.
HeartbeatRunner(a) ==
    /\ a \in inflight
    /\ rstatus' = [rstatus EXCEPT ![a] = "active"]
    /\ seen' = [seen EXCEPT ![a] = TRUE]
    /\ inflight' = inflight \ {a}
    /\ UNCHANGED <<required, enrollment, device, credential, hash, binding>>

\* Mutation: the row keeps the token of the credential that was replaced.
RotateCredentialKeepingHash(c, n) ==
    /\ n < MaxCredentials
    /\ credential[<<c, n>>] = "active"
    /\ \E a \in Agents : hash[a] = <<c, n>> /\ rstatus[a] = "active"
    /\ credential' = [credential EXCEPT ![<<c, n>>] = "rotated", ![<<c, n + 1>>] = "active"]
    /\ seen' = [seen EXCEPT ![device[c]] = TRUE]
    /\ UNCHANGED <<required, enrollment, device, hash, rstatus, binding, inflight>>

\* The Runner that is known by a credential's token replaces it.
RotateCredential(c, n) ==
    /\ n < MaxCredentials
    /\ credential[<<c, n>>] = "active"
    /\ \E a \in Agents : hash[a] = <<c, n>> /\ rstatus[a] = "active"
    /\ credential' = [credential EXCEPT ![<<c, n>>] = "rotated", ![<<c, n + 1>>] = "active"]
    /\ hash' = [hash EXCEPT ![device[c]] = <<c, n + 1>>]
    /\ seen' = [seen EXCEPT ![device[c]] = TRUE]
    /\ UNCHANGED <<required, enrollment, device, rstatus, binding, inflight>>

-----------------------------------------------------------------------------
(* The operator, and time. *)

\* The row is still 'active' when its time is over: it can be revoked then too.
RevokeCredential(c, n) ==
    /\ credential[<<c, n>>] \in {"active", "expired"}
    /\ credential' = [credential EXCEPT ![<<c, n>>] = "revoked"]
    /\ rstatus' = [rstatus EXCEPT ![device[c]] = IF @ = "absent" THEN @ ELSE "disabled"]
    /\ UNCHANGED <<required, enrollment, device, hash, seen, binding, inflight>>

CredentialExpires(c, n) ==
    /\ credential[<<c, n>>] = "active"
    /\ credential' = [credential EXCEPT ![<<c, n>>] = "expired"]
    /\ UNCHANGED <<required, enrollment, device, hash, rstatus, seen, binding, inflight>>

HeartbeatGoesStale(a) ==
    /\ seen[a]
    /\ seen' = [seen EXCEPT ![a] = FALSE]
    /\ UNCHANGED <<required, enrollment, device, credential, hash, rstatus, binding, inflight>>

-----------------------------------------------------------------------------

RegistryNext ==
    \/ RelayStarts
    \/ \E c \in Codes :
        \/ \E a \in Agents : CreateEnrollment(c, a)
        \/ ApproveEnrollment(c) \/ RejectEnrollment(c)
        \/ \E n \in Numbers :
            RotateCredential(c, n) \/ RevokeCredential(c, n) \/ CredentialExpires(c, n)
    \/ \E a \in Agents :
        \/ \E k \in Tokens, taken \in SUBSET Bindable :
             RegisterRunner(a, k, taken)
        \/ RequestArrives(a) \/ HeartbeatRunner(a) \/ HeartbeatGoesStale(a)

RegistrySpec == RegistryInit /\ [][RegistryNext]_registryVars

-----------------------------------------------------------------------------
(* What the registry promises. *)

ActiveUnder(c) == {n \in Numbers : credential[<<c, n>>] = "active"}

\* One code, one device: at any time at most one credential of it is good, none
\* before it is approved and none if it was rejected, however approvals,
\* rotations and revocations follow each other.
OneCredentialPerCode ==
    \A c \in Codes :
        /\ \A i, j \in ActiveUnder(c) : i = j
        /\ ActiveUnder(c) # {} => enrollment[c] = "approved"

\* A token that was rotated away is nobody's: no registration, restart or
\* heartbeat makes it the token of a Runner again.
RotatedTokenIsDead ==
    \A d \in Credentials, a \in Agents : credential[d] = "rotated" => hash[a] # d

\* Both: whatever order codes are approved, rotated, revoked and used in, a device
\* has one good token, the newest.
CredentialsAreFenced == OneCredentialPerCode /\ RotatedTokenIsDead

\* Somebody vouches for a now: the configuration, or a credential in force.
Vouched(a) ==
    \/ a \in Provisioned
    \/ \E d \in Credentials : HasCredential(a, d)

\* A Runner that was disabled comes back only if somebody vouches for it, or by
\* a request that was under way at that moment; where credentials are required,
\* a Runner without one is not even seen again.
ComebackNeedsProof ==
    [][\A a \in Agents :
        /\ rstatus[a] = "disabled" /\ rstatus'[a] = "active" => Vouched(a) \/ a \in inflight
        /\ required /\ ~seen[a] /\ seen'[a] =>
             a \in inflight \/ \E d \in Credentials : HasCredential(a, d)]_registryVars

================================================================================
