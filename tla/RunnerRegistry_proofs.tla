--------------------------- MODULE RunnerRegistry_proofs ---------------------------
(***************************************************************************)
(* Proofs about RunnerRegistry: credentials are fenced and a Runner comes  *)
(* back only with a proof, for every set of Runners, codes and bindings.   *)
(*                                                                         *)
(* CredentialsAreFenced is not inductive.  RegistryInv adds that a Runner whose   *)
(* row holds a credential's token is the device of its code (HashInv) and  *)
(* that the credentials of a code follow each other (CodeInv).             *)
(***************************************************************************)
EXTENDS RunnerRegistry, TLAPS

\* The token in a row is of a credential issued to that Runner, not replaced since.
HashInv ==
    \A a \in Agents, c \in Codes, n \in Numbers :
        hash[a] = <<c, n>> =>
            device[c] = a /\ credential[<<c, n>>] \notin {"none", "rotated"}

\* Credentials are issued under approved codes, each after the rotation of all before.
CodeInv ==
    \A c \in Codes, n \in Numbers :
        credential[<<c, n>>] # "none" =>
            /\ enrollment[c] = "approved"
            /\ \A m \in Numbers : m < n => credential[<<c, m>>] = "rotated"

RegistryInv == RegistryTypeOK /\ HashInv /\ CodeInv

\* A configured token and the absence of one are no credential.
LEMMA NoCredential ==
    /\ \A c \in Codes, n \in Numbers : NoToken # <<c, n>>
    /\ \A a \in Provisioned, c \in Codes, n \in Numbers : ConfigToken(a) # <<c, n>>
<1>1. ASSUME NEW c \in Codes, NEW n \in Numbers PROVE NoToken # <<c, n>>
  BY DEF NoToken
<1>2. ASSUME NEW a \in Provisioned, NEW c \in Codes, NEW n \in Numbers
      PROVE  ConfigToken(a) # <<c, n>>
  BY RunnerRegistryAssumption DEF ConfigToken
<1> QED
  BY <1>1, <1>2

\* The first number is a number, and the next of one below the bound.
LEMMA NumbersFacts ==
    /\ 1 \in Numbers
    /\ \A n \in Numbers : n \in Nat /\ ~(n < 1) /\ (n < MaxCredentials => n + 1 \in Numbers)
BY RunnerRegistryAssumption DEF Numbers

-----------------------------------------------------------------------------

LEMMA RegistryInit_Inv == RegistryInit => RegistryInv
<1> SUFFICES ASSUME RegistryInit PROVE RegistryInv
  OBVIOUS
<1>1. RegistryTypeOK
  BY RunnerRegistryAssumption DEF RegistryInit, RegistryTypeOK, Tokens, ConfiguredBindings
<1>2. HashInv
  BY NoCredential DEF RegistryInit, HashInv
<1>3. CodeInv
  BY DEF RegistryInit, CodeInv, Credentials
<1> QED
  BY <1>1, <1>2, <1>3 DEF RegistryInv

LEMMA RegistryStep_Inv == RegistryInv /\ [RegistryNext]_registryVars => RegistryInv'
<1> SUFFICES ASSUME RegistryInv, [RegistryNext]_registryVars PROVE RegistryInv'
  OBVIOUS
<1>0. RegistryTypeOK /\ HashInv /\ CodeInv
  BY DEF RegistryInv
<1>a. \A c \in Codes, n \in Numbers : <<c, n>> \in Credentials /\ <<c, n>> \in Tokens
  BY DEF Credentials, Tokens
<1>1. CASE RelayStarts
  <2>1. RegistryTypeOK'
    BY <1>0, <1>1, RunnerRegistryAssumption
    DEF RelayStarts, RegistryTypeOK, ConfiguredBindings
  <2>2. HashInv' /\ CodeInv'
    BY <1>0, <1>1 DEF RelayStarts, HashInv, CodeInv
  <2> QED
    BY <2>1, <2>2 DEF RegistryInv
<1>2. ASSUME NEW c \in Codes, NEW a \in Agents, CreateEnrollment(c, a) PROVE RegistryInv'
  <2>1. RegistryTypeOK'
    BY <1>0, <1>2 DEF CreateEnrollment, RegistryTypeOK
  <2>2. \A n \in Numbers : credential[<<c, n>>] = "none"
    BY <1>0, <1>2 DEF CreateEnrollment, CodeInv
  <2>3. HashInv'
    BY <1>0, <1>2, <2>2 DEF CreateEnrollment, HashInv, RegistryTypeOK
  <2>4. CodeInv'
    BY <1>0, <1>2, <2>2 DEF CreateEnrollment, CodeInv, RegistryTypeOK
  <2> QED
    BY <2>1, <2>3, <2>4 DEF RegistryInv
<1>3. ASSUME NEW c \in Codes, ApproveEnrollment(c) PROVE RegistryInv'
  <2>1. RegistryTypeOK'
    BY <1>0, <1>3 DEF ApproveEnrollment, RegistryTypeOK
  <2>2. \A n \in Numbers : credential[<<c, n>>] = "none"
    BY <1>0, <1>3 DEF ApproveEnrollment, CodeInv
  <2>3. \A b \in Codes, n \in Numbers :
            credential'[<<b, n>>] =
                IF b = c /\ n = 1 THEN "active" ELSE credential[<<b, n>>]
    BY <1>0, <1>a, <1>3 DEF ApproveEnrollment, RegistryTypeOK
  <2>4. HashInv'
    BY <1>0, <1>3, <2>2, <2>3 DEF ApproveEnrollment, HashInv
  <2>5. CodeInv'
    BY <1>0, <1>3, <2>2, <2>3, NumbersFacts DEF ApproveEnrollment, CodeInv, RegistryTypeOK
  <2> QED
    BY <2>1, <2>4, <2>5 DEF RegistryInv
<1>4. ASSUME NEW c \in Codes, RejectEnrollment(c) PROVE RegistryInv'
  <2>1. RegistryTypeOK'
    BY <1>0, <1>4 DEF RejectEnrollment, RegistryTypeOK
  <2>2. HashInv' /\ CodeInv'
    BY <1>0, <1>4 DEF RejectEnrollment, HashInv, CodeInv, RegistryTypeOK
  <2> QED
    BY <2>1, <2>2 DEF RegistryInv
<1>5. ASSUME NEW c \in Codes, NEW n \in Numbers, RotateCredential(c, n) PROVE RegistryInv'
  <2>1. PICK a \in Agents : hash[a] = <<c, n>>
    BY <1>5 DEF RotateCredential
  <2>2. device[c] = a
    BY <1>0, <2>1 DEF HashInv
  <2>3. n + 1 \in Numbers /\ n + 1 # n
    BY <1>5, NumbersFacts DEF RotateCredential
  <2>4. \A b \in Codes, m \in Numbers :
            credential'[<<b, m>>] = IF b = c /\ m = n + 1 THEN "active"
                                    ELSE IF b = c /\ m = n THEN "rotated"
                                    ELSE credential[<<b, m>>]
    BY <1>0, <1>a, <1>5, <2>3 DEF RotateCredential, RegistryTypeOK
  <2>5. hash' = [hash EXCEPT ![a] = <<c, n + 1>>]
    BY <1>5, <2>2 DEF RotateCredential
  <2>6. RegistryTypeOK'
    <3>1. hash' \in [Agents -> Tokens]
      BY <1>0, <1>a, <2>3, <2>5 DEF RegistryTypeOK
    <3> QED
      BY <1>0, <1>5, <3>1 DEF RotateCredential, RegistryTypeOK
  <2>7. \A m \in Numbers : n < m => credential[<<c, m>>] = "none"
    BY <1>0, <1>5 DEF CodeInv, RotateCredential
  <2>8. HashInv'
    <3> SUFFICES ASSUME NEW b \in Agents, NEW d \in Codes, NEW m \in Numbers,
                        hash'[b] = <<d, m>>
                 PROVE  device'[d] = b /\ credential'[<<d, m>>] \notin {"none", "rotated"}
      BY DEF HashInv
    <3>1. device' = device
      BY <1>5 DEF RotateCredential
    <3>2. CASE b = a
      BY <1>0, <2>2, <2>3, <2>4, <2>5, <3>1, <3>2 DEF RegistryTypeOK
    <3>3. CASE b # a
      <4>1. hash[b] = <<d, m>>
        BY <1>0, <2>5, <3>3 DEF RegistryTypeOK
      <4>2. device[d] = b /\ credential[<<d, m>>] \notin {"none", "rotated"}
        BY <1>0, <4>1 DEF HashInv
      <4>3. d # c
        BY <2>2, <3>3, <4>2
      <4> QED
        BY <2>4, <3>1, <4>2, <4>3
    <3> QED
      BY <3>2, <3>3
  <2>9. CodeInv'
    <3>1. enrollment' = enrollment /\ credential[<<c, n>>] = "active"
      BY <1>5 DEF RotateCredential
    <3>2. enrollment[c] = "approved" /\
          \A m \in Numbers : m < n => credential[<<c, m>>] = "rotated"
      BY <1>0, <3>1 DEF CodeInv
    <3> SUFFICES ASSUME NEW b \in Codes, NEW m \in Numbers, credential'[<<b, m>>] # "none"
                 PROVE  /\ enrollment'[b] = "approved"
                        /\ \A i \in Numbers : i < m => credential'[<<b, i>>] = "rotated"
      BY DEF CodeInv
    <3>3. CASE b # c
      BY <1>0, <2>4, <3>1, <3>3 DEF CodeInv
    <3>4. CASE b = c
      <4>1. n \in Nat /\ m \in Nat /\ \A i \in Numbers : i \in Nat
        BY NumbersFacts
      <4>2. ~(n + 1 < m)
        BY <2>4, <2>7, <3>4, <4>1
      <4> QED
        BY <2>4, <3>1, <3>2, <3>4, <4>1, <4>2
    <3> QED
      BY <3>3, <3>4
  <2> QED
    BY <2>6, <2>8, <2>9 DEF RegistryInv
<1>6. ASSUME NEW c \in Codes, NEW n \in Numbers,
             RevokeCredential(c, n) \/ CredentialExpires(c, n)
      PROVE  RegistryInv'
  <2>1. PICK s \in {"revoked", "expired"} :
            credential' = [credential EXCEPT ![<<c, n>>] = s]
    BY <1>6 DEF RevokeCredential, CredentialExpires
  <2>2. /\ credential[<<c, n>>] \in {"active", "expired"}
        /\ UNCHANGED <<enrollment, device, hash>>
    BY <1>6 DEF RevokeCredential, CredentialExpires
  <2>3. \A b \in Codes, m \in Numbers :
            credential'[<<b, m>>] =
                IF b = c /\ m = n THEN s ELSE credential[<<b, m>>]
    BY <1>0, <1>a, <2>1 DEF RegistryTypeOK
  <2>4. RegistryTypeOK'
    BY <1>0, <1>6 DEF RevokeCredential, CredentialExpires, RegistryTypeOK
  <2>5. HashInv'
    BY <1>0, <2>2, <2>3 DEF HashInv
  <2>6. CodeInv'
    BY <1>0, <2>2, <2>3 DEF CodeInv
  <2> QED
    BY <2>4, <2>5, <2>6 DEF RegistryInv
<1>7. ASSUME NEW a \in Agents, NEW k \in Tokens, NEW taken \in SUBSET Bindable,
             RegisterRunner(a, k, taken)
      PROVE  RegistryInv'
  <2>1. RegistryTypeOK'
    BY <1>0, <1>7 DEF RegisterRunner, RegistryTypeOK
  <2>2. ASSUME NEW c \in Codes, NEW n \in Numbers, k = <<c, n>>
        PROVE  device[c] = a /\ credential[<<c, n>>] = "active"
    <3>1. ~(a \in Provisioned /\ k = ConfigToken(a))
      BY <2>2, NoCredential
    <3>2. HasCredential(a, k)
      BY <1>7, <3>1 DEF RegisterRunner, MayRegister
    <3> QED
      BY <2>2, <3>2 DEF HasCredential
  <2>3. HashInv'
    BY <1>0, <1>7, <2>2 DEF RegisterRunner, HashInv, RegistryTypeOK
  <2>4. CodeInv'
    BY <1>0, <1>7 DEF RegisterRunner, CodeInv
  <2> QED
    BY <2>1, <2>3, <2>4 DEF RegistryInv
<1>8. ASSUME NEW a \in Agents,
             RequestArrives(a) \/ HeartbeatRunner(a) \/ HeartbeatGoesStale(a)
      PROVE  RegistryInv'
  <2>1. RegistryTypeOK'
    BY <1>0, <1>8 DEF RequestArrives, HeartbeatRunner, HeartbeatGoesStale, RegistryTypeOK
  <2>2. HashInv' /\ CodeInv'
    BY <1>0, <1>8 DEF RequestArrives, HeartbeatRunner, HeartbeatGoesStale, HashInv, CodeInv
  <2> QED
    BY <2>1, <2>2 DEF RegistryInv
<1>9. CASE UNCHANGED registryVars
  BY <1>0, <1>9 DEF registryVars, RegistryInv, RegistryTypeOK, HashInv, CodeInv
<1> QED
  BY ONLY [RegistryNext]_registryVars, <1>1, <1>2, <1>3, <1>4, <1>5, <1>6, <1>7, <1>8, <1>9
  DEF RegistryNext

\* In every behaviour of the registry the inductive invariant holds.
THEOREM RegistryInvariance == RegistrySpec => []RegistryInv
<1> QED
  BY RegistryInit_Inv, RegistryStep_Inv, PTL DEF RegistrySpec

-----------------------------------------------------------------------------

\* The variables keep their types.
THEOREM RegistryTypeCorrect == RegistrySpec => []RegistryTypeOK
<1>1. RegistryInv => RegistryTypeOK
  BY DEF RegistryInv
<1> QED
  BY RegistryInvariance, <1>1, PTL

\* Whatever order codes are approved, rotated, revoked and used in, a code has one
\* credential in force at most, and a token that was rotated away is nobody's.
THEOREM CredentialsAreFencedHolds == RegistrySpec => []CredentialsAreFenced
<1>1. RegistryInv => CredentialsAreFenced
  <2> SUFFICES ASSUME RegistryInv PROVE CredentialsAreFenced
    OBVIOUS
  <2>0. HashInv /\ CodeInv
    BY DEF RegistryInv
  <2>1. OneCredentialPerCode
    <3> SUFFICES ASSUME NEW c \in Codes
                 PROVE  /\ \A i, j \in ActiveUnder(c) : i = j
                        /\ ActiveUnder(c) # {} => enrollment[c] = "approved"
      BY DEF OneCredentialPerCode
    <3>1. ASSUME NEW i \in ActiveUnder(c), NEW j \in ActiveUnder(c), i # j PROVE FALSE
      <4>1. /\ i \in Numbers /\ j \in Numbers /\ i \in Nat /\ j \in Nat
            /\ credential[<<c, i>>] = "active" /\ credential[<<c, j>>] = "active"
        BY NumbersFacts DEF ActiveUnder
      <4>2. i < j \/ j < i
        BY <3>1, <4>1
      <4> QED
        BY <2>0, <4>1, <4>2 DEF CodeInv
    <3>2. ActiveUnder(c) # {} => enrollment[c] = "approved"
      BY <2>0 DEF CodeInv, ActiveUnder
    <3> QED
      BY <3>1, <3>2
  <2>2. RotatedTokenIsDead
    <3> SUFFICES ASSUME NEW d \in Credentials, NEW a \in Agents,
                        credential[d] = "rotated", hash[a] = d
                 PROVE  FALSE
      BY DEF RotatedTokenIsDead
    <3>1. PICK c \in Codes, n \in Numbers : d = <<c, n>>
      BY DEF Credentials
    <3> QED
      BY <2>0, <3>1 DEF HashInv
  <2> QED
    BY <2>1, <2>2 DEF CredentialsAreFenced
<1> QED
  BY RegistryInvariance, <1>1, PTL

\* A Runner that was disabled is active again only if the configuration or a
\* credential in force vouches for it, or by a request that was under way when it
\* was disabled; under required credentials nothing else is a sign of its life.
THEOREM ComebackNeedsProofHolds == RegistrySpec => ComebackNeedsProof
<1> DEFINE P(a) ==
      /\ rstatus[a] = "disabled" /\ rstatus'[a] = "active" => Vouched(a) \/ a \in inflight
      /\ required /\ ~seen[a] /\ seen'[a] =>
           a \in inflight \/ \E d \in Credentials : HasCredential(a, d)
<1>1. RegistryInv /\ [RegistryNext]_registryVars => [\A a \in Agents : P(a)]_registryVars
  <2> SUFFICES ASSUME RegistryInv, RegistryNext, NEW a \in Agents PROVE P(a)
    OBVIOUS
  <2>0. RegistryTypeOK /\ HashInv
    BY DEF RegistryInv
  <2>1. CASE RelayStarts
    BY <2>0, <2>1 DEF RelayStarts, Vouched, RegistryTypeOK
  <2>2. ASSUME NEW c \in Codes,
               \/ \E b \in Agents : CreateEnrollment(c, b)
               \/ ApproveEnrollment(c) \/ RejectEnrollment(c)
               \/ \E n \in Numbers : CredentialExpires(c, n)
        PROVE  P(a)
    BY <2>2 DEF CreateEnrollment, ApproveEnrollment, RejectEnrollment, CredentialExpires
  <2>3. ASSUME NEW c \in Codes, NEW n \in Numbers, RotateCredential(c, n) PROVE P(a)
    <3>1. HasCredential(device[c], <<c, n>>) /\ <<c, n>> \in Credentials
      BY <2>3 DEF RotateCredential, HasCredential, Credentials
    <3>2. rstatus' = rstatus /\ seen' = [seen EXCEPT ![device[c]] = TRUE]
      BY <2>3 DEF RotateCredential
    <3> QED
      BY <2>0, <3>1, <3>2 DEF RegistryTypeOK
  <2>4. ASSUME NEW c \in Codes, NEW n \in Numbers, RevokeCredential(c, n) PROVE P(a)
    BY <2>0, <2>4 DEF RevokeCredential, RegistryTypeOK
  <2>5. ASSUME NEW b \in Agents, NEW k \in Tokens, NEW taken \in SUBSET Bindable,
               RegisterRunner(b, k, taken)
        PROVE  P(a)
    <3>1. CASE b = a
      <4>1. (required => HasCredential(a, k)) /\ Vouched(a)
        BY <2>5, <3>1 DEF RegisterRunner, MayRegister, Vouched, HasCredential
      <4> QED
        BY <4>1 DEF HasCredential
    <3>2. CASE b # a
      BY <2>0, <2>5, <3>2 DEF RegisterRunner, RegistryTypeOK
    <3> QED
      BY <3>1, <3>2
  <2>6. ASSUME NEW b \in Agents, RequestArrives(b) PROVE P(a)
    <3>1. CASE b = a
      <4>1. rstatus[a] = "active"
        BY <2>6, <3>1 DEF RequestArrives, Authenticated
      <4>2. ASSUME required PROVE HasCredential(a, hash[a]) /\ hash[a] \in Credentials
        <5>1. hash[a] \in Credentials /\ credential[hash[a]] = "active"
          BY <2>6, <3>1, <4>2 DEF RequestArrives, Authenticated
        <5>2. PICK c \in Codes, n \in Numbers : hash[a] = <<c, n>>
          BY <5>1 DEF Credentials
        <5>3. device[c] = a
          BY <2>0, <5>2 DEF HashInv
        <5>4. hash[a][1] = c
          BY <5>2
        <5> QED
          BY <5>1, <5>3, <5>4 DEF HasCredential
      <4> QED
        BY <4>1, <4>2
    <3>2. CASE b # a
      BY <2>0, <2>6, <3>2 DEF RequestArrives, RegistryTypeOK
    <3> QED
      BY <3>1, <3>2
  <2>7. ASSUME NEW b \in Agents, HeartbeatRunner(b) \/ HeartbeatGoesStale(b) PROVE P(a)
    BY <2>0, <2>7 DEF HeartbeatRunner, HeartbeatGoesStale, RegistryTypeOK
  <2> QED
    BY ONLY RegistryNext, <2>1, <2>2, <2>3, <2>4, <2>5, <2>6, <2>7 DEF RegistryNext
<1> QED
  BY RegistryInvariance, <1>1, PTL DEF RegistrySpec, ComebackNeedsProof, P

================================================================================
