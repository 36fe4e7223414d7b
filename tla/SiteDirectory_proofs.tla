--------------------------- MODULE SiteDirectory_proofs ---------------------------
(***************************************************************************)
(* Proofs about SiteDirectory: a route is never older than its two lives,  *)
(* and a revoked Site stays out, for every set of Sites, subjects and      *)
(* policies and every lifetime.                                            *)
(*                                                                         *)
(* RouteIsRecent looks at the end of the way a route takes.  DirectoryInv follows  *)
(* it: an agent that is alive, an advertisement under way, the Host's row, *)
(* a listing under way and the imported endpoint each bound how long ago   *)
(* the agent was alive, by what is left of them.                           *)
(***************************************************************************)
EXTENDS SiteDirectory, TLAPS

AliveInv == \A s \in Sites : \A x \in alive[s] : since[<<s, x>>] = 0
AdvertInv == \A s \in Sites : \A x \in advert[s].routes : since[<<s, x>>] <= advert[s].age
HostInv == \A p \in Pairs : hostLeft[p] > 0 => since[p] + hostLeft[p] <= Ttl + 1
AnswerInv == \A s \in Sites : \A p \in answer[s].routes : since[p] <= Ttl + answer[s].age
RouteInv ==
    \A s, t \in Sites, x \in Subjects :
        knows[s][x] = t /\ routeLeft[s][x] > 0 =>
            since[<<t, x>>] + routeLeft[s][x] <= 2 * Ttl + 1

\* What the operator last granted is the token of the row, or none if it is revoked.
GrantInv ==
    \A s \in Sites : granted[s] = IF peer[s] = "revoked" THEN NoGrant ELSE peerToken[s]

DirectoryInv ==
    DirectoryTypeOK /\ GrantInv /\ AliveInv /\ AdvertInv /\ HostInv /\ AnswerInv /\ RouteInv

\* The parts of the state the age of a route depends on.
timing == <<advert, answer, hostLeft, knows, routeLeft, alive, since>>

LEMMA InFlightFacts ==
    ASSUME NEW R, NEW r \in InFlight(R)
    PROVE  /\ r.routes \subseteq R /\ r.age \in {0, 1, 2}
           /\ r.age = 2 => r = Nothing
           /\ r.age \in {0, 1} => r \in [routes : SUBSET R, age : {0, 1}]
           /\ Nothing \in InFlight(R) /\ Older(r) \in InFlight(R)
           /\ Older(r).routes = r.routes
           /\ r.age = 0 => Older(r).age = 1
           /\ r.age = 2 => Older(r) = Nothing
BY DEF InFlight, Nothing, Older

-----------------------------------------------------------------------------
(* The types. *)

LEMMA InitType == DirectoryInit => DirectoryTypeOK
BY SiteDirectoryAssumption
DEF DirectoryInit, DirectoryTypeOK, InFlight, Horizon, Pairs

LEMMA StepType == DirectoryTypeOK /\ [DirectoryNext]_directoryVars => DirectoryTypeOK'
<1> SUFFICES ASSUME DirectoryTypeOK, [DirectoryNext]_directoryVars PROVE DirectoryTypeOK'
  OBVIOUS
<1>0. \A s \in Sites : Nothing \in InFlight(Subjects) /\ Nothing \in InFlight(Pairs)
  BY DEF InFlight
<1>1. ASSUME NEW s \in Sites, RegisterHostPeer(s) \/ RevokeHostPeer(s) PROVE DirectoryTypeOK'
  <2>1. peer' \in [Sites -> {"none", "active", "revoked"}]
        /\ join' \in [Sites -> {"register", "advertise", "list", "import"}]
    BY <1>1 DEF RegisterHostPeer, RevokeHostPeer, DirectoryTypeOK
  <2>2. granted' \in [Sites -> Nat \cup {NoGrant}]
    BY <1>1 DEF RegisterHostPeer, RevokeHostPeer, DirectoryTypeOK
  <2> QED
    BY <1>1, <2>1, <2>2
    DEF RegisterHostPeer, RevokeHostPeer, DirectoryTypeOK, hostVars, siteVars
<1>2. ASSUME NEW s \in Sites,
             (\E token \in PeerTokens[s] : RotateHostPeerToken(s, token)) \/ SiteLearnsToken(s)
      PROVE  DirectoryTypeOK'
  <2>1. CASE \E token \in PeerTokens[s] : RotateHostPeerToken(s, token)
    <3>1. PICK token \in PeerTokens[s] : RotateHostPeerToken(s, token)
      BY <2>1
    <3>2. token \in Nat
      BY SiteDirectoryAssumption
    <3>3. peer' \in [Sites -> {"none", "active", "revoked"}] /\ peerToken' \in [Sites -> Nat]
          /\ granted' \in [Sites -> Nat \cup {NoGrant}]
      BY <3>1, <3>2 DEF RotateHostPeerToken, DirectoryTypeOK
    <3> QED
      BY <3>1, <3>3 DEF RotateHostPeerToken, DirectoryTypeOK, hostVars, siteVars
  <2>2. CASE SiteLearnsToken(s)
    <3>1. siteToken' \in [Sites -> Nat]
      BY <2>2 DEF SiteLearnsToken, DirectoryTypeOK
    <3> QED
      BY <2>2, <3>1 DEF SiteLearnsToken, DirectoryTypeOK, hostVars, siteVars
  <2> QED
    BY <1>2, <2>1, <2>2
<1>3. ASSUME NEW s \in Sites, SendAdvertisement(s) PROVE DirectoryTypeOK'
  <2>1. [routes |-> alive[s], age |-> 0] \in InFlight(Subjects)
    BY DEF DirectoryTypeOK, InFlight
  <2>2. advert' \in [Sites -> InFlight(Subjects)]
    BY <1>3, <2>1 DEF SendAdvertisement, DirectoryTypeOK
  <2> QED
    BY <1>3, <2>2 DEF SendAdvertisement, DirectoryTypeOK, peerVars, hostVars, siteVars
<1>4. ASSUME NEW s \in Sites, NEW answered \in BOOLEAN, AdvertiseFederationRoutes(s, answered)
      PROVE  DirectoryTypeOK'
  <2>1. advert' \in [Sites -> InFlight(Subjects)]
    BY <1>0, <1>4 DEF AdvertiseFederationRoutes, DirectoryTypeOK
  <2>2. advert[s].routes \subseteq Subjects
    BY InFlightFacts DEF DirectoryTypeOK
  <2>3. owned' \subseteq Pairs
    BY <1>4, <2>2 DEF AdvertiseFederationRoutes, DirectoryTypeOK, Pairs
  <2>4. hostLeft' \in [Pairs -> 0..Ttl]
    BY <1>4, SiteDirectoryAssumption DEF AdvertiseFederationRoutes, DirectoryTypeOK
  <2> QED
    BY <1>4, <2>1, <2>3, <2>4 DEF AdvertiseFederationRoutes, DirectoryTypeOK, peerVars, siteVars
<1>5. ASSUME NEW s \in Sites, ListFederationRoutes(s) PROVE DirectoryTypeOK'
  <2>1. [routes |-> Listed(s), age |-> 0] \in InFlight(Pairs)
    BY DEF DirectoryTypeOK, InFlight, Listed
  <2>2. answer' \in [Sites -> InFlight(Pairs)]
    BY <1>5, <2>1 DEF ListFederationRoutes, DirectoryTypeOK
  <2> QED
    BY <1>5, <2>2 DEF ListFederationRoutes, DirectoryTypeOK, peerVars, hostVars, siteVars
<1>6. ASSUME NEW s \in Sites, ImportFederationRoutes(s) PROVE DirectoryTypeOK'
  <2> DEFINE taken == {p \in answer[s].routes : knows[s][p[2]] \in {NoSite, p[1]}}
             site(x) == {t \in Sites : <<t, x>> \in taken}
             K == [x \in Subjects |->
                     IF site(x) = {} THEN knows[s][x] ELSE CHOOSE t \in site(x) : TRUE]
             L == [x \in Subjects |-> IF site(x) = {} THEN 0 ELSE Ttl]
  <2>1. knows' = [knows EXCEPT ![s] = K] /\ routeLeft' = [routeLeft EXCEPT ![s] = L]
    BY <1>6 DEF ImportFederationRoutes
  <2>2. K \in [Subjects -> Sites \cup {NoSite}]
    <3>1. \A x \in Subjects : site(x) # {} => (CHOOSE t \in site(x) : TRUE) \in Sites
      OBVIOUS
    <3> HIDE DEF site
    <3> QED
      BY <3>1 DEF DirectoryTypeOK
  <2>3. L \in [Subjects -> 0..Ttl]
    <3> HIDE DEF site
    <3> QED
      BY SiteDirectoryAssumption
  <2> HIDE DEF K, L
  <2>4. answer' \in [Sites -> InFlight(Pairs)]
    BY <1>0, <1>6 DEF ImportFederationRoutes, DirectoryTypeOK
  <2>5. UNCHANGED <<peerVars, advert, hostVars, alive, policies, since>>
        /\ join' = [join EXCEPT ![s] = "register"]
    BY <1>6 DEF ImportFederationRoutes
  <2> QED
    BY <2>1, <2>2, <2>3, <2>4, <2>5 DEF DirectoryTypeOK, peerVars, hostVars
<1>7. ASSUME NEW s \in Sites, JoinFails(s) PROVE DirectoryTypeOK'
  <2>1. advert' \in [Sites -> InFlight(Subjects)] /\ answer' \in [Sites -> InFlight(Pairs)]
    BY <1>0, <1>7 DEF JoinFails, DirectoryTypeOK
  <2> QED
    BY <1>7, <2>1 DEF JoinFails, DirectoryTypeOK, peerVars, hostVars, siteVars
<1>8. ASSUME NEW s \in Sites, NEW x \in Subjects, AgentComes(s, x) PROVE DirectoryTypeOK'
  <2>1. knows' \in [Sites -> [Subjects -> Sites \cup {NoSite}]]
    <3>1. [knows[s] EXCEPT ![x] = s] \in [Subjects -> Sites \cup {NoSite}]
      BY DEF DirectoryTypeOK
    <3>2. knows' = [knows EXCEPT ![s] = [knows[s] EXCEPT ![x] = s]]
      BY <1>8 DEF AgentComes, DirectoryTypeOK
    <3> QED
      BY <3>1, <3>2 DEF DirectoryTypeOK
  <2>2. alive' \in [Sites -> SUBSET Subjects]
    BY <1>8 DEF AgentComes, DirectoryTypeOK
  <2>3. since' \in [Pairs -> 0..(Horizon + 1)]
    <3>1. 0 \in 0..(Horizon + 1)
      BY SiteDirectoryAssumption DEF Horizon
    <3>2. since \in [Pairs -> 0..(Horizon + 1)] /\ since' = [since EXCEPT ![<<s, x>>] = 0]
      BY <1>8 DEF AgentComes, DirectoryTypeOK
    <3> QED
      BY ONLY <3>1, <3>2
  <2>4. UNCHANGED <<peerVars, join, advert, answer, hostVars, routeLeft, policies>>
    BY <1>8 DEF AgentComes
  <2> QED
    BY <2>1, <2>2, <2>3, <2>4 DEF DirectoryTypeOK, peerVars, hostVars
<1>9. ASSUME NEW s \in Sites, NEW x \in Subjects, AgentGoes(s, x) PROVE DirectoryTypeOK'
  BY <1>9 DEF AgentGoes, DirectoryTypeOK, peerVars, hostVars, siteVars
<1>10. ASSUME NEW p \in PolicyRows, CreateFederationPolicy(p) \/ DisableFederationPolicy(p)
       PROVE  DirectoryTypeOK'
  BY <1>10 DEF CreateFederationPolicy, DisableFederationPolicy, DirectoryTypeOK,
               peerVars, hostVars, siteVars
<1>11. CASE ClockTicks
  <2>1. advert' \in [Sites -> InFlight(Subjects)] /\ answer' \in [Sites -> InFlight(Pairs)]
    BY <1>11, InFlightFacts DEF ClockTicks, DirectoryTypeOK
  <2>2. hostLeft' \in [Pairs -> 0..Ttl]
    BY <1>11, SiteDirectoryAssumption DEF ClockTicks, DirectoryTypeOK, OneLess
  <2>3. routeLeft' \in [Sites -> [Subjects -> 0..Ttl]]
    BY <1>11, SiteDirectoryAssumption DEF ClockTicks, DirectoryTypeOK, OneLess
  <2>4. since' \in [Pairs -> 0..(Horizon + 1)]
    BY <1>11, SiteDirectoryAssumption DEF ClockTicks, DirectoryTypeOK, Horizon
  <2> QED
    BY <1>11, <2>1, <2>2, <2>3, <2>4 DEF ClockTicks, DirectoryTypeOK, peerVars
<1>12. CASE UNCHANGED directoryVars
  BY <1>12 DEF DirectoryTypeOK, directoryVars, peerVars, hostVars, siteVars
<1> QED
  BY ONLY [DirectoryNext]_directoryVars, <1>1, <1>2, <1>3, <1>4, <1>5, <1>6, <1>7, <1>8, <1>9,
     <1>10, <1>11, <1>12
  DEF DirectoryNext, JoinSteps

-----------------------------------------------------------------------------
(* The age of a route. *)

LEMMA InitAge == DirectoryInit => AliveInv /\ AdvertInv /\ HostInv /\ AnswerInv /\ RouteInv
BY DEF DirectoryInit, AliveInv, AdvertInv, HostInv, AnswerInv, RouteInv, Nothing, Pairs

\* The numbers of the state as numbers, the requests under way as records.
LEMMA AgeTypes ==
    ASSUME DirectoryTypeOK
    PROVE  /\ Ttl \in Nat /\ Ttl > 0
           /\ \A p \in Pairs : since[p] \in Nat /\ hostLeft[p] \in Nat /\ hostLeft[p] <= Ttl
           /\ \A s \in Sites, x \in Subjects :
                 routeLeft[s][x] \in Nat /\ routeLeft[s][x] <= Ttl
<1>1. \A p \in Pairs : since[p] \in Nat /\ hostLeft[p] \in Nat /\ hostLeft[p] <= Ttl
  BY SiteDirectoryAssumption DEF DirectoryTypeOK, Horizon
<1>2. \A s \in Sites, x \in Subjects : routeLeft[s][x] \in Nat /\ routeLeft[s][x] <= Ttl
  BY SiteDirectoryAssumption DEF DirectoryTypeOK
<1> QED
  BY <1>1, <1>2, SiteDirectoryAssumption

LEMMA RequestTypes ==
    ASSUME DirectoryTypeOK, NEW s \in Sites
    PROVE  /\ advert[s].routes \subseteq Subjects /\ advert[s].age \in {0, 1, 2}
           /\ answer[s].routes \subseteq Pairs /\ answer[s].age \in {0, 1, 2}
           /\ advert[s].age = 2 => advert[s] = Nothing
           /\ answer[s].age = 2 => answer[s] = Nothing
BY InFlightFacts, ZenonT(30) DEF DirectoryTypeOK

LEMMA PairsFacts ==
    \A s \in Sites, x \in Subjects : <<s, x>> \in Pairs
BY DEF Pairs

LEMMA StepAge ==
    DirectoryInv /\ DirectoryTypeOK' /\ [DirectoryNext]_directoryVars =>
        (AliveInv /\ AdvertInv /\ HostInv /\ AnswerInv /\ RouteInv)'
<1> DEFINE AgeInv == AliveInv /\ AdvertInv /\ HostInv /\ AnswerInv /\ RouteInv
<1> SUFFICES ASSUME DirectoryInv, DirectoryTypeOK', [DirectoryNext]_directoryVars PROVE AgeInv'
  OBVIOUS
<1>a. AgeInv /\ DirectoryTypeOK
  BY DEF DirectoryInv
<1>b. /\ Ttl \in Nat /\ Ttl > 0
      /\ \A p \in Pairs : since[p] \in Nat /\ hostLeft[p] \in Nat /\ hostLeft[p] <= Ttl
      /\ \A s \in Sites, x \in Subjects : routeLeft[s][x] \in Nat /\ routeLeft[s][x] <= Ttl
  BY <1>a, AgeTypes
<1>c. Nothing.routes = {}
  BY DEF Nothing
<1>d. ASSUME NEW s \in Sites
      PROVE  /\ advert[s].routes \subseteq Subjects /\ advert[s].age \in {0, 1, 2}
             /\ answer[s].routes \subseteq Pairs /\ answer[s].age \in {0, 1, 2}
             /\ advert[s].age = 2 => advert[s] = Nothing
             /\ answer[s].age = 2 => answer[s] = Nothing
  BY <1>a, RequestTypes
<1>1. CASE UNCHANGED timing
  BY <1>a, <1>1 DEF timing, AliveInv, AdvertInv, HostInv, AnswerInv, RouteInv
<1>2. ASSUME NEW s \in Sites, SendAdvertisement(s) PROVE AgeInv'
  <2>1. /\ UNCHANGED <<answer, hostLeft, knows, routeLeft, alive, since>>
        /\ advert' = [advert EXCEPT ![s] = [routes |-> alive[s], age |-> 0]]
    BY <1>2 DEF SendAdvertisement, hostVars, siteVars
  <2>2. AliveInv' /\ HostInv' /\ AnswerInv' /\ RouteInv'
    BY <1>a, <2>1 DEF AliveInv, HostInv, AnswerInv, RouteInv
  <2>3. AdvertInv'
    <3> SUFFICES ASSUME NEW t \in Sites, NEW x \in advert'[t].routes
                 PROVE  since[<<t, x>>] <= advert'[t].age
      BY <2>1 DEF AdvertInv
    <3>1. CASE t = s
      <4>1. advert'[t] = [routes |-> alive[s], age |-> 0]
        BY <1>a, <2>1, <3>1 DEF DirectoryTypeOK
      <4>2. since[<<s, x>>] = 0
        BY <1>a, <4>1 DEF AliveInv
      <4> QED
        BY <3>1, <4>1, <4>2
    <3>2. CASE t # s
      BY <1>a, <2>1, <3>2 DEF AdvertInv, DirectoryTypeOK
    <3> QED
      BY <3>1, <3>2
  <2> QED
    BY <2>2, <2>3
<1>3. ASSUME NEW s \in Sites, NEW answered \in BOOLEAN, AdvertiseFederationRoutes(s, answered)
      PROVE  AgeInv'
  <2> DEFINE mine == {x \in advert[s].routes : Ownable(s, x)}
  <2>1. /\ UNCHANGED <<answer, knows, routeLeft, alive, since>>
        /\ advert' = [advert EXCEPT ![s] = Nothing]
        /\ hostLeft' = [p \in Pairs |->
              IF p[1] # s THEN hostLeft[p] ELSE IF p[2] \in mine THEN Ttl ELSE 0]
    BY <1>3 DEF AdvertiseFederationRoutes, siteVars
  <2>2. AliveInv' /\ AnswerInv' /\ RouteInv'
    BY <1>a, <2>1 DEF AliveInv, AnswerInv, RouteInv
  <2>3. AdvertInv'
    BY <1>a, <1>c, <2>1 DEF AdvertInv, DirectoryTypeOK
  <2>4. HostInv'
    <3> SUFFICES ASSUME NEW p \in Pairs, hostLeft'[p] > 0
                 PROVE  since[p] + hostLeft'[p] <= Ttl + 1
      BY <2>1 DEF HostInv
    <3>1. CASE p[1] # s
      BY <1>a, <2>1, <3>1 DEF HostInv
    <3>2. CASE p[1] = s
      <4>1. p[2] \in mine /\ hostLeft'[p] = Ttl
        BY <2>1, <3>2
      <4>2. p[2] \in advert[s].routes /\ p = <<s, p[2]>>
        BY <3>2, <4>1 DEF Pairs
      <4>3. advert[s].age \in {0, 1}
        BY <1>c, <1>d, <4>2
      <4>4. since[p] <= advert[s].age
        BY <1>a, <4>2 DEF AdvertInv
      <4> QED
        BY <1>b, <4>1, <4>3, <4>4
    <3> QED
      BY <3>1, <3>2
  <2> QED
    BY <2>2, <2>3, <2>4
<1>4. ASSUME NEW s \in Sites, ListFederationRoutes(s) PROVE AgeInv'
  <2>1. /\ UNCHANGED <<advert, hostLeft, knows, routeLeft, alive, since>>
        /\ answer' = [answer EXCEPT ![s] = [routes |-> Listed(s), age |-> 0]]
    BY <1>4 DEF ListFederationRoutes, hostVars, siteVars
  <2>2. AliveInv' /\ AdvertInv' /\ HostInv' /\ RouteInv'
    BY <1>a, <2>1 DEF AliveInv, AdvertInv, HostInv, RouteInv
  <2>3. ASSUME NEW p \in Listed(s) PROVE since[p] <= Ttl
    <3>1. p \in Pairs /\ hostLeft[p] > 0
      BY <1>a, <2>3 DEF Listed, DirectoryTypeOK
    <3>2. since[p] + hostLeft[p] <= Ttl + 1
      BY <1>a, <3>1 DEF HostInv
    <3> QED
      BY <1>b, <3>1, <3>2
  <2>4. AnswerInv'
    <3> SUFFICES ASSUME NEW t \in Sites, NEW p \in answer'[t].routes
                 PROVE  since[p] <= Ttl + answer'[t].age
      BY <2>1 DEF AnswerInv
    <3>1. CASE t = s
      <4>1. answer'[t] = [routes |-> Listed(s), age |-> 0]
        BY <1>a, <2>1, <3>1 DEF DirectoryTypeOK
      <4>2. since[p] <= Ttl
        BY <2>3, <4>1
      <4> QED
        BY <1>b, <4>1, <4>2
    <3>2. CASE t # s
      BY <1>a, <2>1, <3>2 DEF AnswerInv, DirectoryTypeOK
    <3> QED
      BY <3>1, <3>2
  <2> QED
    BY <2>2, <2>4
<1>5. ASSUME NEW s \in Sites, ImportFederationRoutes(s) PROVE AgeInv'
  <2> DEFINE taken == {p \in answer[s].routes : knows[s][p[2]] \in {NoSite, p[1]}}
             site(x) == {t \in Sites : <<t, x>> \in taken}
             K == [x \in Subjects |->
                     IF site(x) = {} THEN knows[s][x] ELSE CHOOSE t \in site(x) : TRUE]
             L == [x \in Subjects |-> IF site(x) = {} THEN 0 ELSE Ttl]
  <2>1. /\ UNCHANGED <<advert, hostLeft, alive, since>>
        /\ answer' = [answer EXCEPT ![s] = Nothing]
        /\ knows' = [knows EXCEPT ![s] = K] /\ routeLeft' = [routeLeft EXCEPT ![s] = L]
    BY <1>5 DEF ImportFederationRoutes, hostVars
  <2>2. AliveInv' /\ AdvertInv' /\ HostInv'
    BY <1>a, <2>1 DEF AliveInv, AdvertInv, HostInv
  <2>3. AnswerInv'
    BY <1>a, <1>c, <2>1 DEF AnswerInv, DirectoryTypeOK
  <2>4. ASSUME NEW x \in Subjects, L[x] > 0
        PROVE  L[x] = Ttl /\ <<K[x], x>> \in answer[s].routes
    <3>1. site(x) # {} /\ L[x] = Ttl
      BY <2>4
    <3>2. K[x] \in site(x)
      <4> HIDE DEF site
      <4> QED
        BY <3>1
    <3> QED
      BY <3>1, <3>2
  <2>5. RouteInv'
    <3> SUFFICES ASSUME NEW u \in Sites, NEW t \in Sites, NEW x \in Subjects,
                        knows'[u][x] = t, routeLeft'[u][x] > 0
                 PROVE  since[<<t, x>>] + routeLeft'[u][x] <= 2 * Ttl + 1
      BY <2>1 DEF RouteInv
    <3> HIDE DEF K, L
    <3>1. CASE u = s
      <4>1. knows'[u] = K /\ routeLeft'[u] = L
        BY <1>a, <2>1, <3>1 DEF DirectoryTypeOK
      <4>2. L[x] = Ttl /\ <<t, x>> \in answer[s].routes
        BY <2>4, <4>1
      <4>3. answer[s].age \in {0, 1}
        BY <1>c, <1>d, <4>2
      <4>4. since[<<t, x>>] <= Ttl + answer[s].age
        BY <1>a, <4>2 DEF AnswerInv
      <4> QED
        BY <1>b, <4>1, <4>2, <4>3, <4>4, PairsFacts
    <3>2. CASE u # s
      BY <1>a, <2>1, <3>2 DEF RouteInv, DirectoryTypeOK
    <3> QED
      BY <3>1, <3>2
  <2> QED
    BY <2>2, <2>3, <2>5
<1>6. ASSUME NEW s \in Sites, JoinFails(s) PROVE AgeInv'
  <2>1. /\ UNCHANGED <<hostLeft, knows, routeLeft, alive, since>>
        /\ advert' = [advert EXCEPT ![s] = Nothing] /\ answer' = [answer EXCEPT ![s] = Nothing]
    BY <1>6 DEF JoinFails, hostVars, siteVars
  <2>2. AliveInv' /\ HostInv' /\ RouteInv'
    BY <1>a, <2>1 DEF AliveInv, HostInv, RouteInv
  <2>3. AdvertInv' /\ AnswerInv'
    BY <1>a, <1>c, <2>1 DEF AdvertInv, AnswerInv, DirectoryTypeOK
  <2> QED
    BY <2>2, <2>3
<1>7. ASSUME NEW s \in Sites, NEW x \in Subjects, AgentComes(s, x) PROVE AgeInv'
  <2>1. /\ UNCHANGED <<advert, answer, hostLeft, routeLeft>>
        /\ alive' = [alive EXCEPT ![s] = @ \cup {x}]
        /\ knows' = [knows EXCEPT ![s][x] = s]
        /\ since' = [since EXCEPT ![<<s, x>>] = 0]
    BY <1>7 DEF AgentComes, hostVars
  <2>2. \A p \in Pairs : since'[p] = IF p = <<s, x>> THEN 0 ELSE since[p]
    BY <1>a, <2>1 DEF DirectoryTypeOK
  <2>3. \A p \in Pairs : since'[p] \in Nat /\ since'[p] <= since[p]
    BY <1>b, <2>2
  <2>4. AliveInv'
    <3> SUFFICES ASSUME NEW t \in Sites, NEW y \in alive'[t] PROVE since'[<<t, y>>] = 0
      BY DEF AliveInv
    <3>1. y \in Subjects
      BY DEF DirectoryTypeOK
    <3>2. CASE t = s /\ y = x
      BY <2>2, <3>2, PairsFacts
    <3>3. CASE ~(t = s /\ y = x)
      <4>1. y \in alive[t]
        BY <1>a, <2>1, <3>3 DEF DirectoryTypeOK
      <4>2. since[<<t, y>>] = 0 /\ <<t, y>> # <<s, x>>
        BY <1>a, <3>3, <4>1 DEF AliveInv
      <4> QED
        BY <2>2, <3>1, <4>2, PairsFacts
    <3> QED
      BY <3>2, <3>3
  <2>5. AdvertInv'
    <3> SUFFICES ASSUME NEW t \in Sites, NEW y \in advert[t].routes
                 PROVE  since'[<<t, y>>] <= advert[t].age
      BY <2>1 DEF AdvertInv
    <3>1. since[<<t, y>>] <= advert[t].age
      BY <1>a DEF AdvertInv
    <3>2. <<t, y>> \in Pairs
      BY <1>d, PairsFacts
    <3> QED
      BY <1>b, <1>d, <2>3, <3>1, <3>2
  <2>6. HostInv'
    BY <1>a, <1>b, <2>1, <2>3 DEF HostInv
  <2>7. AnswerInv'
    <3> SUFFICES ASSUME NEW t \in Sites, NEW p \in answer[t].routes
                 PROVE  since'[p] <= Ttl + answer[t].age
      BY <2>1 DEF AnswerInv
    <3>1. since[p] <= Ttl + answer[t].age /\ p \in Pairs
      BY <1>a, <1>d DEF AnswerInv
    <3> QED
      BY <1>b, <1>d, <2>3, <3>1
  <2>8. RouteInv'
    <3> SUFFICES ASSUME NEW u \in Sites, NEW t \in Sites, NEW y \in Subjects,
                        knows'[u][y] = t, routeLeft[u][y] > 0
                 PROVE  since'[<<t, y>>] + routeLeft[u][y] <= 2 * Ttl + 1
      BY <2>1 DEF RouteInv
    <3>1. CASE u = s /\ y = x
      <4>1. t = s
        BY <1>a, <2>1, <3>1 DEF DirectoryTypeOK
      <4>2. since'[<<t, y>>] = 0
        BY <2>2, <3>1, <4>1, PairsFacts
      <4> QED
        BY <1>b, <4>2
    <3>2. CASE ~(u = s /\ y = x)
      <4>1. knows[u][y] = t
        BY <1>a, <2>1, <3>2 DEF DirectoryTypeOK
      <4>2. since[<<t, y>>] + routeLeft[u][y] <= 2 * Ttl + 1
        BY <1>a, <4>1 DEF RouteInv
      <4> QED
        BY <1>b, <2>3, <4>2, PairsFacts
    <3> QED
      BY <3>1, <3>2
  <2> QED
    BY <2>4, <2>5, <2>6, <2>7, <2>8
<1>8. ASSUME NEW s \in Sites, NEW x \in Subjects, AgentGoes(s, x) PROVE AgeInv'
  <2>1. /\ UNCHANGED <<advert, answer, hostLeft, knows, routeLeft, since>>
        /\ alive' = [alive EXCEPT ![s] = @ \ {x}]
    BY <1>8 DEF AgentGoes, hostVars, siteVars
  <2>2. \A t \in Sites : alive'[t] \subseteq alive[t]
    BY <1>a, <2>1 DEF DirectoryTypeOK
  <2> QED
    BY <1>a, <2>1, <2>2 DEF AliveInv, AdvertInv, HostInv, AnswerInv, RouteInv
<1>9. CASE ClockTicks
  <2>1. /\ \A s \in Sites : advert[s].age # 1 /\ answer[s].age # 1
        /\ advert' = [s \in Sites |-> Older(advert[s])]
        /\ answer' = [s \in Sites |-> Older(answer[s])]
        /\ UNCHANGED <<knows, alive>>
    BY <1>9 DEF ClockTicks
  <2>2. \A p \in Pairs :
           /\ since'[p] \in Nat /\ since'[p] <= since[p] + 1
           /\ p[2] \in alive[p[1]] => since'[p] = since[p]
    BY <1>b, <1>9 DEF ClockTicks
  <2>3. \A p \in Pairs : hostLeft'[p] \in Nat /\
           (hostLeft'[p] > 0 => hostLeft[p] = hostLeft'[p] + 1)
    BY <1>b, <1>9 DEF ClockTicks, OneLess
  <2>4. \A s \in Sites, x \in Subjects : routeLeft'[s][x] \in Nat /\
           (routeLeft'[s][x] > 0 => routeLeft[s][x] = routeLeft'[s][x] + 1)
    BY <1>b, <1>9 DEF ClockTicks, OneLess
  <2>5. \A s \in Sites :
           /\ advert'[s].routes = advert[s].routes /\ answer'[s].routes = answer[s].routes
           /\ advert[s].age = 0 => advert'[s].age = 1
           /\ answer[s].age = 0 => answer'[s].age = 1
           /\ advert[s].age = 2 => advert[s].routes = {}
           /\ answer[s].age = 2 => answer[s].routes = {}
    BY <1>a, <1>c, <1>d, <2>1, InFlightFacts DEF DirectoryTypeOK
  <2>6. AliveInv'
    <3> SUFFICES ASSUME NEW s \in Sites, NEW x \in alive[s] PROVE since'[<<s, x>>] = 0
      BY <2>1 DEF AliveInv
    <3>1. since[<<s, x>>] = 0 /\ <<s, x>> \in Pairs
      BY <1>a DEF AliveInv, DirectoryTypeOK, Pairs
    <3> QED
      BY <2>2, <3>1
  <2>7. AdvertInv'
    <3> SUFFICES ASSUME NEW s \in Sites, NEW x \in advert'[s].routes
                 PROVE  since'[<<s, x>>] <= advert'[s].age
      BY DEF AdvertInv
    <3>1. x \in advert[s].routes /\ <<s, x>> \in Pairs
      BY <1>d, <2>5, PairsFacts
    <3>2. advert[s].age = 0 /\ advert'[s].age = 1
      BY <1>d, <2>1, <2>5, <3>1
    <3>3. since[<<s, x>>] <= 0
      BY <1>a, <3>1, <3>2 DEF AdvertInv
    <3> QED
      BY <1>b, <2>2, <3>1, <3>2, <3>3
  <2>8. HostInv'
    BY <1>a, <1>b, <2>2, <2>3 DEF HostInv
  <2>9. AnswerInv'
    <3> SUFFICES ASSUME NEW s \in Sites, NEW p \in answer'[s].routes
                 PROVE  since'[p] <= Ttl + answer'[s].age
      BY DEF AnswerInv
    <3>1. p \in answer[s].routes /\ p \in Pairs
      BY <1>d, <2>5, PairsFacts
    <3>2. answer[s].age = 0 /\ answer'[s].age = 1
      BY <1>d, <2>1, <2>5, <3>1
    <3>3. since[p] <= Ttl + 0
      BY <1>a, <3>1, <3>2 DEF AnswerInv
    <3> QED
      BY <1>b, <2>2, <3>1, <3>2, <3>3
  <2>10. RouteInv'
    <3> SUFFICES ASSUME NEW s \in Sites, NEW t \in Sites, NEW x \in Subjects,
                        knows[s][x] = t, routeLeft'[s][x] > 0
                 PROVE  since'[<<t, x>>] + routeLeft'[s][x] <= 2 * Ttl + 1
      BY <2>1 DEF RouteInv
    <3>1. since[<<t, x>>] + routeLeft[s][x] <= 2 * Ttl + 1
      BY <1>a, <2>4 DEF RouteInv
    <3> QED
      BY <1>b, <2>2, <2>4, <3>1, PairsFacts
  <2> QED
    BY <2>6, <2>7, <2>8, <2>9, <2>10
<1>10. ASSUME NEW s \in Sites,
              \/ RegisterHostPeer(s) \/ RevokeHostPeer(s)
              \/ \E token \in PeerTokens[s] : RotateHostPeerToken(s, token)
              \/ SiteLearnsToken(s)
       PROVE  UNCHANGED timing
  BY <1>10 DEF timing, RegisterHostPeer, RevokeHostPeer, RotateHostPeerToken, SiteLearnsToken,
               hostVars, siteVars
<1>11. ASSUME NEW p \in PolicyRows, CreateFederationPolicy(p) \/ DisableFederationPolicy(p)
       PROVE  UNCHANGED timing
  BY <1>11 DEF timing, CreateFederationPolicy, DisableFederationPolicy, hostVars, siteVars
<1>12. ASSUME UNCHANGED directoryVars PROVE UNCHANGED timing
  BY <1>12 DEF timing, directoryVars, hostVars, siteVars
<1> HIDE DEF AgeInv
<1> QED
  BY ONLY [DirectoryNext]_directoryVars, <1>1, <1>2, <1>3, <1>4, <1>5, <1>6, <1>7, <1>8, <1>9,
     <1>10, <1>11, <1>12
  DEF DirectoryNext, JoinSteps

-----------------------------------------------------------------------------
(* What is granted. *)

LEMMA StepGrant ==
    DirectoryTypeOK /\ GrantInv /\ [DirectoryNext]_directoryVars => GrantInv'
<1> DEFINE G(s) == granted[s] = IF peer[s] = "revoked" THEN NoGrant ELSE peerToken[s]
<1> SUFFICES ASSUME DirectoryTypeOK, GrantInv, [DirectoryNext]_directoryVars, NEW s \in Sites
             PROVE  G(s)'
  BY DEF GrantInv
<1>0. G(s)
  BY DEF GrantInv
<1>1. ASSUME NEW t \in Sites, RegisterHostPeer(t) PROVE G(s)'
  BY <1>0, <1>1 DEF RegisterHostPeer, MayJoin, DirectoryTypeOK
<1>2. ASSUME NEW t \in Sites, RevokeHostPeer(t) PROVE G(s)'
  BY <1>0, <1>2 DEF RevokeHostPeer, DirectoryTypeOK
<1>3. ASSUME NEW t \in Sites, NEW token \in PeerTokens[t], RotateHostPeerToken(t, token)
      PROVE  G(s)'
  BY <1>0, <1>3 DEF RotateHostPeerToken, DirectoryTypeOK
<1>4. ASSUME NEW t \in Sites, SiteLearnsToken(t) PROVE G(s)'
  BY <1>0, <1>4 DEF SiteLearnsToken
<1>5. ASSUME UNCHANGED peerVars PROVE G(s)'
  BY <1>0, <1>5 DEF peerVars
<1>6. ASSUME NEW t \in Sites,
             \/ SendAdvertisement(t) \/ ListFederationRoutes(t) \/ ImportFederationRoutes(t)
             \/ \E answered \in BOOLEAN : AdvertiseFederationRoutes(t, answered)
             \/ JoinFails(t)
             \/ \E x \in Subjects : AgentComes(t, x) \/ AgentGoes(t, x)
      PROVE  UNCHANGED peerVars
  BY <1>6 DEF SendAdvertisement, ListFederationRoutes, ImportFederationRoutes,
              AdvertiseFederationRoutes, JoinFails, AgentComes, AgentGoes
<1>7. ASSUME \/ ClockTicks \/ UNCHANGED directoryVars
             \/ \E p \in PolicyRows : CreateFederationPolicy(p) \/ DisableFederationPolicy(p)
      PROVE  UNCHANGED peerVars
  BY <1>7 DEF ClockTicks, directoryVars, peerVars, CreateFederationPolicy, DisableFederationPolicy
<1> HIDE DEF G
<1> QED
  BY <1>1, <1>2, <1>3, <1>4, <1>5, <1>6, <1>7 DEF DirectoryNext, JoinSteps

\* In every behaviour of the directory the inductive invariant holds.
THEOREM DirectoryInvariance == DirectorySpec => []DirectoryInv
<1>1. DirectoryInit => DirectoryInv
  <2>1. DirectoryInit => GrantInv
    BY DEF DirectoryInit, GrantInv
  <2> QED
    BY <2>1, InitType, InitAge DEF DirectoryInv
<1>2. DirectoryInv /\ [DirectoryNext]_directoryVars => DirectoryInv'
  BY StepType, StepGrant, StepAge DEF DirectoryInv
<1> QED
  BY <1>1, <1>2, PTL DEF DirectorySpec

-----------------------------------------------------------------------------

\* The variables keep their types.
THEOREM DirectoryTypeCorrect == DirectorySpec => []DirectoryTypeOK
<1>1. DirectoryInv => DirectoryTypeOK
  BY DEF DirectoryInv
<1> QED
  BY DirectoryInvariance, <1>1, PTL

\* A Site never routes to another one for an agent that was last alive there longer
\* ago than twice the lifetime of a route, whatever is delayed or stops.
THEOREM RouteIsRecentHolds == DirectorySpec => []RouteIsRecent
<1>1. DirectoryInv => RouteIsRecent
  <2> SUFFICES ASSUME DirectoryInv, NEW s \in Sites, NEW x \in Subjects, Route(s, x) # NoSite
               PROVE  since[<<Route(s, x), x>>] <= Horizon
    BY DEF RouteIsRecent
  <2>0. AliveInv /\ RouteInv /\ DirectoryTypeOK
    BY DEF DirectoryInv
  <2>1. CASE knows[s][x] = s
    <3>1. Route(s, x) = s /\ x \in alive[s]
      BY <2>1 DEF Route
    <3> QED
      BY <2>0, <3>1, SiteDirectoryAssumption DEF AliveInv, Horizon
  <2>2. CASE knows[s][x] # s
    <3>1. Route(s, x) = knows[s][x] /\ routeLeft[s][x] > 0 /\ knows[s][x] \in Sites
      BY <2>0, <2>2 DEF Route, DirectoryTypeOK
    <3>2. since[<<knows[s][x], x>>] + routeLeft[s][x] <= 2 * Ttl + 1
      BY <2>0, <3>1 DEF RouteInv
    <3> QED
      BY <2>0, <3>1, <3>2, AgeTypes, PairsFacts DEF Horizon
  <2> QED
    BY <2>1, <2>2
<1> QED
  BY DirectoryInvariance, <1>1, PTL

\* A Site advertises and is shown routes only with the token it was last granted, and
\* not at all between a revocation and the next rotation; its routes are refreshed only
\* by an advertisement that was authenticated so.
THEOREM RevokedStaysOutHolds == DirectorySpec => RevokedStaysOut
<1> DEFINE P(s) ==
      /\ Authenticates(s) => granted[s] = siteToken[s]
      /\ \A x \in Subjects : hostLeft'[<<s, x>>] > hostLeft[<<s, x>>] => advert[s] # Nothing
<1>1. DirectoryInv /\ [DirectoryNext]_directoryVars => [\A s \in Sites : P(s)]_directoryVars
  <2> SUFFICES ASSUME DirectoryInv, DirectoryNext, NEW s \in Sites PROVE P(s)
    OBVIOUS
  <2>0. DirectoryTypeOK /\ GrantInv
    BY DEF DirectoryInv
  <2>a. \A x \in Subjects : ~(hostLeft[<<s, x>>] > hostLeft[<<s, x>>])
    BY <2>0, AgeTypes, PairsFacts
  <2>b. ASSUME UNCHANGED <<advert, answer, hostLeft>> PROVE P(s)
    BY <2>a, <2>b DEF Authenticates
  <2>c. IsPeer(s) => granted[s] = siteToken[s]
    BY <2>0 DEF GrantInv, IsPeer
  <2>1. ASSUME NEW t \in Sites, SendAdvertisement(t) PROVE P(s)
    <3>1. UNCHANGED <<answer, hostLeft>> /\ IsPeer(t) /\ (t # s => advert'[s] = advert[s])
      BY <2>0, <2>1 DEF SendAdvertisement, DirectoryTypeOK, hostVars
    <3> QED
      BY <2>a, <2>c, <3>1 DEF Authenticates
  <2>2. ASSUME NEW t \in Sites, NEW answered \in BOOLEAN, AdvertiseFederationRoutes(t, answered)
        PROVE  P(s)
    <3>1. UNCHANGED answer /\ advert[t] # Nothing /\ advert'[s] \in {advert[s], Nothing}
      BY <2>0, <2>2 DEF AdvertiseFederationRoutes, DirectoryTypeOK
    <3>2. t # s => \A x \in Subjects : hostLeft'[<<s, x>>] = hostLeft[<<s, x>>]
      BY <2>2 DEF AdvertiseFederationRoutes, Pairs
    <3> QED
      BY <2>a, <3>1, <3>2 DEF Authenticates
  <2>3. ASSUME NEW t \in Sites, ListFederationRoutes(t) PROVE P(s)
    <3>1. UNCHANGED <<advert, hostLeft>> /\ IsPeer(t) /\ (t # s => answer'[s] = answer[s])
      BY <2>0, <2>3 DEF ListFederationRoutes, DirectoryTypeOK, hostVars
    <3> QED
      BY <2>a, <2>c, <3>1 DEF Authenticates
  <2>4. ASSUME NEW t \in Sites, ImportFederationRoutes(t) \/ JoinFails(t) PROVE P(s)
    <3>1. /\ UNCHANGED hostLeft
          /\ advert'[s] \in {advert[s], Nothing} /\ answer'[s] \in {answer[s], Nothing}
      BY <2>0, <2>4 DEF ImportFederationRoutes, JoinFails, DirectoryTypeOK, hostVars
    <3> QED
      BY <2>a, <3>1 DEF Authenticates
  <2>5. CASE ClockTicks
    <3>1. advert'[s] = Older(advert[s]) /\ answer'[s] = Older(answer[s])
      BY <2>5 DEF ClockTicks
    <3>2. \A x \in Subjects : ~(hostLeft'[<<s, x>>] > hostLeft[<<s, x>>])
      BY <2>0, <2>5, AgeTypes, PairsFacts DEF ClockTicks, OneLess
    <3> QED
      BY <3>1, <3>2 DEF Authenticates, Older
  <2>6. ASSUME NEW t \in Sites,
               \/ RegisterHostPeer(t) \/ RevokeHostPeer(t) \/ SiteLearnsToken(t)
               \/ \E token \in PeerTokens[t] : RotateHostPeerToken(t, token)
               \/ \E x \in Subjects : AgentComes(t, x) \/ AgentGoes(t, x)
        PROVE  P(s)
    BY <2>b, <2>6 DEF RegisterHostPeer, RevokeHostPeer, SiteLearnsToken, RotateHostPeerToken,
                      AgentComes, AgentGoes, hostVars
  <2>7. ASSUME NEW p \in PolicyRows, CreateFederationPolicy(p) \/ DisableFederationPolicy(p)
        PROVE  P(s)
    BY <2>b, <2>7 DEF CreateFederationPolicy, DisableFederationPolicy, hostVars
  <2> HIDE DEF P
  <2> QED
    BY ONLY DirectoryNext, <2>1, <2>2, <2>3, <2>4, <2>5, <2>6, <2>7 DEF DirectoryNext, JoinSteps
<1> QED
  BY DirectoryInvariance, <1>1, PTL DEF DirectorySpec, RevokedStaysOut, P

================================================================================
