------------------------------ MODULE SiteDirectory ------------------------------
(***************************************************************************)
(* How Sites find each other's agents through Connecter Host: the peers    *)
(* that may join (src/src/relay/hostPeers.js), the loop by which a Site    *)
(* joins, advertises its agents and imports those of other Sites           *)
(* (hostJoin.js, federationSite.js), the Host's table of routes and what   *)
(* of it each Site is shown (federationHost.js, accessPolicy.js), and the  *)
(* choice of a target (directory.js, routeResolver.js).                    *)
(*                                                                         *)
(* Time is counted in ticks longer than a request's timeout (8 s); a route *)
(* lives Ttl ticks at the Host and again Ttl ticks at the Site that        *)
(* imported it (90 s each).  One group stands for all: routes of different *)
(* groups meet only in the ownership of a subject, which is by subject.    *)
(***************************************************************************)
EXTENDS Integers, FiniteSets

CONSTANTS
    Sites,            \* the Sites provisioned in host.peers
    Subjects,         \* subject ids of agents
    Serves,           \* the subjects each Site may have an agent for
    Capabilities,     \* the capabilities an agent is advertised with
    PolicyRows,       \* rows the operator may put into federation_policies
    ConfigPolicies,   \* config.federation.policies
    Ttl,              \* ticks an advertised or imported route lives
    PeerTokens        \* the tokens an operator may rotate each Site to

ASSUME SiteDirectoryAssumption ==
    /\ Serves \in [Sites -> SUBSET Subjects]
    /\ Ttl \in Nat \ {0}
    /\ PeerTokens \in [Sites -> SUBSET Nat]

VARIABLES
    peer,        \* connecter_peers.status, "none" if there is no row
    peerToken,   \* the token whose hash the row holds; 0 is the provisioned one
    siteToken,   \* the token in the Site's own configuration
    join,        \* the step of joinHostOnce the Site stands before
    advert,      \* an advertisement the Host has authenticated and not yet stored
    answer,      \* the routes the Host listed and the Site has not yet imported
    hostLeft,    \* ticks until federation_routes.expires_at, 0 once over or withdrawn
    owned,       \* the pairs <<site, subject>> with a row in federation_routes
    knows,       \* per Site, subjects.site_id of each subject, NoSite if it has no row
    routeLeft,   \* per Site, ticks until the imported endpoint expires
    alive,       \* per Site, its agents whose endpoint is active and fresh
    policies,    \* the rows of federation_policies in force
    since,       \* history: ticks since the Site last had the agent alive
    granted      \* history: the token the Site was last given, none since it was revoked

peerVars == <<peer, peerToken, siteToken, granted>>
hostVars == <<hostLeft, owned>>
siteVars == <<knows, routeLeft>>
directoryVars ==
    <<peerVars, join, advert, answer, hostVars, siteVars, alive, policies, since>>

-----------------------------------------------------------------------------

NoSite == "no site"
NoGrant == -1
Nothing == [routes |-> {}, age |-> 2]
Pairs == Sites \X Subjects

\* How long a route can outlive the agent.  The tick in which each life ends is
\* the one a request may take.
Horizon == 2 * Ttl

InFlight(routes) == [routes : SUBSET routes, age : {0, 1}] \cup {Nothing}

DirectoryTypeOK ==
    /\ peer \in [Sites -> {"none", "active", "revoked"}]
    /\ peerToken \in [Sites -> Nat]
    /\ siteToken \in [Sites -> Nat]
    /\ join \in [Sites -> {"register", "advertise", "list", "import"}]
    /\ advert \in [Sites -> InFlight(Subjects)]
    /\ answer \in [Sites -> InFlight(Pairs)]
    /\ hostLeft \in [Pairs -> 0..Ttl]
    /\ owned \subseteq Pairs
    /\ knows \in [Sites -> [Subjects -> Sites \cup {NoSite}]]
    /\ routeLeft \in [Sites -> [Subjects -> 0..Ttl]]
    /\ alive \in [Sites -> SUBSET Subjects]
    /\ policies \subseteq PolicyRows
    /\ since \in [Pairs -> 0..(Horizon + 1)]
    /\ granted \in [Sites -> Nat \cup {NoGrant}]

DirectoryInit ==
    /\ peer = [s \in Sites |-> "none"]
    /\ peerToken = [s \in Sites |-> 0]
    /\ siteToken = [s \in Sites |-> 0]
    /\ join = [s \in Sites |-> "register"]
    /\ advert = [s \in Sites |-> Nothing]
    /\ answer = [s \in Sites |-> Nothing]
    /\ hostLeft = [p \in Pairs |-> 0]
    /\ owned = {}
    /\ knows = [s \in Sites |-> [x \in Subjects |-> NoSite]]
    /\ routeLeft = [s \in Sites |-> [x \in Subjects |-> 0]]
    /\ alive = [s \in Sites |-> {}]
    /\ policies = {}
    /\ since = [p \in Pairs |-> Horizon + 1]
    /\ granted = peerToken

-----------------------------------------------------------------------------
(* The Host's list of peers. *)

\* Mutation: a revoked Site registers again like one that is not known.
MayJoinRevoked(s) == siteToken[s] = peerToken[s]

\* registerHostPeer's checks: the row's token counts, the provisioned one if
\* there is no row.
MayJoin(s) == peer[s] # "revoked" /\ siteToken[s] = peerToken[s]

\* findHostPeerByToken and the status the request is authenticated by.
IsPeer(s) == peer[s] = "active" /\ siteToken[s] = peerToken[s]

\* registerHostPeer.  The heartbeat the Site sends next writes only when it was
\* last seen; its answer is that of the request after it.
RegisterHostPeer(s) ==
    /\ join[s] = "register"
    /\ MayJoin(s)
    /\ peer' = [peer EXCEPT ![s] = "active"]
    /\ join' = [join EXCEPT ![s] = "advertise"]
    /\ UNCHANGED <<peerToken, siteToken, granted, advert, answer, hostVars, siteVars,
                   alive, policies, since>>

RevokeHostPeer(s) ==
    /\ peer[s] # "none"
    /\ peer' = [peer EXCEPT ![s] = "revoked"]
    /\ granted' = [granted EXCEPT ![s] = NoGrant]
    /\ UNCHANGED <<peerToken, siteToken, join, advert, answer, hostVars, siteVars,
                   alive, policies, since>>

\* rotateHostPeerToken: any token will do, the one in force or an earlier one too.
RotateHostPeerToken(s, token) ==
    /\ peer[s] # "none"
    /\ peerToken' = [peerToken EXCEPT ![s] = token]
    /\ peer' = [peer EXCEPT ![s] = "active"]
    /\ granted' = [granted EXCEPT ![s] = token]
    /\ UNCHANGED <<siteToken, join, advert, answer, hostVars, siteVars, alive, policies, since>>

\* The Site's operator enters the token in force.
SiteLearnsToken(s) ==
    /\ siteToken[s] # peerToken[s]
    /\ siteToken' = [siteToken EXCEPT ![s] = peerToken[s]]
    /\ UNCHANGED <<peer, peerToken, granted, join, advert, answer, hostVars, siteVars,
                   alive, policies, since>>

-----------------------------------------------------------------------------
(* Advertising. *)

\* syncFederationDirectoryOnce: the request is authenticated by its header.
SendAdvertisement(s) ==
    /\ join[s] = "advertise"
    /\ IsPeer(s)
    /\ advert[s] = Nothing
    /\ advert' = [advert EXCEPT ![s] = [routes |-> alive[s], age |-> 0]]
    /\ UNCHANGED <<peerVars, join, answer, hostVars, siteVars, alive, policies, since>>

\* No other Site has a row for the subject, in force or not.
Ownable(s, x) == \A t \in Sites : <<t, x>> \in owned => t = s

\* advertiseFederationRoutes, once the body is there: the Site's routes are
\* replaced; the answer reaches the Site, or it has given up.
AdvertiseFederationRoutes(s, answered) ==
    /\ advert[s] # Nothing
    /\ LET mine == {x \in advert[s].routes : Ownable(s, x)}
       IN  /\ owned' = owned \cup ({s} \X mine)
           /\ hostLeft' = [p \in Pairs |->
                 IF p[1] # s THEN hostLeft[p] ELSE IF p[2] \in mine THEN Ttl ELSE 0]
    /\ advert' = [advert EXCEPT ![s] = Nothing]
    /\ join' = [join EXCEPT ![s] =
                   IF @ = "advertise" THEN IF answered THEN "list" ELSE "register" ELSE @]
    /\ UNCHANGED <<peerVars, answer, siteVars, alive, policies, since>>

-----------------------------------------------------------------------------
(* Listing and importing. *)

Matches(p, o, t, c) ==
    p.origin \in {"*", o} /\ p.target \in {"*", t} /\ p.capability \in {"*", c}

\* authorizeFederation, for the capabilities asked for: one denial of any of
\* them denies; else one source must allow them all.  (The legacy allowlist, off
\* by default, is left out.)
AuthorizeFederation(o, t, asked) ==
    LET rule(rules, effect, c) == \E p \in rules : p.effect = effect /\ Matches(p, o, t, c)
    IN  /\ \A c \in asked : ~rule(policies, "deny", c) /\ ~rule(ConfigPolicies, "deny", c)
        /\ \/ \A c \in asked : rule(ConfigPolicies, "allow", c)
           \/ \A c \in asked : rule(policies, "allow", c)

\* listFederationRoutes: the routes in force of other Sites that s may use.
Listed(s) ==
    {p \in owned : /\ hostLeft[p] > 0
                   /\ p[1] # s
                   /\ AuthorizeFederation(s, p[1], Capabilities[p[2]])}

ListFederationRoutes(s) ==
    /\ join[s] = "list"
    /\ IsPeer(s)
    /\ answer' = [answer EXCEPT ![s] = [routes |-> Listed(s), age |-> 0]]
    /\ join' = [join EXCEPT ![s] = "import"]
    /\ UNCHANGED <<peerVars, advert, hostVars, siteVars, alive, policies, since>>

\* Mutation: what the Host no longer lists is kept until it expires.
ImportAndKeep(s) ==
    /\ join[s] = "import"
    /\ LET taken == {p \in answer[s].routes : knows[s][p[2]] \in {NoSite, p[1]}}
           site(x) == {t \in Sites : <<t, x>> \in taken}
       IN  /\ knows' = [knows EXCEPT ![s] = [x \in Subjects |->
                           IF site(x) = {} THEN @[x] ELSE CHOOSE t \in site(x) : TRUE]]
           /\ routeLeft' = [routeLeft EXCEPT ![s] = [x \in Subjects |->
                               IF site(x) = {} THEN IF @[x] > 0 THEN Ttl ELSE 0 ELSE Ttl]]
    /\ answer' = [answer EXCEPT ![s] = Nothing]
    /\ join' = [join EXCEPT ![s] = "register"]
    /\ UNCHANGED <<peerVars, advert, hostVars, alive, policies, since>>

\* importFederationRoutes: all imported endpoints are withdrawn, those listed
\* come back.  A subject the Site knows as another Site's, or its own, is skipped.
ImportFederationRoutes(s) ==
    /\ join[s] = "import"
    /\ LET taken == {p \in answer[s].routes : knows[s][p[2]] \in {NoSite, p[1]}}
           site(x) == {t \in Sites : <<t, x>> \in taken}
       IN  /\ knows' = [knows EXCEPT ![s] = [x \in Subjects |->
                           IF site(x) = {} THEN @[x] ELSE CHOOSE t \in site(x) : TRUE]]
           /\ routeLeft' = [routeLeft EXCEPT ![s] = [x \in Subjects |->
                               IF site(x) = {} THEN 0 ELSE Ttl]]
    /\ answer' = [answer EXCEPT ![s] = Nothing]
    /\ join' = [join EXCEPT ![s] = "register"]
    /\ UNCHANGED <<peerVars, advert, hostVars, alive, policies, since>>

\* A request is refused, lost or times out: the tick is over.
JoinFails(s) ==
    /\ join' = [join EXCEPT ![s] = "register"]
    /\ advert' = [advert EXCEPT ![s] = Nothing]
    /\ answer' = [answer EXCEPT ![s] = Nothing]
    /\ UNCHANGED <<peerVars, hostVars, siteVars, alive, policies, since>>

-----------------------------------------------------------------------------
(* Agents, policies and time. *)

\* A Runner of the Site registers or sends a heartbeat.
AgentComes(s, x) ==
    /\ x \in Serves[s] \ alive[s]
    /\ knows[s][x] \in {NoSite, s}
    /\ alive' = [alive EXCEPT ![s] = @ \cup {x}]
    /\ knows' = [knows EXCEPT ![s][x] = s]
    /\ since' = [since EXCEPT ![<<s, x>>] = 0]
    /\ UNCHANGED <<peerVars, join, advert, answer, hostVars, routeLeft, policies>>

\* Its heartbeats stop: the endpoint expires.
AgentGoes(s, x) ==
    /\ x \in alive[s]
    /\ alive' = [alive EXCEPT ![s] = @ \ {x}]
    /\ UNCHANGED <<peerVars, join, advert, answer, hostVars, siteVars, policies, since>>

CreateFederationPolicy(p) ==
    /\ p \in PolicyRows \ policies
    /\ policies' = policies \cup {p}
    /\ UNCHANGED <<peerVars, join, advert, answer, hostVars, siteVars, alive, since>>

DisableFederationPolicy(p) ==
    /\ p \in policies
    /\ policies' = policies \ {p}
    /\ UNCHANGED <<peerVars, join, advert, answer, hostVars, siteVars, alive, since>>

Older(request) == IF request = Nothing THEN Nothing ELSE [request EXCEPT !.age = 1]
OneLess(n) == IF n > 0 THEN n - 1 ELSE 0

\* No request outlives its timeout, which is shorter than a tick.
ClockTicks ==
    /\ \A s \in Sites : advert[s].age # 1 /\ answer[s].age # 1
    /\ advert' = [s \in Sites |-> Older(advert[s])]
    /\ answer' = [s \in Sites |-> Older(answer[s])]
    /\ hostLeft' = [p \in Pairs |-> OneLess(hostLeft[p])]
    /\ routeLeft' = [s \in Sites |-> [x \in Subjects |-> OneLess(routeLeft[s][x])]]
    /\ since' = [p \in Pairs |->
                    IF p[2] \in alive[p[1]] \/ since[p] > Horizon THEN since[p] ELSE since[p] + 1]
    /\ UNCHANGED <<peerVars, join, owned, knows, alive, policies>>

-----------------------------------------------------------------------------

JoinSteps(s) ==
    \/ RegisterHostPeer(s) \/ SendAdvertisement(s)
    \/ AdvertiseFederationRoutes(s, TRUE) \/ ListFederationRoutes(s) \/ ImportFederationRoutes(s)

DirectoryNext ==
    \/ \E s \in Sites :
        \/ JoinSteps(s) \/ AdvertiseFederationRoutes(s, FALSE) \/ JoinFails(s)
        \/ RevokeHostPeer(s) \/ SiteLearnsToken(s)
        \/ \E token \in PeerTokens[s] : RotateHostPeerToken(s, token)
        \/ \E x \in Subjects : AgentComes(s, x) \/ AgentGoes(s, x)
    \/ \E p \in PolicyRows : CreateFederationPolicy(p) \/ DisableFederationPolicy(p)
    \/ ClockTicks

DirectorySpec == DirectoryInit /\ [][DirectoryNext]_directoryVars

-----------------------------------------------------------------------------
(* What the directory promises. *)

\* resolveRoute at Site s for subject x: its own agent, else the imported one.
Route(s, x) ==
    IF knows[s][x] = s THEN IF x \in alive[s] THEN s ELSE NoSite
    ELSE IF routeLeft[s][x] > 0 THEN knows[s][x] ELSE NoSite

\* A message is sent to another Site only for an agent that was alive there not
\* longer ago than the two lives of its route, whichever of the Site, the Host's
\* listing or the requests in between stops, is delayed or is repeated.
RouteIsRecent ==
    \A s \in Sites, x \in Subjects :
        Route(s, x) # NoSite => since[<<Route(s, x), x>>] <= Horizon

\* The Host takes a request of the Site for one of a peer.
Authenticates(s) ==
    \/ advert[s] = Nothing /\ advert'[s] # Nothing
    \/ answer'[s] \notin {answer[s], Older(answer[s]), Nothing}

\* The operator decides who is in.  A Site advertises and is shown routes only with
\* the token it was last given, at its provisioning or by a rotation, and never
\* between a revocation and the next rotation, whatever it registers with.  Only an
\* advertisement already authenticated still refreshes the routes of a revoked one.
RevokedStaysOut ==
    [][\A s \in Sites :
        /\ Authenticates(s) => granted[s] = siteToken[s]
        /\ \A x \in Subjects : hostLeft'[<<s, x>>] > hostLeft[<<s, x>>] => advert[s] # Nothing
      ]_directoryVars

================================================================================
