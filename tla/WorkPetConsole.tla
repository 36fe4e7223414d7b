------------------------------ MODULE WorkPetConsole ------------------------------
(***************************************************************************)
(* The desktop pet's group console (src/apps/workpet/ui/main.js with       *)
(* petStamp.js and connecterApi.js): a panel that opens and closes, a      *)
(* login, the choice of a server and of a group, and two timers that fetch *)
(* the group's messages and members.                                       *)
(*                                                                         *)
(* JavaScript runs one continuation at a time, but every await lets others *)
(* in: a click, a timer, the answer to another request.  Each click that   *)
(* starts a chain of requests is a flow; answers come in any order, or as  *)
(* errors, or as 429.                                                      *)
(***************************************************************************)
EXTENDS Integers

CONSTANTS
    Envs,        \* the servers the pet may select
    Groups,      \* group ids
    GroupsOf,    \* the groups of each server
    Flows        \* bound: chains of requests under way at once

ASSUME WorkPetConsoleAssumption ==
    /\ GroupsOf \in [Envs -> SUBSET Groups]
    /\ \A d, e \in Envs : d # e => GroupsOf[d] \cap GroupsOf[e] = {}

VARIABLES
    panelOpen,   \* the panel is expanded
    paused,      \* consolePaused: a 429 stopped the polling
    loggedIn,
    env,         \* cfg.env, and the server the client talks to
    group,       \* currentGroupId
    saved,       \* the group stored for each server
    options,     \* the groups groupSelect lists
    screen,      \* the groups whose messages or members are shown
    strayNote,   \* the outcome of a chat in another group is noted among the messages
    mentions,    \* the group whose members membersCache holds, for the @ menu
    timers,      \* the intervals that run
    fetches,     \* the groups whose messages or members are being asked for
    flow,        \* per flow, what it awaits, which click began it, whom it asked about
    sending      \* the group of the chat request under way

viewVars == <<group, saved, options, screen, strayNote, mentions>>
consoleVars == <<panelOpen, paused, loggedIn, env, viewVars, timers, fetches, flow, sending>>

-----------------------------------------------------------------------------

NoGroup == "no group"
NoEnv == "no server"

\* A flow awaits the window, the login, the health check, the list of servers,
\* the stored configuration, the list of groups, the content of one, its members
\* for the @ menu, or those members once more.
Await == {"idle", "window", "login", "health", "envs", "stored", "groups", "content",
          "selected", "members"}
Click == {"expand", "login", "env", "group"}
Flow == [at : Await, click : Click, asked : Envs \cup Groups \cup {NoEnv, NoGroup}]

ConsoleTypeOK ==
    /\ {panelOpen, paused, loggedIn, strayNote} \subseteq BOOLEAN
    /\ env \in Envs
    /\ {group, mentions, sending} \subseteq Groups \cup {NoGroup}
    /\ saved \in [Envs -> Groups \cup {NoGroup}]
    /\ {options, screen, fetches} \subseteq SUBSET Groups
    /\ timers \in 0..2
    /\ flow \in [Flows -> Flow]

Idle == [at |-> "idle", click |-> "expand", asked |-> NoEnv]

ConsoleInit ==
    /\ panelOpen = FALSE /\ paused = FALSE /\ loggedIn = FALSE
    /\ env \in Envs
    /\ group = NoGroup /\ mentions = NoGroup /\ sending = NoGroup
    /\ saved = [e \in Envs |-> NoGroup]
    /\ options = {} /\ screen = {} /\ strayNote = FALSE
    /\ timers = 0
    /\ fetches = {}
    /\ flow = [f \in Flows |-> Idle]

Asks(f, at, about) == flow' = [flow EXCEPT ![f].at = at, ![f].asked = about]
Awaits(f, at) == Asks(f, at, NoEnv)
AwaitsGroups(f) == Asks(f, "groups", env)
Ends(f) == flow' = [flow EXCEPT ![f] = Idle]
Begins(f, click, at) ==
    /\ flow[f] = Idle
    /\ flow' = [flow EXCEPT ![f] = [at |-> at, click |-> click, asked |-> NoEnv]]

-----------------------------------------------------------------------------
(* The content of a group: its messages and its members, asked for separately. *)

\* pauseConsolePolling, if there is reason to: only opening the panel ends the pause.
PausesPolling(due) ==
    /\ paused' = (paused \/ due)
    /\ timers' = IF due THEN 0 ELSE timers

\* loadGroupMembers and loadGroupMessages ask, or do not.
Asked(g, wanted) == IF g # NoGroup /\ wanted /\ loggedIn THEN fetches \cup {g} ELSE fetches

\* Mutation: an answer is dropped only when the panel is closed.
IsStaleIfClosed(requested) == ~panelOpen

\* isStaleGroupFetch.
IsStaleGroupFetch(requested) == ~panelOpen \/ group = NoGroup \/ requested # group

\* One of the answers comes; another may be due.  The members are for the @ menu too.
ContentAnswered(g, outcome, last) ==
    /\ g \in fetches
    /\ fetches' = IF last THEN fetches \ {g} ELSE fetches
    /\ LET fresh == ~IsStaleGroupFetch(g)
           shown == fresh /\ outcome = "ok"
       IN  /\ screen' = IF shown THEN screen \cup {g} ELSE screen
           /\ mentions' \in IF shown THEN {mentions, g} ELSE {mentions}
           /\ PausesPolling(fresh /\ outcome = "429")
    /\ UNCHANGED <<panelOpen, loggedIn, env, group, saved, options, strayNote, flow, sending>>

\* One of the two intervals fires.
TimerFires ==
    /\ timers > 0
    /\ fetches' = Asked(group, panelOpen /\ ~paused)
    /\ UNCHANGED <<panelOpen, paused, loggedIn, env, viewVars, timers, flow, sending>>

\* selectGroup: g is shown empty and its content is asked for.
SelectGroup(g) ==
    /\ group' = g
    /\ saved' = [saved EXCEPT ![env] = g]
    /\ screen' = {} /\ strayNote' = FALSE
    /\ fetches' = Asked(g, ~paused)

-----------------------------------------------------------------------------
(* What the user does. *)

Expand(f) ==
    /\ ~panelOpen
    /\ Begins(f, "expand", "window")
    /\ panelOpen' = TRUE
    /\ paused' = FALSE
    /\ UNCHANGED <<loggedIn, env, viewVars, timers, fetches, sending>>

Collapse ==
    /\ panelOpen
    /\ panelOpen' = FALSE
    /\ timers' = 0
    /\ UNCHANGED <<paused, loggedIn, env, viewVars, fetches, flow, sending>>

SubmitLogin(f) ==
    /\ panelOpen
    /\ ~loggedIn
    /\ Begins(f, "login", "login")
    /\ UNCHANGED <<panelOpen, paused, loggedIn, env, viewVars, timers, fetches, sending>>

\* selectEnv: the client changes at once, the group only when that is stored.
SelectEnv(f, e) ==
    /\ panelOpen /\ loggedIn
    /\ e # env
    /\ Begins(f, "env", "stored")
    /\ env' = e
    /\ UNCHANGED <<panelOpen, paused, loggedIn, viewVars, timers, fetches, sending>>

ChooseGroup(f, g) ==
    /\ panelOpen
    /\ g \in options
    /\ Begins(f, "group", "content")
    /\ SelectGroup(g)
    /\ UNCHANGED <<panelOpen, paused, loggedIn, env, options, mentions, timers, sending>>

\* send: the message is shown at once.
Send ==
    /\ panelOpen /\ loggedIn
    /\ sending = NoGroup
    /\ group # NoGroup
    /\ sending' = group
    /\ screen' = screen \cup {group}
    /\ UNCHANGED <<panelOpen, paused, loggedIn, env, group, saved, options, strayNote, mentions,
                   timers, fetches, flow>>

\* The outcome is noted among the messages shown by now, of whatever group they are;
\* a 429 pauses the polling, even if the panel was closed meanwhile.
ChatAnswered(limited) ==
    /\ sending # NoGroup
    /\ sending' = NoGroup
    /\ IF sending = group
       THEN screen' = screen \cup {group} /\ UNCHANGED strayNote
       ELSE strayNote' = TRUE /\ UNCHANGED screen
    /\ PausesPolling(limited)
    /\ UNCHANGED <<panelOpen, loggedIn, env, group, saved, options, mentions, fetches, flow>>

-----------------------------------------------------------------------------
(* The chains. *)

\* Mutation: polling starts for whoever is logged in.
ShouldStartIfLoggedIn == loggedIn /\ ~paused

\* shouldStartConsolePolling, and the checks of startConsolePolling.
ShouldStart == panelOpen /\ ~paused /\ loggedIn

\* The window has its size; without a login there is nothing to load.
WindowSized(f) ==
    /\ flow[f].at = "window"
    /\ IF loggedIn THEN Awaits(f, "envs") ELSE Ends(f)
    /\ UNCHANGED <<panelOpen, paused, loggedIn, env, viewVars, timers, fetches, sending>>

LoginAnswered(f, accepted) ==
    /\ flow[f].at = "login"
    /\ loggedIn' = (loggedIn \/ accepted)
    /\ IF accepted THEN Awaits(f, "health") ELSE Ends(f)
    /\ UNCHANGED <<panelOpen, paused, env, viewVars, timers, fetches, sending>>

HealthAnswered(f) ==
    /\ flow[f].at = "health"
    /\ IF panelOpen THEN Awaits(f, "envs") ELSE Ends(f)
    /\ UNCHANGED <<panelOpen, paused, loggedIn, env, viewVars, timers, fetches, sending>>

\* loadEnvs: if the selected server is not listed, another one is selected.
EnvsAnswered(f, e) ==
    /\ flow[f].at = "envs"
    /\ e # env => panelOpen
    /\ env' = e
    /\ IF e = env THEN AwaitsGroups(f) ELSE Awaits(f, "stored")
    /\ UNCHANGED <<panelOpen, paused, loggedIn, viewVars, timers, fetches, sending>>

\* The configuration is stored; selectEnv then clears the panel.
ConfigStored(f) ==
    /\ flow[f].at = "stored"
    /\ IF flow[f].click = "env"
       THEN group' = NoGroup /\ screen' = {} /\ strayNote' = FALSE /\ mentions' = NoGroup
       ELSE UNCHANGED <<group, screen, strayNote, mentions>>
    /\ AwaitsGroups(f)
    /\ UNCHANGED <<panelOpen, paused, loggedIn, env, saved, options, timers, fetches, sending>>

\* readSavedGroupId: the group stored for the selected server, if it is listed.
Preferred(listed) == IF saved[env] \in listed THEN {saved[env]} ELSE listed

\* loadGroups: the stored group, else any of the list.
GroupsAnswered(f) ==
    LET listed == GroupsOf[flow[f].asked]
    IN  /\ flow[f].at = "groups"
        /\ panelOpen
        /\ options' = listed
        /\ \/ /\ listed # {}
              /\ \E g \in Preferred(listed) : SelectGroup(g)
              /\ Awaits(f, "content")
           \/ /\ listed = {}
              /\ group' = NoGroup
              /\ Asks(f, "members", NoGroup)
              /\ UNCHANGED <<saved, screen, strayNote, fetches>>
        /\ UNCHANGED <<panelOpen, paused, loggedIn, env, mentions, timers, sending>>

\* The list fails, or the panel is closed when it comes.
GroupsNotListed(f, limited) ==
    /\ flow[f].at = "groups"
    /\ LET pause == panelOpen /\ limited
       IN  /\ PausesPolling(pause)
           /\ options' = IF pause THEN {} ELSE options
    /\ Asks(f, "members", group)
    /\ UNCHANGED <<panelOpen, loggedIn, env, group, saved, screen, strayNote, mentions, fetches,
                   sending>>

\* Both requests of selectGroup are answered; they are not told from the timers'.
ContentLoaded(f) ==
    /\ flow[f].at = "content"
    /\ Asks(f, "selected", group)
    /\ UNCHANGED <<panelOpen, paused, loggedIn, env, viewVars, timers, fetches, sending>>

\* loadMembers: the answer is taken, whichever group is selected by now (that to a
\* request without a group is of cfg.group, and counts as of none).  After an error an
\* empty list is filled with the agents of the member strip, if there is one.
LoadMembers(asked, ok) ==
    mentions' \in IF ok THEN {asked}
                  ELSE IF mentions = NoGroup THEN screen \cup {NoGroup} ELSE {mentions}

\* The members asked for by selectGroup; the chains that loaded the groups ask again.
SelectedAnswered(f, ok) ==
    /\ flow[f].at = "selected"
    /\ LoadMembers(flow[f].asked, ok)
    /\ IF flow[f].click = "group" THEN Ends(f) ELSE Asks(f, "members", group)
    /\ UNCHANGED <<panelOpen, paused, loggedIn, env, group, saved, options, screen, strayNote,
                   timers, fetches, sending>>

\* Mutation: the timers are started without clearing those that run.
MembersAnsweredLeakingTimers(f, ok) ==
    /\ flow[f].at = "members"
    /\ LoadMembers(flow[f].asked, ok)
    /\ timers' = IF flow[f].click \in {"expand", "login"} /\ ShouldStart THEN timers + 2 ELSE timers
    /\ Ends(f)
    /\ UNCHANGED <<panelOpen, paused, loggedIn, env, group, saved, options, screen, strayNote,
                   fetches, sending>>

\* loadMembers is the last request of each chain; expand and submitLogin then start
\* the timers, after clearing those that run.
MembersAnswered(f, ok) ==
    /\ flow[f].at = "members"
    /\ LoadMembers(flow[f].asked, ok)
    /\ timers' = IF flow[f].click \in {"expand", "login"} /\ ShouldStart THEN 2 ELSE timers
    /\ Ends(f)
    /\ UNCHANGED <<panelOpen, paused, loggedIn, env, group, saved, options, screen, strayNote,
                   fetches, sending>>

-----------------------------------------------------------------------------

FlowSteps(f) ==
    \/ Expand(f) \/ SubmitLogin(f)
    \/ \E e \in Envs : SelectEnv(f, e) \/ EnvsAnswered(f, e)
    \/ \E g \in Groups : ChooseGroup(f, g)
    \/ WindowSized(f) \/ HealthAnswered(f) \/ ConfigStored(f) \/ GroupsAnswered(f)
    \/ ContentLoaded(f)
    \/ \E yes \in BOOLEAN :
        \/ LoginAnswered(f, yes) \/ GroupsNotListed(f, yes)
        \/ SelectedAnswered(f, yes) \/ MembersAnswered(f, yes)

ConsoleNext ==
    \/ \E f \in Flows : FlowSteps(f)
    \/ Collapse \/ TimerFires \/ Send
    \/ \E limited \in BOOLEAN : ChatAnswered(limited)
    \/ \E g \in Groups, outcome \in {"ok", "error", "429"}, last \in BOOLEAN :
        ContentAnswered(g, outcome, last)

ConsoleSpec == ConsoleInit /\ [][ConsoleNext]_consoleVars

-----------------------------------------------------------------------------
(* What the user sees. *)

\* The panel never mixes the content of groups: whatever answers come late, the
\* messages and the member strip it shows are those of the selected group.  (The note
\* of a chat's outcome and the names of the @ menu are not part of this: they are
\* taken over unasked.)
OneGroupOnScreen == group # NoGroup => screen \subseteq {group}

\* The timers run if and only if there is something to poll for: never behind a
\* closed panel, before a login or after a 429; and when everything asked for has
\* come, an open panel that is not paused is polling.
PollsWhileOpen ==
    /\ timers > 0 => panelOpen /\ loggedIn /\ ~paused
    /\ panelOpen /\ loggedIn /\ ~paused /\ (\A f \in Flows : flow[f] = Idle) => timers = 2

================================================================================
