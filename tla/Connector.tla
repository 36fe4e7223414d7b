------------------------------ MODULE Connector ------------------------------
(***************************************************************************)
(* The command line (src/src/cli.js, commands.js, coordinator.js,          *)
(* registry.js, logStore.js; workpanelClient.js for the servers of kind    *)
(* workpanel): it shows which teams are online, and hands a prompt to a    *)
(* team's coordinator only after it has just seen that coordinator up.     *)
(*                                                                         *)
(* The handler of a line is async and readline does not wait for it: the   *)
(* next line is handled while the commands before it still await an        *)
(* answer.  They share the flags of the registry.  A coordinator goes up   *)
(* and down as it likes, so a probe has either outcome.                    *)
(*                                                                         *)
(* A team's card and its last error change with its flag, and no command   *)
(* decides anything by them: they are left out.                            *)
(***************************************************************************)
EXTENDS Integers, Sequences

CONSTANTS
    Teams,
    Order,       \* the teams in the order of the configuration, server by server
    ServerOf,    \* the server of each team
    WorkPanels,  \* the servers of kind workpanel; the others serve /health and /tasks
    Commands,    \* bound: commands under way at once
    Prompts      \* bound: prompts entered

ASSUME ConnectorAssumption ==
    /\ Order \in Seq(Teams) /\ Len(Order) > 0
    /\ Teams = {Order[i] : i \in DOMAIN Order}
    /\ \A i, j \in DOMAIN Order : i # j => Order[i] # Order[j]
    /\ \A i, j \in DOMAIN Order : \A m \in i..j :
          ServerOf[Order[i]] = ServerOf[Order[j]] => ServerOf[Order[m]] = ServerOf[Order[i]]

VARIABLES
    reading,       \* the first refresh is over and lines are read
    teamOnline,    \* team.online
    serverOnline,  \* server.online
    pendingChat,   \* the team whose prompt the next line is, Unasked if none
    command,       \* per command under way, where it stands
    dispatchLog,   \* dispatch.jsonl: the status recorded for each prompt
    handed,        \* prompts on their way to a coordinator, and the team's
    ran,           \* the teams whose coordinator took a prompt up
    named,         \* history: the team a prompt was meant for, Unasked if not entered
    torn           \* history: the servers whose flag was written over a newer probe

shownVars == <<teamOnline, serverOnline, torn>>
promptVars == <<dispatchLog, handed, ran, named>>
connectorVars == <<reading, shownVars, pendingChat, command, promptVars>>

-----------------------------------------------------------------------------

Servers == {ServerOf[t] : t \in Teams}
Unasked == "nothing asked"
Unknown == "unknown name"
Ready == [does |-> "nothing", next |-> 1, any |-> FALSE, crossed |-> FALSE, prompt |-> Unasked]

Doing == {"nothing", "refresh", "probe", "prepare", "dispatch"}
Status == {"none", "unavailable", "failed", "succeeded", "accepted"}

ConnectorTypeOK ==
    /\ reading \in BOOLEAN
    /\ teamOnline \in [Teams -> BOOLEAN]
    /\ serverOnline \in [Servers -> BOOLEAN]
    /\ pendingChat \in Teams \cup {Unknown, Unasked}
    /\ command \in [Commands -> [does : Doing, next : DOMAIN Order, any : BOOLEAN,
                                 crossed : BOOLEAN, prompt : Prompts \cup {Unasked}]]
    /\ dispatchLog \in [Prompts -> Status]
    /\ handed \subseteq Prompts \X Teams
    /\ ran \in [Prompts -> SUBSET Teams]
    /\ named \in [Prompts -> Teams \cup {Unknown, Unasked}]
    /\ torn \subseteq Servers

\* What a look at a team's server finds: that it answers and, if it is a WorkPanel, lets
\* the account in and knows the group; that the group has an agent to coordinate it and
\* a member who may speak for the account.
Findings == SUBSET {"answers", "agent", "sender"}

WorkPanelTeam(t) == ServerOf[t] \in WorkPanels

TeamsOf(s) == {t \in Teams : ServerOf[t] = s}

\* Command k is between two probes of the teams of server s.
Inside(k, s) ==
    /\ command[k].does = "refresh"
    /\ command[k].next > 1
    /\ ServerOf[Order[command[k].next]] = s
    /\ ServerOf[Order[command[k].next - 1]] = s

\* k goes to step c, having written a flag of server s, if s is one.
Stands(k, c, s) ==
    command' = [j \in Commands |->
                  IF j = k THEN c
                  ELSE IF Inside(j, s) THEN [command[j] EXCEPT !.crossed = TRUE]
                  ELSE command[j]]

FirstRefresh(k) == command' = [j \in Commands |->
                                 IF j = k THEN [Ready EXCEPT !.does = "refresh"] ELSE Ready]

\* A new process knows nothing to be online and refreshes before it reads a line.
ConnectorInit ==
    /\ reading = FALSE
    /\ teamOnline = [t \in Teams |-> FALSE]
    /\ serverOnline = [s \in Servers |-> FALSE]
    /\ pendingChat = Unasked
    /\ command \in {[j \in Commands |-> IF j = k THEN [Ready EXCEPT !.does = "refresh"]
                                                 ELSE Ready] : k \in Commands}
    /\ dispatchLog = [p \in Prompts |-> "none"]
    /\ handed = {}
    /\ ran = [p \in Prompts |-> {}]
    /\ named = [p \in Prompts |-> Unasked]
    /\ torn = {}

-----------------------------------------------------------------------------
(* Lines.                                                                    *)

\* /refresh.
Refresh(k) ==
    /\ reading /\ pendingChat = Unasked
    /\ command[k] = Ready
    /\ command' = [command EXCEPT ![k].does = "refresh"]
    /\ UNCHANGED <<reading, shownVars, pendingChat, promptVars>>

\* /chat names a team; names are looked up only when the prompt is entered.
NameTeam(t) ==
    /\ reading /\ pendingChat = Unasked
    /\ pendingChat' = t
    /\ UNCHANGED <<reading, shownVars, command, promptVars>>

\* The next line is the prompt, whatever it says; an empty one calls it off.
CancelPrompt ==
    /\ pendingChat # Unasked
    /\ pendingChat' = Unasked
    /\ UNCHANGED <<reading, shownVars, command, promptVars>>

EnterPrompt(k, p) ==
    /\ pendingChat # Unasked
    /\ command[k] = Ready /\ named[p] = Unasked
    /\ named' = [named EXCEPT ![p] = pendingChat]
    /\ command' = IF pendingChat = Unknown THEN command
                  ELSE [command EXCEPT ![k].does = "probe", ![k].prompt = p]
    /\ pendingChat' = Unasked
    /\ UNCHANGED <<reading, shownVars, dispatchLog, handed, ran>>

\* /quit, or the end of the input: process.exit at once, and the program is started
\* again some time.  What was handed over stays so; only the log is on disk.
QuitAndStart(k) ==
    /\ reading
    /\ reading' = FALSE
    /\ teamOnline' = [t \in Teams |-> FALSE]
    /\ serverOnline' = [s \in Servers |-> FALSE]
    /\ torn' = {}
    /\ pendingChat' = Unasked
    /\ FirstRefresh(k)
    /\ UNCHANGED promptVars

-----------------------------------------------------------------------------
(* Answers.                                                                  *)

\* probeWorkPanel: the group is up if an active agent is there to coordinate.
ProbeWorkPanel(found) == {"answers", "agent"} \subseteq found

\* probeCoordinator; a timeout and an error are as good as none.
ProbeCoordinator(t, found) ==
    IF WorkPanelTeam(t) THEN ProbeWorkPanel(found) ELSE "answers" \in found

\* refreshRegistry: the next team has answered, or has not; after the last team of a
\* server its flag is set to what this command has seen.
RefreshProbed(k, found) ==
    LET c == command[k]
        t == Order[c.next]
        s == ServerOf[t]
        ok == ProbeCoordinator(t, found)
        seen == c.any \/ ok
        lastOfAll == c.next = Len(Order)
        lastOfServer == lastOfAll \/ ServerOf[Order[c.next + 1]] # s
    IN  /\ c.does = "refresh"
        /\ teamOnline' = [teamOnline EXCEPT ![t] = ok]
        /\ IF lastOfServer
             THEN /\ serverOnline' = [serverOnline EXCEPT ![s] = seen]
                  /\ torn' = IF c.crossed THEN torn \cup {s} ELSE torn \ {s}
             ELSE UNCHANGED <<serverOnline, torn>>
        /\ Stands(k, IF lastOfAll THEN Ready
                     ELSE [c EXCEPT !.next = @ + 1,
                                    !.any = IF lastOfServer THEN FALSE ELSE seen,
                                    !.crossed = IF lastOfServer THEN FALSE ELSE @], s)
        /\ reading' = (reading \/ lastOfAll)
        /\ UNCHANGED <<pendingChat, promptVars>>

\* Mutation: the server is online only while all of its teams are.
AllSeen(s, online) == \A t \in TeamsOf(s) : online[t]

\* cmdChat: a server is online while one of its teams is.
ServerSeen(s, online) == \E t \in TeamsOf(s) : online[t]

\* Mutation: the prompt goes out although the coordinator did not answer.
HandsOverAnyhow(t, ok) == ~WorkPanelTeam(t)

\* The POST to /tasks leaves in the turn the probe is answered in; a WorkPanel is asked
\* again first.
HandsOver(t, ok) == ok /\ ~WorkPanelTeam(t)

\* cmdChat: the probe of the team the prompt is for; no bypass if it fails.
ChatProbed(k, found) ==
    LET p == command[k].prompt
        t == named[p]
        s == ServerOf[t]
        ok == ProbeCoordinator(t, found)
        does == IF ~ok THEN "nothing" ELSE IF WorkPanelTeam(t) THEN "prepare" ELSE "dispatch"
    IN  /\ command[k].does = "probe"
        /\ teamOnline' = [teamOnline EXCEPT ![t] = ok]
        /\ serverOnline' = [serverOnline EXCEPT ![s] = ServerSeen(s, teamOnline')]
        /\ torn' = torn \ {s}
        /\ dispatchLog' = IF ok THEN dispatchLog ELSE [dispatchLog EXCEPT ![p] = "unavailable"]
        /\ handed' = IF HandsOver(t, ok) THEN handed \cup {<<p, t>>} ELSE handed
        /\ Stands(k, IF ok THEN [command[k] EXCEPT !.does = does] ELSE Ready, s)
        /\ UNCHANGED <<reading, pendingChat, ran, named>>

\* dispatchWorkPanel up to its POST: without an agent or a sender there is none.
DispatchWorkPanel(k, found) ==
    LET p == command[k].prompt
        posts == ProbeWorkPanel(found) /\ "sender" \in found
    IN  /\ command[k].does = "prepare"
        /\ handed' = IF posts THEN handed \cup {<<p, named[p]>>} ELSE handed
        /\ dispatchLog' = IF posts THEN dispatchLog ELSE [dispatchLog EXCEPT ![p] = "failed"]
        /\ command' = [command EXCEPT ![k] =
                         IF posts THEN [@ EXCEPT !.does = "dispatch"] ELSE Ready]
        /\ UNCHANGED <<reading, shownVars, pendingChat, ran, named>>

\* The coordinator takes the prompt up: a task, or a message that mentions the agent.
CoordinatorTakes(p, t) ==
    /\ <<p, t>> \in handed
    /\ handed' = handed \ {<<p, t>>}
    /\ ran' = [ran EXCEPT ![p] = @ \cup {t}]
    /\ UNCHANGED <<reading, shownVars, pendingChat, command, dispatchLog, named>>

\* It does not: the connection failed, or it refused.
CoordinatorRefuses(p, t) ==
    /\ <<p, t>> \in handed
    /\ handed' = handed \ {<<p, t>>}
    /\ UNCHANGED <<reading, shownVars, pendingChat, command, dispatchLog, ran, named>>

\* A good answer tells that the prompt was taken up.
GoodStatus(p) == IF WorkPanelTeam(named[p]) THEN "accepted" ELSE "succeeded"

\* The answer is recorded.  An error or the timeout is recorded as failed, whether
\* the prompt is refused, still on its way, or being worked on.
Dispatched(k, status) ==
    LET p == command[k].prompt
    IN  /\ command[k].does = "dispatch"
        /\ status # "failed" => status = GoodStatus(p) /\ ran[p] # {}
        /\ dispatchLog' = [dispatchLog EXCEPT ![p] = status]
        /\ command' = [command EXCEPT ![k] = Ready]
        /\ UNCHANGED <<reading, shownVars, pendingChat, handed, ran, named>>

ConnectorNext ==
    \/ CancelPrompt
    \/ \E t \in Teams \cup {Unknown} : NameTeam(t)
    \/ \E k \in Commands :
          \/ Refresh(k)
          \/ QuitAndStart(k)
          \/ \E p \in Prompts : EnterPrompt(k, p)
          \/ \E found \in Findings :
                RefreshProbed(k, found) \/ ChatProbed(k, found) \/ DispatchWorkPanel(k, found)
          \/ \E status \in {"succeeded", "accepted", "failed"} : Dispatched(k, status)
    \/ \E p \in Prompts, t \in Teams : CoordinatorTakes(p, t) \/ CoordinatorRefuses(p, t)

ConnectorSpec == ConnectorInit /\ [][ConnectorNext]_connectorVars

-----------------------------------------------------------------------------
(* A prompt reaches no coordinator but that of the team it was meant for, and none
   that was just found down; what the log says of it stays true however many commands
   overlap and whenever the program is left: a prompt recorded as succeeded or
   accepted was taken up, and one recorded as unavailable is never taken up (cmdChat).
   One recorded as failed may have been, or may yet be. *)
LogTellsTruth ==
    \A p \in Prompts :
        /\ \A t \in Teams : (t \in ran[p] \/ <<p, t>> \in handed) => t = named[p]
        /\ dispatchLog[p] \in {"succeeded", "accepted"} => named[p] \in ran[p]
        /\ dispatchLog[p] = "unavailable" =>
              ran[p] = {} /\ \A t \in Teams : <<p, t>> \notin handed

(* The list of servers agrees with the list of teams, whatever commands overlap, except
   while a refresh is in the midst of a server's teams, and on a server where another
   command's probe came while a refresh was in the midst of its teams: there the older
   view is written last and stays until the next probe (refreshRegistry, cmdChat). *)
FlagsAgree ==
    \A s \in Servers \ torn :
        (\A k \in Commands : ~Inside(k, s)) =>
            (serverOnline[s] <=> \E t \in TeamsOf(s) : teamOnline[t])
=============================================================================
