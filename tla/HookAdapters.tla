---------------------------- MODULE HookAdapters ----------------------------
(***************************************************************************)
(* Installing and removing the closeout hook in the settings files of the  *)
(* agents (governance_tools/manage_agent_closeout.py). The files belong to *)
(* the user, who edits them, and an editor may leave one unparsable, while *)
(* a command is between reading and writing them.                          *)
(***************************************************************************)
EXTENDS Workspace, Naturals, Sequences

CONSTANTS MaxHookCommands, MaxHookEdits

VARIABLES
    config,         \* the settings files
    command,        \* the command that is running
    report,         \* what the last command printed, and its exit code
    wanted,         \* what the user put in each file, hooks of their own and other settings
    lost,           \* files whose content a command could not see or did not see any more
    hookCommands, hookEdits

adapterVars == <<config, command, report, wanted, lost, hookCommands, hookEdits>>

(* KNOWN_AGENTS, in the order of the registry, and the file each writes. *)
Agents == <<"claude", "copilot", "gemini", "chatgpt-web", "codex">>

Automatic == {"claude", "copilot", "gemini"}
Manual == {"chatgpt-web", "codex"}

FileOf == [a \in Automatic |-> a]

(* Claude Code also reads the user's own settings and the local ones. *)
SeenBy(agent) == IF agent = "claude" THEN {"claude", "local", "home"} ELSE {agent}

SettingsFiles == {"claude", "local", "home", "copilot", "gemini"}

Operations == {"install", "verify", "repair", "uninstall"}
Statuses ==
    {"not_applicable", "no_repair_needed", "manual_only", "installed", "not_installed",
     "already_installed", "raises", "not_found", "uninstalled"}

-----------------------------------------------------------------------------
(* A file that parses: whether it holds settings besides hooks, whether it *)
(* has a hooks object, and the groups of the event, each with the number   *)
(* of hooks of the framework and of others. Claude Code nests hooks in     *)
(* groups; for the others a group is a run of the one list they have.      *)
Groups == [own : Nat, foreign : Nat]
Group(own, foreign) == [own |-> own, foreign |-> foreign]
Settings == [other : BOOLEAN, hooks : BOOLEAN, groups : Seq(Groups)]

NoSettings == [other |-> FALSE, hooks |-> FALSE, groups |-> <<>>]

(* What a command has still to do, has read and has found out. *)
Results == [agent : Automatic \union Manual, status : Statuses]
Commands ==
    [op : Operations, todo : Seq(Automatic \union Manual), data : Settings \union {None},
     results : Seq(Results), since : Nat]

ASSUME AdaptersAssumption ==
    /\ None \notin Settings \union Statuses \union Commands
    /\ Torn \notin Settings \union {None}
    /\ MaxHookCommands \in Nat /\ MaxHookEdits \in Nat

ReadJson(file) == IF config[file] \in {None, Torn} THEN NoSettings ELSE config[file]

HasOwn(data) == \E i \in DOMAIN data.groups : data.groups[i].own > 0
HasForeign(data) == \E i \in DOMAIN data.groups : data.groups[i].foreign > 0

(* Mutant: only the group that install writes to is searched. *)
InstalledFirst(agent) ==
    agent \notin Manual /\
    \E f \in SeenBy(agent) : LET gs == ReadJson(f).groups IN gs # <<>> /\ gs[1].own > 0

Installed(agent) ==
    agent \notin Manual /\ \E f \in SeenBy(agent) : HasOwn(ReadJson(f))

(* Mutant: the event is set to the hook alone. *)
AddedAlone(data) == [data EXCEPT !.hooks = TRUE, !.groups = <<Group(1, 0)>>]

(* The hook goes to the end of the first group. *)
Added(data) ==
    LET groups == IF data.groups = <<>> THEN <<Group(1, 0)>>
                  ELSE [data.groups EXCEPT ![1].own = @ + 1]
    IN  [data EXCEPT !.hooks = TRUE, !.groups = groups]

Removed(data) ==
    [data EXCEPT !.groups = [i \in DOMAIN @ |-> [@[i] EXCEPT !.own = 0]]]

(* Copilot and Gemini index the hooks object without asking for it. *)
Raises(agent, data) == agent \in {"copilot", "gemini"} /\ ~data.hooks

-----------------------------------------------------------------------------
AdaptersInit ==
    /\ config \in [SettingsFiles -> {None}]
    /\ command = None /\ report = None
    /\ wanted = [f \in SettingsFiles |-> [foreign |-> 0, other |-> FALSE]]
    /\ lost = {} /\ hookCommands = 0 /\ hookEdits = 0

(* The user, or another tool, edits a file that parses: other settings, a  *)
(* hook of their own in a new group, and by hand the hook of the framework *)
(* in the files that no command writes.                                    *)
EditSettings(file) ==
    /\ hookEdits < MaxHookEdits
    /\ hookEdits' = hookEdits + 1
    /\ LET data == ReadJson(file)
       IN  \/ /\ config' = [config EXCEPT ![file] = [data EXCEPT !.other = TRUE]]
              /\ wanted' = [wanted EXCEPT ![file].other = TRUE]
           \/ /\ ~HasForeign(data)
              /\ config' = [config EXCEPT ![file] =
                     [data EXCEPT !.hooks = TRUE, !.groups = <<Group(0, 1)>> \o @]]
              /\ wanted' = [wanted EXCEPT ![file].foreign = 1]
           \/ /\ file \in {"local", "home"} /\ ~HasOwn(data)
              /\ config' = [config EXCEPT ![file] = Added(data)]
              /\ UNCHANGED wanted
    /\ config[file] # Torn
    /\ lost' = IF command # None /\ command.data # None
                  /\ FileOf[Head(command.todo)] = file
               THEN lost \union {file} ELSE lost
    /\ UNCHANGED <<command, report, hookCommands>>

TearSettings(file) ==
    /\ hookEdits < MaxHookEdits
    /\ hookEdits' = hookEdits + 1
    /\ config[file] \notin {None, Torn}
    /\ config' = [config EXCEPT ![file] = Torn]
    /\ lost' = lost \union {file}
    /\ UNCHANGED <<command, report, wanted, hookCommands>>

-----------------------------------------------------------------------------
BeginCommand(op, agents) ==
    /\ command = None /\ hookCommands < MaxHookCommands
    /\ hookCommands' = hookCommands + 1
    /\ command' = [op |-> op, todo |-> agents, data |-> None, results |-> <<>>,
                   since |-> hookEdits]
    /\ report' = None
    /\ UNCHANGED <<config, wanted, lost, hookEdits>>

Result(agent, status) == [agent |-> agent, status |-> status]

(* Before an agent's file is written: _find_installed, the verdict of      *)
(* verify and the results that write nothing.                              *)
Settled(op, agent) ==
    IF agent \in Manual
    THEN CASE op = "uninstall" -> "not_applicable"
           [] op = "repair" -> "no_repair_needed"
           [] OTHER -> "manual_only"
    ELSE LET data == ReadJson(FileOf[agent])
         IN  CASE op = "verify" -> IF Installed(agent) THEN "installed" ELSE "not_installed"
               [] op = "install" -> IF Installed(agent) THEN "already_installed" ELSE None
               [] op = "repair" -> IF Installed(agent) THEN "no_repair_needed" ELSE None
               [] op = "uninstall" ->
                     IF Raises(agent, data) THEN "raises"
                     ELSE IF HasOwn(data) THEN None ELSE "not_found"

(* An exception ends the command: the agents that follow are not reached. *)
Advanced(cmd, result) ==
    [cmd EXCEPT !.todo = IF result.status = "raises" THEN <<>> ELSE Tail(@),
                !.data = None, !.results = Append(@, result)]

LookAt ==
    /\ command # None /\ command.todo # <<>> /\ command.data = None
    /\ LET agent == Head(command.todo)
           settled == Settled(command.op, agent)
       IN  command' = IF settled # None THEN Advanced(command, Result(agent, settled))
                      ELSE [command EXCEPT !.data = ReadJson(FileOf[agent])]
    /\ UNCHANGED <<config, report, wanted, lost, hookCommands, hookEdits>>

(* _write_json: the whole file, from what was read. *)
WriteSettings ==
    /\ command # None /\ command.data # None
    /\ LET agent == Head(command.todo)
           new == IF command.op = "uninstall" THEN Removed(command.data) ELSE Added(command.data)
           status == IF command.op = "uninstall" THEN "uninstalled" ELSE "installed"
       IN  /\ config' = [config EXCEPT ![FileOf[agent]] = new]
           /\ command' = Advanced(command, Result(agent, status))
    /\ UNCHANGED <<report, wanted, lost, hookCommands, hookEdits>>

(* Only verify says with its exit code what it found. *)
ExitCode(op, results) ==
    IF \E i \in DOMAIN results : results[i].status = "raises" THEN 1
    ELSE IF op = "verify" /\ \E i \in DOMAIN results : results[i].status = "not_installed"
    THEN 1 ELSE 0

FinishCommand ==
    /\ command # None /\ command.todo = <<>>
    /\ report' = [op |-> command.op, results |-> command.results,
                  exit |-> ExitCode(command.op, command.results),
                  since |-> command.since]
    /\ command' = None
    /\ UNCHANGED <<config, wanted, lost, hookCommands, hookEdits>>

AdaptersNext ==
    \/ \E f \in SettingsFiles : EditSettings(f) \/ TearSettings(f)
    \/ \E op \in Operations :
           BeginCommand(op, Agents) \/ \E a \in Automatic \union Manual : BeginCommand(op, <<a>>)
    \/ LookAt
    \/ WriteSettings
    \/ FinishCommand

AdaptersSpec == AdaptersInit /\ [][AdaptersNext]_adapterVars

-----------------------------------------------------------------------------
(* The commands leave what is not theirs alone: a file keeps the hooks and *)
(* the settings of its user unless it did not parse or was edited between  *)
(* the reading and the writing, and never gets the hook twice. When no     *)
(* file was edited since a command began, its exit code can be believed:   *)
(* install, repair and verify leave every automatic agent installed, and   *)
(* uninstall no hook in the files the tool writes.                         *)
AdaptersSound ==
    /\ \A f \in SettingsFiles \ lost :
           LET data == ReadJson(f)
           IN  /\ HasForeign(data) <=> wanted[f].foreign = 1
               /\ data.other = wanted[f].other
    /\ \A f \in SettingsFiles \ lost :
           LET groups == ReadJson(f).groups
           IN  \A i, j \in DOMAIN groups : groups[i].own > 0 /\ groups[j].own > 0 =>
                   i = j /\ groups[i].own = 1
    /\ report # None /\ report.since = hookEdits /\ report.exit = 0 =>
           \A i \in DOMAIN report.results :
               LET agent == report.results[i].agent
               IN  agent \notin Manual =>
                     /\ report.op # "uninstall" =>
                            \E f \in SeenBy(agent) : HasOwn(ReadJson(f))
                     /\ report.op = "uninstall" => ~HasOwn(ReadJson(FileOf[agent]))
=============================================================================
