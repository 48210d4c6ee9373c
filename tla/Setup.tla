------------------------------- MODULE Setup -------------------------------
(***************************************************************************)
(* The commands that put Aftermind on a machine and take it down again:    *)
(* `aftermind init`, `up`, `down` and `connect` (apps/cli.py, apps/setup). *)
(*                                                                         *)
(* What they share are files and processes: .env, the Neo4j container and  *)
(* its volume, one pid file per detached server, and the settings of an    *)
(* agent.  Users may run several commands at once, interrupt them, remove  *)
(* the container or stop docker; servers are slow, crash, and leave their  *)
(* pid to any process that comes later.                                    *)
(***************************************************************************)
EXTENDS Naturals, Sequences, TLC, SequencesExt

CONSTANTS
    Commands,       \* the commands run on the machine, in any order
    Pids,           \* process ids
    Others,         \* hooks of the user and of other tools
    NoPid, None

ASSUME SetupAssumption == NoPid \notin Pids /\ None \notin Commands

VARIABLES
    env,            \* .env, as far as these commands change it
    cli,            \* the `ok` command is installed
    trouble,        \* bound: what goes wrong on this machine
    docker,         \* the docker daemon answers
    container,      \* the container aftermind-neo4j
    volume,         \* the password its volume was initialised with
    proc,           \* the processes
    pidfile,        \* .aftermind/<service>.pid
    hooks,          \* the entries of an agent's settings, each a set of hooks
    backups,        \* the backups of those settings
    cmd,            \* the commands
    overlap,        \* history: two of them have been at work at the same time
    removed,        \* history: the container has been removed
    excused,        \* history: the servers whose `up` was interrupted or left them before they were up
    stale,          \* history: the pid files whose process ended other than by their own `down`
    settled         \* history: since an `up` that went well there was nothing but `up`

machine == <<env, container, volume, proc, pidfile>>
agent == <<hooks, backups>>
history == <<overlap, removed, excused, stale, settled>>
vars == <<machine, agent, cli, trouble, docker, cmd, history>>

Troubles == {"docker", "servers", "interrupts", "overlaps", "agent"}

Services == {"openknowledge", "api"}

\* A generated password has the name of the command that generates it.
Env == [password : Commands \cup {None}, url : BOOLEAN, llm : BOOLEAN]

Blank == [password |-> None, url |-> FALSE, llm |-> FALSE]

Idle(k) == [kind |-> k, at |-> "idle", next |-> "end", env |-> Blank, lines |-> <<>>, service |-> "api",
            pid |-> NoPid, graph |-> "none", late |-> FALSE, hooks |-> {}]

Kinds == {"up", "deps", "foreground", "init", "down", "connect"}

Stages == {"idle", "read", "load", "save", "write", "inspect", "create", "start", "bolt", "openknowledge",
           "api", "spawn", "record", "wait", "llm", "serve", "serving", "check", "kill", "unlink", "graph",
           "hooks", "merge", "end", "done", "failed"}

\* A command: the copy of .env it works with, what it changes in the file and then the
\* file as it will be saved, where it goes on after that, and the service it is about.
Command == [kind : Kinds, at : Stages, next : Stages, env : Env,
            lines : UNION {[K -> Commands \cup {None} \cup BOOLEAN] : K \in SUBSET DOMAIN Blank},
            service : Services, pid : Pids \cup {NoPid}, graph : {"none", "other", "memory", "docker", "late"},
            late : BOOLEAN, hooks : SUBSET SUBSET (Others \cup {"ours"})]

Process == [what : Services \cup {"free", "foreign"}, at : {"booting", "listening", "dying"}]
Free == [what |-> "free", at |-> "dying"]

Init ==
    /\ env = Blank
    /\ cli \in BOOLEAN /\ trouble \in SUBSET Troubles /\ docker = TRUE
    /\ container = [at |-> "none", password |-> None] /\ volume = None
    /\ proc = [p \in Pids |-> Free]
    /\ pidfile = [s \in Services |-> NoPid]
    /\ hooks \in {{}} \cup {{{h, "ours"}} : h \in Others} /\ backups = <<>>
    /\ cmd \in [Commands -> {Idle(k) : k \in Kinds}]
    /\ overlap = FALSE /\ removed = FALSE /\ excused = {} /\ stale = {} /\ settled = FALSE

Becomes(c, next) == cmd' = [cmd EXCEPT ![c] = next]
Goes(c, stage) == cmd' = [cmd EXCEPT ![c].at = stage]
\* A command that is over leaves nothing but what it did.
Over(c, how) == Becomes(c, [Idle(cmd[c].kind) EXCEPT !.at = how])
Active(c) == cmd[c].at \notin {"idle", "done", "failed"}

\* Some values changed, the others as they were.
Updated(values, updates) ==
    [k \in DOMAIN values \cup DOMAIN updates |-> IF k \in DOMAIN updates THEN updates[k] ELSE values[k]]

\* The command goes on with the changed values, and the file is to follow.
Changes(c, updates, next) ==
    Becomes(c, [cmd[c] EXCEPT !.env = Updated(@, updates), !.lines = updates, !.at = "load", !.next = next])

Start(c) ==
    /\ cmd[c].at = "idle"
    /\ "overlaps" \in trouble \/ \A d \in Commands : ~Active(d)
    /\ Goes(c, CASE cmd[c].kind = "down" -> "check" [] cmd[c].kind = "connect" -> "hooks" [] OTHER -> "read")
    /\ overlap' = (overlap \/ \E d \in Commands : Active(d))
    /\ settled' = (settled /\ cmd[c].kind \in {"up", "deps"})
    /\ UNCHANGED <<machine, agent, cli, trouble, docker, removed, excused, stale>>

-----------------------------------------------------------------------------
\* .env

\* ensure_env.
Read(c) ==
    /\ cmd[c].at = "read"
    /\ LET missing == (IF env.password = None THEN {"password"} ELSE {})
                          \cup (IF cli /\ ~env.url THEN {"url"} ELSE {})
           updates == [k \in missing |-> IF k = "password" THEN c ELSE TRUE]
           next == IF cmd[c].kind = "init" THEN "llm" ELSE "inspect"
       IN  Becomes(c, [cmd[c] EXCEPT !.env = Updated(env, updates), !.lines = updates, !.next = next,
                                     !.at = IF missing = {} THEN next ELSE "load"])
    /\ UNCHANGED <<machine, agent, cli, trouble, docker, history>>

\* write_env_values reads the file ...
Load(c) ==
    /\ cmd[c].at = "load"
    /\ Becomes(c, [cmd[c] EXCEPT !.lines = Updated(env, @), !.at = "save"])
    /\ UNCHANGED <<machine, agent, cli, trouble, docker, history>>

\* ... empties it ...
Truncate(c) ==
    /\ cmd[c].at = "save"
    /\ env' = Blank
    /\ Goes(c, "write")
    /\ UNCHANGED <<container, volume, proc, pidfile, agent, cli, trouble, docker, history>>

\* ... and writes it anew.
Write(c) ==
    /\ cmd[c].at = "write"
    /\ env' = cmd[c].lines
    /\ Becomes(c, [cmd[c] EXCEPT !.lines = <<>>, !.at = cmd[c].next])
    /\ UNCHANGED <<container, volume, proc, pidfile, agent, cli, trouble, docker, history>>

AfterLLM(c) == IF cmd[c].kind = "foreground" THEN "serve" ELSE "end"

\* llm_setup.run: `init` always gets here, `up` when no model is configured and there is a
\* terminal to ask at.  The user may skip; a failed test ends it, unless saved anyway.
ChooseLLM(c) ==
    /\ cmd[c].at = "llm"
    /\ cmd[c].kind = "init" \/ ~cmd[c].env.llm
    /\ Changes(c, [llm |-> TRUE], AfterLLM(c))
    /\ UNCHANGED <<machine, agent, cli, trouble, docker, history>>

SkipLLM(c) ==
    /\ cmd[c].at = "llm"
    /\ Goes(c, AfterLLM(c))
    /\ UNCHANGED <<machine, agent, cli, trouble, docker, history>>

-----------------------------------------------------------------------------
\* Neo4j

BoltOpen == docker /\ container.at = "running"

\* Slip: the password is put right for this command only.
SyncedInMemory(c, next) ==
    Becomes(c, [cmd[c] EXCEPT !.env.password = container.password, !.at = next])

\* The container, not .env, knows the password.
Synced(c, next) ==
    IF cmd[c].env.password = container.password
    THEN Goes(c, next)
    ELSE Changes(c, [password |-> container.password], next)

\* ensure_neo4j up to the docker command it gives.  Without docker somebody else's Neo4j
\* will do, or else memory.
Inspect(c) ==
    /\ cmd[c].at = "inspect"
    /\ \/ /\ ~docker
          /\ Becomes(c, [cmd[c] EXCEPT !.graph = "other", !.at = "openknowledge"])
       \/ /\ ~docker
          /\ Becomes(c, [cmd[c] EXCEPT !.graph = "memory", !.env.password = None,
                            !.lines = [password |-> None], !.at = "load", !.next = "openknowledge"])
       \/ docker /\ container.at = "none" /\ Goes(c, "create")
       \/ docker /\ container.at = "exited" /\ Synced(c, "start")
       \/ docker /\ container.at = "running" /\ Synced(c, "bolt")
    /\ UNCHANGED <<machine, agent, cli, trouble, docker, history>>

\* docker run, which fails when there is a container by now.  A new volume takes the
\* password, an old one keeps its own.
Create(c) ==
    /\ cmd[c].at = "create"
    /\ IF docker /\ container.at = "none"
       THEN /\ container' = [at |-> "running", password |-> cmd[c].env.password]
            /\ volume' = IF volume = None THEN cmd[c].env.password ELSE volume
            /\ Goes(c, "bolt")
       ELSE Over(c, "failed") /\ UNCHANGED <<container, volume>>
    /\ UNCHANGED <<env, proc, pidfile, agent, cli, trouble, docker, history>>

\* docker start
StartContainer(c) ==
    /\ cmd[c].at = "start"
    /\ IF docker /\ container.at # "none"
       THEN container' = [container EXCEPT !.at = "running"] /\ Goes(c, "bolt")
       ELSE Over(c, "failed") /\ UNCHANGED container
    /\ UNCHANGED <<env, volume, proc, pidfile, agent, cli, trouble, docker, history>>

\* The wait for the port, which a database still starting may outlast.
Bolt(c) ==
    /\ cmd[c].at = "bolt"
    /\ \/ BoltOpen /\ Becomes(c, [cmd[c] EXCEPT !.graph = "docker", !.at = "openknowledge"])
       \/ /\ "docker" \in trouble \/ ~BoltOpen
          /\ Becomes(c, [cmd[c] EXCEPT !.graph = "late", !.late = TRUE, !.at = "openknowledge"])
    /\ UNCHANGED <<machine, agent, cli, trouble, docker, history>>

-----------------------------------------------------------------------------
\* The servers: OpenKnowledge and the API

Runs(s, p) == proc[p].what = s
Alive(p) == p # NoPid /\ ~Runs("free", p)

\* A server still shutting down holds its port.
PortOpen(s) ==
    \/ \E p \in Pids : Runs(s, p) /\ proc[p].at # "booting"
    \/ s = "api" /\ \E c \in Commands : cmd[c].at = "serving"

\* ensure_openknowledge up to the start of the server.
LookForOpenKnowledge(c) ==
    /\ cmd[c].at = "openknowledge"
    /\ LET after == IF cmd[c].kind = "up" THEN "api" ELSE "llm"
       IN  IF ~cmd[c].env.url \/ PortOpen("openknowledge")
           THEN Goes(c, after)
           ELSE IF cli
           THEN Becomes(c, [cmd[c] EXCEPT !.service = "openknowledge", !.at = "spawn", !.next = after])
           ELSE Changes(c, [url |-> FALSE], after)
    /\ UNCHANGED <<machine, agent, cli, trouble, docker, history>>

\* Slip: nobody looks whether there is a server already.
LookForNothing(c) ==
    /\ cmd[c].at = "api"
    /\ Becomes(c, [cmd[c] EXCEPT !.service = "api", !.at = "spawn", !.next = "llm"])
    /\ UNCHANGED <<machine, agent, cli, trouble, docker, history>>

\* start_server_detached up to the start of the server.
LookForApi(c) ==
    /\ cmd[c].at = "api"
    /\ IF PortOpen("api")
       THEN Goes(c, "llm")
       ELSE Becomes(c, [cmd[c] EXCEPT !.service = "api", !.at = "spawn", !.next = "llm"])
    /\ UNCHANGED <<machine, agent, cli, trouble, docker, history>>

\* _spawn_detached: the process ...
Spawn(c) ==
    /\ cmd[c].at = "spawn"
    /\ \E p \in Pids :
        /\ ~Alive(p)
        /\ proc' = [proc EXCEPT ![p] = [what |-> cmd[c].service, at |-> "booting"]]
        /\ Becomes(c, [cmd[c] EXCEPT !.pid = p, !.at = "record"])
    /\ UNCHANGED <<env, container, volume, pidfile, agent, cli, trouble, docker, history>>

\* ... and its pid file.
Record(c) ==
    /\ cmd[c].at = "record"
    /\ LET s == cmd[c].service
       IN  /\ pidfile' = [pidfile EXCEPT ![s] = cmd[c].pid]
           /\ stale' = IF Runs(s, cmd[c].pid) THEN stale \ {s} ELSE stale \cup {s}
    /\ Goes(c, "wait")
    /\ UNCHANGED <<env, container, volume, proc, agent, cli, trouble, docker, overlap, removed, excused, settled>>

\* The wait for its port: somebody opens it, or the `up` goes on without.
Wait(c) ==
    /\ cmd[c].at = "wait"
    /\ LET q == cmd[c]
           gone == ~Runs(q.service, q.pid)
       IN  /\ PortOpen(q.service) \/ gone \/ "servers" \in trouble
           /\ Becomes(c, [q EXCEPT !.at = q.next, !.pid = NoPid, !.late = @ \/ ~PortOpen(q.service)])
           /\ excused' = IF ~gone /\ proc[q.pid].at = "booting" THEN excused \cup {q.pid} ELSE excused
    /\ UNCHANGED <<machine, agent, cli, trouble, docker, overlap, removed, stale, settled>>

\* `up --foreground` becomes the server, if the port is free.
Serve(c) ==
    /\ cmd[c].at = "serve"
    /\ IF PortOpen("api") THEN Over(c, "failed") ELSE Goes(c, "serving")
    /\ UNCHANGED <<machine, agent, cli, trouble, docker, history>>

-----------------------------------------------------------------------------
\* `aftermind down`: the API, OpenKnowledge, the graph.

\* _read_pid, _pid_alive.
Check(c) ==
    /\ cmd[c].at = "check"
    /\ LET p == pidfile[cmd[c].service]
       IN  IF Alive(p) THEN Becomes(c, [cmd[c] EXCEPT !.pid = p, !.at = "kill"]) ELSE Goes(c, "unlink")
    /\ UNCHANGED <<machine, agent, cli, trouble, docker, history>>

\* killpg.  It fails, and `down` with it, when the process has ended meanwhile or is not one's
\* own group.
Kill(c) ==
    /\ cmd[c].at = "kill"
    /\ LET s == cmd[c].service
           p == cmd[c].pid
       IN  \/ /\ Alive(p)
             /\ proc' = [proc EXCEPT ![p].at = "dying"]
             /\ stale' = stale \cup {t \in Services \ {s} : pidfile[t] = p}
             /\ Becomes(c, [cmd[c] EXCEPT !.pid = NoPid, !.at = "unlink"])
          \/ /\ ~Alive(p) \/ Runs("foreign", p)
             /\ Over(c, "failed")
             /\ UNCHANGED <<proc, stale>>
    /\ UNCHANGED <<env, container, volume, pidfile, agent, cli, trouble, docker, overlap, removed, excused, settled>>

\* Slip: the pid file stays.
UnlinkNothing(c) ==
    /\ cmd[c].at = "unlink"
    /\ Becomes(c, IF cmd[c].service = "api"
                  THEN [cmd[c] EXCEPT !.service = "openknowledge", !.at = "check"]
                  ELSE [cmd[c] EXCEPT !.at = "graph"])
    /\ UNCHANGED <<machine, agent, cli, trouble, docker, history>>

\* The server may take its time to end.
Unlink(c) ==
    /\ cmd[c].at = "unlink"
    /\ pidfile' = [pidfile EXCEPT ![cmd[c].service] = NoPid]
    /\ stale' = stale \ {cmd[c].service}
    /\ Becomes(c, IF cmd[c].service = "api"
                  THEN [cmd[c] EXCEPT !.service = "openknowledge", !.at = "check"]
                  ELSE [cmd[c] EXCEPT !.at = "graph"])
    /\ UNCHANGED <<env, container, volume, proc, agent, cli, trouble, docker, overlap, removed, excused, settled>>

\* stop_neo4j, which --keep-neo4j leaves out.
StopGraph(c) ==
    /\ cmd[c].at = "graph"
    /\ Goes(c, "end")
    /\ container' \in {container, IF BoltOpen THEN [container EXCEPT !.at = "exited"] ELSE container}
    /\ UNCHANGED <<env, volume, proc, pidfile, agent, cli, trouble, docker, history>>

-----------------------------------------------------------------------------
\* `aftermind connect`

\* Slip: settings that have our hooks already are not backed up again.
ReadHooksBackupOnce(c) ==
    /\ cmd[c].at = "hooks"
    /\ Becomes(c, [cmd[c] EXCEPT !.hooks = hooks, !.at = "merge"])
    /\ backups' = IF "ours" \in UNION hooks THEN backups ELSE Append(backups, hooks)
    /\ UNCHANGED <<machine, hooks, cli, trouble, docker, history>>

\* The settings are read and backed up.  A backup is named by the second: one of the same
\* second is overwritten.
ReadHooks(c) ==
    /\ cmd[c].at = "hooks"
    /\ Becomes(c, [cmd[c] EXCEPT !.hooks = hooks, !.at = "merge"])
    /\ \/ backups' = Append(backups, hooks)
       \/ backups # <<>> /\ backups' = Append(Front(backups), hooks)
    /\ UNCHANGED <<machine, hooks, cli, trouble, docker, history>>

\* merge_hooks: our entry is added; an entry with a hook of ours is replaced whole.  The
\* order of the entries is left out.
Merged(entries) == {e \in entries : "ours" \notin e} \cup {{"ours"}}

WriteHooks(c) ==
    /\ cmd[c].at = "merge"
    /\ hooks' = Merged(cmd[c].hooks)
    /\ Goes(c, "end")
    /\ UNCHANGED <<machine, backups, cli, trouble, docker, history>>

\* The agent adds a hook on its own account; meanwhile no `connect` must be at work.
AgentWrites(h) ==
    /\ "agent" \in trouble
    /\ h \notin UNION hooks
    /\ hooks' = hooks \cup {{h}}
    /\ overlap' = (overlap \/ \E c \in Commands : cmd[c].at = "merge")
    /\ settled' = FALSE
    /\ UNCHANGED <<machine, backups, cli, trouble, docker, cmd, removed, excused, stale>>

-----------------------------------------------------------------------------
\* An `up` that nothing overlapped has started everything there is to start.
WentWell(c) ==
    /\ cmd[c].kind = "up" /\ ~cmd[c].late /\ cmd[c].graph = "docker" /\ ~overlap
    /\ BoltOpen /\ PortOpen("api") /\ (cli => PortOpen("openknowledge"))
    /\ \A p \in Pids : proc[p].at # "booting"

Finish(c) ==
    /\ cmd[c].at = "end"
    /\ Over(c, "done")
    /\ settled' = (settled \/ WentWell(c))
    /\ UNCHANGED <<machine, agent, cli, trouble, docker, overlap, removed, excused, stale>>

\* Ctrl-C, at any moment.
Interrupt(c) ==
    /\ "interrupts" \in trouble /\ Active(c)
    /\ Over(c, "failed")
    /\ excused' = IF cmd[c].at \in {"record", "wait"} /\ Runs(cmd[c].service, cmd[c].pid)
                  THEN excused \cup {cmd[c].pid} ELSE excused
    /\ stale' = IF cmd[c].at = "unlink" THEN stale \cup {cmd[c].service} ELSE stale
    /\ settled' = FALSE
    /\ UNCHANGED <<machine, agent, cli, trouble, docker, overlap, removed>>

Ended(p) ==
    /\ proc' = [proc EXCEPT ![p] = Free]
    /\ excused' = excused \ {p}
    /\ settled' = FALSE

\* A server opens its port, or ends because the port is taken.
Boot(p) ==
    /\ proc[p].at = "booting"
    /\ IF PortOpen(proc[p].what)
       THEN Ended(p) /\ stale' = stale \cup {s \in Services : pidfile[s] = p}
       ELSE proc' = [proc EXCEPT ![p].at = "listening"] /\ UNCHANGED <<excused, stale, settled>>
    /\ UNCHANGED <<env, container, volume, pidfile, agent, cli, trouble, docker, cmd, overlap, removed>>

\* A process ends, told to or not.
Exit(p) ==
    /\ Alive(p) /\ ("servers" \in trouble \/ proc[p].at = "dying")
    /\ Ended(p)
    /\ stale' = IF proc[p].at = "dying" THEN stale ELSE stale \cup {s \in Services : pidfile[s] = p}
    /\ UNCHANGED <<env, container, volume, pidfile, agent, cli, trouble, docker, cmd, overlap, removed>>

\* A pid somebody may still look for goes to a process that has nothing to do with Aftermind.
Reuse(p) ==
    /\ ~Alive(p) /\ p \in Range(pidfile) \cup {cmd[c].pid : c \in Commands}
    /\ proc' = [proc EXCEPT ![p] = [what |-> "foreign", at |-> "listening"]]
    /\ UNCHANGED <<env, container, volume, pidfile, agent, cli, trouble, docker, cmd, history>>

\* docker stops answering, and its containers with it; later they are restarted.
Docker ==
    /\ "docker" \in trouble
    /\ docker' = ~docker
    /\ settled' = FALSE
    /\ UNCHANGED <<machine, agent, cli, trouble, cmd, overlap, removed, excused, stale>>

\* docker rm -f; the volume stays.
RemoveContainer ==
    /\ "docker" \in trouble /\ docker /\ container.at # "none"
    /\ container' = [at |-> "none", password |-> None]
    /\ removed' = TRUE /\ settled' = FALSE
    /\ UNCHANGED <<env, volume, proc, pidfile, agent, cli, trouble, docker, cmd, overlap, excused, stale>>

Next ==
    \/ \E c \in Commands :
        \/ Start(c) \/ Read(c) \/ Load(c) \/ Truncate(c) \/ Write(c) \/ ChooseLLM(c) \/ SkipLLM(c)
        \/ Inspect(c) \/ Create(c) \/ StartContainer(c) \/ Bolt(c)
        \/ LookForOpenKnowledge(c) \/ LookForApi(c) \/ Spawn(c) \/ Record(c) \/ Wait(c) \/ Serve(c)
        \/ Check(c) \/ Kill(c) \/ Unlink(c) \/ StopGraph(c)
        \/ ReadHooks(c) \/ WriteHooks(c)
        \/ Finish(c) \/ Interrupt(c)
    \/ \E p \in Pids : Boot(p) \/ Exit(p) \/ Reuse(p)
    \/ \E h \in Others : AgentWrites(h)
    \/ Docker \/ RemoveContainer

Spec == Init /\ [][Next]_vars

-----------------------------------------------------------------------------
Servers == {p \in Pids : proc[p].what \in Services}

\* A server that `up` started is named by its pid file, so that `down` finds it, unless
\* commands overlapped or its `up` was interrupted or left it before it opened its port.
ServersAreFound ==
    \A p \in Servers : proc[p].at # "dying" =>
        \/ overlap \/ p \in excused
        \/ pidfile[proc[p].what] = p
        \/ \E c \in Commands : cmd[c].at = "record" /\ cmd[c].pid = p

\* `down` signals a process it did not start only when the server whose pid it has ended
\* on its own, a `down` was interrupted half way, or commands overlapped.
OnlyServersAreSignalled ==
    [][\A c \in Commands : cmd[c].at = "kill" /\ cmd'[c].at = "unlink" =>
        LET s == cmd[c].service
        IN  Runs(s, cmd[c].pid) \/ s \in stale \/ overlap]_vars

\* What .env says, or will say again once the command that has emptied it has written it.
EnvSays(k) ==
    LET writing == {c \in Commands : cmd[c].at = "write"}
    IN  IF writing = {} THEN env[k] ELSE cmd[CHOOSE c \in writing : TRUE].lines[k]

\* Once an `up` has found or made the database it leaves one password: its own, that of
\* .env, of the container and of the volume, whatever earlier commands did to .env while
\* docker was away, or left of it when they were interrupted while writing it; unless the
\* container was removed or commands overlapped.
PasswordsAgree ==
    \A c \in Commands : cmd[c].graph = "docker" =>
        \/ overlap \/ removed
        \/ \A password \in {cmd[c].env.password, container.password, volume} : EnvSays("password") = password

\* After an `up` that went well, as long as there is nothing but further `up`s, even
\* several at once that find .env empty while another writes it, nothing is started,
\* recorded or created again; and one after the other they leave .env as it was.
UpTwiceIsOnce ==
    [][settled /\ settled' =>
        /\ UNCHANGED <<container, volume, Servers, pidfile>>
        /\ overlap' \/ UNCHANGED <<EnvSays("password"), EnvSays("url")>>]_vars

\* A `connect` leaves the entries of others in the settings as they are; a hook it takes out
\* of an entry that has ours too is in a backup by then; unless somebody wrote in between.
OthersAreKept ==
    [][\A e \in hooks : overlap' \/
        IF "ours" \in e THEN e \subseteq UNION (hooks' \cup UNION Range(backups')) ELSE e \in hooks']_vars
=============================================================================
