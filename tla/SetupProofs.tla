----------------------------- MODULE SetupProofs -----------------------------
(***************************************************************************)
(* Setup: what its runs check on one machine with few commands, for any    *)
(* number of commands, processes and hooks.                                *)
(*                                                                         *)
(* The invariant has five parts.  Known: at each stage a command has what  *)
(* it needs there, and unless commands overlap only one is at work, so     *)
(* that what it saw still holds.  BackedUp: the settings a `connect` is    *)
(* about to overwrite are in a backup.  Database: container, volume and    *)
(* .env agree, or the command at work will write what is missing.  Named:  *)
(* each server has its pid file or a command that is about to write it,    *)
(* and each pid file its server.  Quiet: once an `up` went well, another   *)
(* is only at stages that find everything there, and the file it rewrites  *)
(* says what it said, unless they overlap.                                 *)
(*                                                                         *)
(* Most steps move one command.  The lemmas ...Moves say, part by part,    *)
(* what such a step owes the invariant, and then that each action pays it. *)
(***************************************************************************)
EXTENDS Setup, TLAPS

Fields == {"kind", "at", "next", "env", "lines", "service", "pid", "graph", "late", "hooks"}
Names == {"password", "url", "llm"}

\* The stages of a command that has read .env and works with it.
Working == {"load", "save", "write", "inspect", "create", "start", "bolt", "openknowledge", "api",
            "spawn", "record", "wait", "llm", "serve", "serving"}

\* At one of these stages, or on the way there once .env is saved.
Heads(q, stages) == q.at \in stages \/ (q.at \in {"load", "save", "write"} /\ q.next \in stages)

\* What .env says once a command has saved what it has to.
Outcome(q, k) ==
    IF (q.at = "load" /\ k \in DOMAIN q.lines) \/ q.at \in {"save", "write"} THEN q.lines[k] ELSE env[k]

-----------------------------------------------------------------------------
\* What a command is.
CommandKnown(q) ==
    /\ DOMAIN q = Fields /\ DOMAIN q.env = Names
    /\ q.at = "load" => DOMAIN q.lines \subseteq Names
    /\ q.at \in {"save", "write"} => DOMAIN q.lines = Names
    /\ q.at \in {"load", "save", "write"} =>
        q.next \in {"inspect", "start", "bolt", "openknowledge", "api", "llm", "serve", "end"}
    /\ q.at \in {"spawn", "record", "wait"} => q.next \in {"api", "llm"}
    /\ q.at \in {"record", "wait", "kill"} => q.pid \in Pids
    /\ q.service \in Services
    /\ q.graph # "none" =>
        q.at \in Working \cup {"end"} /\ ~Heads(q, {"inspect", "create", "start", "bolt"})

Known ==
    /\ DOMAIN cmd = Commands /\ DOMAIN env = Names
    /\ cli \in BOOLEAN
    /\ proc \in [Pids -> Process] /\ pidfile \in [Services -> Pids \cup {NoPid}]
    /\ \A p \in Pids : proc[p].at = "booting" => proc[p].what \in Services
    /\ \A c \in Commands : CommandKnown(cmd[c])
    /\ overlap \/ \A c, d \in Commands : Active(c) /\ Active(d) => c = d

\* The settings that are going to be overwritten are those that were read, and in a backup.
Settings == SUBSET SUBSET (Others \cup {"ours"})

BackedUp ==
    /\ hooks \in Settings /\ backups \in Seq(Settings)
    /\ \A c \in Commands : cmd[c].at = "merge" =>
        cmd[c].hooks \in Settings /\ (overlap \/ (hooks = cmd[c].hooks /\ hooks \in Range(backups)))

-----------------------------------------------------------------------------
\* .env names OpenKnowledge only when there is one to start.
UrlKnown(q) ==
    /\ q.at \in {"load", "save", "write"} /\ "url" \in DOMAIN q.lines => q.lines.url \in BOOLEAN /\ (q.lines.url => cli)
    /\ q.at \in Working \/ q.graph # "none" => q.env.url = cli

\* The passwords a command deals with, when no other is at work ...
Agreed(q) ==
    /\ q.at \in Working \/ q.graph # "none" =>
        Outcome(q, "password") = q.env.password /\ Outcome(q, "url") = q.env.url
    /\ Heads(q, {"start", "bolt"}) \/ q.graph = "docker" =>
        container.at = "none" \/ container.password = q.env.password
    /\ q.graph = "docker" /\ q.at # "write" =>
        env.password = q.env.password /\ (q.at = "load" => "password" \notin DOMAIN q.lines)

\* ... and the container, whoever is.
Database ==
    /\ DOMAIN container = {"at", "password"}
    /\ container.password = None <=> container.at = "none"
    /\ removed \/ volume = container.password
    /\ env.url \in BOOLEAN /\ (env.url => cli)
    /\ \A c \in Commands :
        /\ UrlKnown(cmd[c])
        /\ Heads(cmd[c], {"inspect", "create"}) => cmd[c].env.password # None
        /\ cmd[c].graph = "docker" => removed \/ container.at # "none"
        /\ overlap \/ Agreed(cmd[c])

-----------------------------------------------------------------------------
\* A server that works: it has not been told to end.
Serves(s, p) == Runs(s, p) /\ proc[p].at # "dying"

\* A pid file is right, or it is known why not.
Right(s) ==
    pidfile[s] # NoPid =>
        \/ Serves(s, pidfile[s]) \/ s \in stale \/ overlap
        \/ \E c \in Commands : cmd[c].at = "unlink" /\ cmd[c].service = s

\* Somebody waits for a server that starts.
Awaited(p) ==
    proc[p].at = "booting" =>
        \/ p \in excused \/ overlap
        \/ \E c \in Commands : cmd[c].at \in {"record", "wait"} /\ cmd[c].pid = p

\* What a command finds while it starts or stops a server, when no other is at work: it
\* starts the only server of the kind, and it forgets none that works.
Alone(q) ==
    /\ q.at \in {"record", "wait"} => \A s \in Services : Runs(s, q.pid) => s = q.service /\ Serves(s, q.pid)
    /\ q.at \in {"spawn", "record"} =>
        \A p \in Pids : Serves(q.service, p) => p \in excused \/ (q.at = "record" /\ p = q.pid)
    /\ q.at = "kill" => pidfile[q.service] = q.pid
    /\ q.at = "unlink" => \A p \in Pids : pidfile[q.service] = p => ~Serves(q.service, p)

Named ==
    /\ ServersAreFound
    /\ \A s \in Services : Right(s)
    /\ \A p \in Pids : Awaited(p)
    /\ \A c \in Commands : overlap \/ Alone(cmd[c])

-----------------------------------------------------------------------------
\* What there is when there is nothing to do, commands and .env apart.
Up == /\ docker /\ container.at = "running"
      /\ \A p \in Pids : proc[p].at # "booting"
      /\ \E p \in Pids : Runs("api", p)
      /\ cli => \E p \in Pids : Runs("openknowledge", p)

\* Where an `up` can be that has nothing left to do ...
NothingToDo(q) ==
    /\ q.kind \in {"up", "deps"}
    /\ q.at \in {"read", "load", "save", "write", "inspect", "bolt", "openknowledge", "api", "llm", "end"}
    /\ q.at \in {"load", "save", "write"} => q.next \in {"inspect", "bolt", "end"}

\* ... and what .env says, and each command knows from it, when no other is at work.
EnvRight == env.password = container.password /\ env.url = cli
InStep(q) == q.at \notin {"idle", "read", "done", "failed"} => q.env.password = container.password

EnvKept ==
    /\ \A c \in Commands : InStep(cmd[c])
    /\ EnvRight \/ \E c \in Commands : cmd[c].at = "write"

Quiet ==
    settled =>
        /\ Up
        /\ \A c \in Commands : Active(c) => NothingToDo(cmd[c])
        /\ overlap \/ EnvKept

SetupInv == Known /\ BackedUp /\ Database /\ Named /\ Quiet

-----------------------------------------------------------------------------
LEMMA OneMoves ==
  ASSUME Known, NEW c \in Commands, NEW next, Becomes(c, next)
  PROVE  DOMAIN cmd' = Commands /\ \A d \in Commands : cmd'[d] = IF d = c THEN next ELSE cmd[d]
  BY DEF Known, Becomes

\* Unless commands overlap, the others are not at work.
LEMMA OthersRest ==
  ASSUME Known, NEW c \in Commands, Active(c)
  PROVE  overlap \/ \A d \in Commands : Active(d) => d = c
  BY DEF Known

\* A command that is not at work has nothing to answer for.
LEMMA RestIsSafe ==
  ASSUME NEW q, CommandKnown(q), q.at \in {"idle", "done", "failed"}
  PROVE  /\ q.graph = "none" /\ \A stages : ~Heads(q, stages) \/ q.at \in stages
         /\ q.at \notin Working /\ Agreed(q)' /\ Alone(q)'
  BY DEF CommandKnown, Heads, Working, Agreed, Alone

LEMMA KnownMoves ==
  ASSUME Known, NEW c \in Commands, NEW next, Becomes(c, next), cli' = cli, overlap => overlap',
         overlap' \/ \A d \in Commands : Active(d) => d = c, CommandKnown(next), DOMAIN env' = Names,
         proc' \in [Pids -> Process], pidfile' \in [Services -> Pids \cup {NoPid}],
         \A p \in Pids : proc'[p].at = "booting" => proc'[p].what \in Services
  PROVE  Known'
  <1>1. DOMAIN cmd' = Commands /\ \A d \in Commands : cmd'[d] = IF d = c THEN next ELSE cmd[d]
    BY OneMoves
  <1>2. \A d \in Commands : CommandKnown(cmd'[d])
    BY <1>1 DEF Known
  <1>3. overlap' \/ \A d, e \in Commands : Active(d)' /\ Active(e)' => d = e
    BY <1>1 DEF Active
  <1> QED
    BY <1>1, <1>2, <1>3 DEF Known

LEMMA BackedUpMoves ==
  ASSUME Known, BackedUp, NEW c \in Commands, NEW next, Becomes(c, next), overlap => overlap',
         UNCHANGED agent, next.at # "merge"
  PROVE  BackedUp'
  BY OneMoves DEF BackedUp, agent

\* The database part of what a command that goes on has to tell.
Tells(q) ==
    /\ UrlKnown(q)
    /\ Heads(q, {"inspect", "create"}) => q.env.password # None
    /\ q.graph = "docker" => removed \/ container.at # "none"
    /\ overlap \/ Agreed(q)

LEMMA DatabaseMoves ==
  ASSUME Known, Database, NEW c \in Commands, NEW next, Becomes(c, next), cli' = cli, overlap => overlap',
         overlap' \/ \A d \in Commands : Active(d) => d = c,
         DOMAIN container' = {"at", "password"},
         container'.password = None <=> container'.at = "none",
         removed' \/ volume' = container'.password,
         env'.url \in BOOLEAN /\ (env'.url => cli),
         removed \/ container.at # "none" => removed' \/ container'.at # "none",
         Tells(next)'
  PROVE  Database'
  <1>1. \A d \in Commands : cmd'[d] = IF d = c THEN next ELSE cmd[d]
    BY OneMoves
  <1>2. ASSUME NEW d \in Commands, d # c
        PROVE  \E q : q = cmd[d] /\ Tells(q)'
    <2>1. PICK q : q = cmd[d]
      OBVIOUS
    <2>2. /\ CommandKnown(q) /\ UrlKnown(q)
          /\ Heads(q, {"inspect", "create"}) => q.env.password # None
          /\ q.graph = "docker" => removed \/ container.at # "none"
      BY <2>1 DEF Known, Database
    <2>3. UrlKnown(q)'
      BY <2>2 DEF UrlKnown
    <2>4. overlap' \/ Agreed(q)'
      BY <1>2, <2>1, <2>2, RestIsSafe DEF Active
    <2> QED
      BY <2>1, <2>2, <2>3, <2>4 DEF Tells, Heads
  <1>3. ASSUME NEW d \in Commands
        PROVE  Tells(cmd[d])'
    <2>1. PICK q : q = cmd'[d] /\ Tells(q)'
      BY <1>1, <1>2
    <2> QED
      BY <2>1
  <1> QED
    BY <1>3 DEF Database, Tells

\* Processes and pid files as they were: whoever goes on without them.
LEMMA NamedMoves ==
  ASSUME Known, Named, NEW c \in Commands, NEW next, Becomes(c, next), overlap => overlap',
         overlap' \/ \A d \in Commands : Active(d) => d = c,
         UNCHANGED <<proc, pidfile, excused, stale>>,
         cmd[c].at \notin {"record", "wait", "unlink"}, next.at \notin {"record", "wait", "unlink"},
         next.at \in {"spawn", "kill"} => overlap \/ Alone(next)
  PROVE  Named'
  <1>1. \A d \in Commands : cmd'[d] = IF d = c THEN next ELSE cmd[d]
    BY OneMoves
  <1>2. ServersAreFound'
    <2> SUFFICES ASSUME NEW p \in Pids, proc[p].what \in Services, proc[p].at # "dying", ~overlap',
                        p \notin excused, pidfile[proc[p].what] # p
                 PROVE  \E d \in Commands : cmd'[d].at = "record" /\ cmd'[d].pid = p
      BY DEF ServersAreFound, Servers
    <2>1. PICK d \in Commands : cmd[d].at = "record" /\ cmd[d].pid = p
      BY DEF Named, ServersAreFound, Servers
    <2> QED
      BY <1>1, <2>1
  <1>3. ASSUME NEW s \in Services
        PROVE  Right(s)'
    BY <1>1 DEF Named, Right, Serves, Runs
  <1>4. ASSUME NEW p \in Pids
        PROVE  Awaited(p)'
    BY <1>1 DEF Named, Awaited
  <1>5. ASSUME NEW d \in Commands
        PROVE  (overlap \/ Alone(cmd[d]))'
    <2>1. CASE d # c
      <3>1. cmd'[d] = cmd[d]
        BY <1>1, <2>1
      <3> QED
        BY <3>1 DEF Named, Alone, Serves, Runs
    <2>2. CASE d = c
      <3>1. cmd'[d] = next
        BY <1>1, <2>2
      <3> QED
        BY <3>1 DEF Alone, Serves, Runs
    <2> QED
      BY <2>1, <2>2
  <1> QED
    BY <1>2, <1>3, <1>4, <1>5 DEF Named

LEMMA QuietMoves ==
  ASSUME Known, Quiet, NEW c \in Commands, NEW next, Becomes(c, next), settled' => settled,
         overlap => overlap', overlap' \/ \A d \in Commands : Active(d) => d = c,
         settled' => Up' /\ container'.password = container.password,
         settled' => next.at \in {"idle", "done", "failed"} \/ NothingToDo(next),
         settled' => overlap' \/ (InStep(next)' /\ (next.at = "write" \/ EnvRight'))
  PROVE  Quiet'
  <1> SUFFICES ASSUME settled'
               PROVE  /\ \A d \in Commands : Active(d)' => NothingToDo(cmd[d])'
                      /\ overlap' \/ EnvKept'
    BY DEF Quiet
  <1>1. \A d \in Commands : cmd'[d] = IF d = c THEN next ELSE cmd[d]
    BY OneMoves
  <1>2. ASSUME NEW d \in Commands, Active(d)'
        PROVE  NothingToDo(cmd[d])'
    <2>1. CASE d # c
      <3>1. cmd'[d] = cmd[d]
        BY <1>1, <2>1
      <3> QED
        BY <1>2, <3>1 DEF Quiet, Active, NothingToDo
    <2>2. CASE d = c
      <3>1. cmd'[d] = next
        BY <1>1, <2>2
      <3> QED
        BY <1>2, <3>1 DEF Active, NothingToDo
    <2> QED
      BY <2>1, <2>2
  <1>3. ASSUME ~overlap'
        PROVE  EnvKept'
    <2>1. ASSUME NEW d \in Commands
          PROVE  InStep(cmd[d])'
      <3>1. CASE d = c
        <4>1. cmd'[d] = next
          BY <1>1, <3>1
        <4> QED
          BY <1>3, <4>1 DEF InStep
      <3>2. CASE d # c
        <4>1. cmd'[d] = cmd[d] /\ ~Active(d)
          BY <1>1, <1>3, <3>2
        <4> QED
          BY <4>1 DEF InStep, Active
      <3> QED
        BY <3>1, <3>2
    <2>2. EnvRight' \/ \E d \in Commands : cmd'[d].at = "write"
      BY <1>1, <1>3
    <2> QED
      BY <2>1, <2>2 DEF EnvKept
  <1> QED
    BY <1>2, <1>3

\* A command goes on and touches nothing on the machine.
LEMMA MachineStands ==
  ASSUME SetupInv, NEW c \in Commands, NEW next, Becomes(c, next),
         UNCHANGED <<machine, cli, removed, excused, stale>>, overlap => overlap',
         overlap' \/ \A d \in Commands : Active(d) => d = c,
         CommandKnown(next), next.at \notin {"record", "wait", "unlink"},
         cmd[c].at \notin {"record", "wait", "unlink"}, next.at \in {"spawn", "kill"} => overlap \/ Alone(next),
         Tells(next)
  PROVE  Known' /\ Database' /\ Named'
  <1>1. Known'
    BY KnownMoves DEF SetupInv, Known, machine
  <1>2. Database'
    <2>1. Tells(next)'
      BY DEF Tells, UrlKnown, Heads, Agreed, Outcome, machine
    <2> QED
      BY <2>1, DatabaseMoves DEF SetupInv, Database, machine
  <1>3. Named'
    BY NamedMoves DEF SetupInv, machine
  <1> QED
    BY <1>1, <1>2, <1>3

\* A command goes on and touches nothing but itself.
LEMMA Thinks ==
  ASSUME SetupInv, NEW c \in Commands, NEW next, Becomes(c, next),
         UNCHANGED <<machine, agent, cli, docker, removed, excused, stale>>, overlap => overlap',
         overlap' \/ \A d \in Commands : Active(d) => d = c,
         CommandKnown(next), next.at \notin {"merge", "record", "wait", "unlink"},
         cmd[c].at \notin {"record", "wait", "unlink"}, next.at \in {"spawn", "kill"} => overlap \/ Alone(next),
         Tells(next),
         settled' => settled /\ (next.at \in {"idle", "done", "failed"} \/ NothingToDo(next)),
         settled' => cmd[c].at # "write" /\ (overlap' \/ InStep(next))
  PROVE  SetupInv'
  <1>1. Known' /\ Database' /\ Named'
    BY MachineStands
  <1>2. BackedUp'
    BY BackedUpMoves DEF SetupInv
  <1>3. Quiet'
    <2>1. settled' => Up'
      BY DEF SetupInv, Quiet, Up, Runs, machine
    <2>2. settled' => overlap' \/ (InStep(next)' /\ EnvRight')
      BY DEF SetupInv, Quiet, EnvKept, EnvRight, InStep, Active, machine
    <2> QED
      BY <2>1, <2>2, QuietMoves DEF SetupInv, machine
  <1> QED
    BY <1>1, <1>2, <1>3 DEF SetupInv

-----------------------------------------------------------------------------
\* The values of .env.
LEMMA UpdatedValues ==
  ASSUME NEW values, NEW updates, DOMAIN values = Names, DOMAIN updates \subseteq Names
  PROVE  /\ DOMAIN Updated(values, updates) = Names
         /\ Updated(values, updates).password =
                IF "password" \in DOMAIN updates THEN updates.password ELSE values.password
         /\ Updated(values, updates).url = IF "url" \in DOMAIN updates THEN updates.url ELSE values.url
  BY DEF Updated, Names

LEMMA GoesFields ==
  ASSUME NEW q, DOMAIN q = Fields, NEW stage, NEW next, next = [q EXCEPT !.at = stage]
  PROVE  /\ DOMAIN next = Fields /\ next.at = stage /\ next.kind = q.kind /\ next.next = q.next
         /\ next.env = q.env /\ next.lines = q.lines /\ next.service = q.service /\ next.pid = q.pid
         /\ next.graph = q.graph /\ next.late = q.late
  BY DEF Fields

\* What is known of a command at work.
LEMMA AtWork ==
  ASSUME SetupInv, NEW c \in Commands, Active(c)
  PROVE  /\ overlap \/ \A d \in Commands : Active(d) => d = c
         /\ CommandKnown(cmd[c]) /\ Tells(cmd[c]) /\ DOMAIN cmd[c] = Fields
         /\ overlap \/ Alone(cmd[c])
         /\ settled => NothingToDo(cmd[c]) /\ Up
         /\ settled => overlap \/ (InStep(cmd[c]) /\ (EnvRight \/ cmd[c].at = "write"))
         /\ DOMAIN env = Names /\ cli \in BOOLEAN /\ env.url \in BOOLEAN /\ (env.url => cli)
         /\ container.password = None <=> container.at = "none"
         /\ removed \/ volume = container.password
  BY DEF SetupInv, Known, Database, Named, Quiet, EnvKept, Tells, CommandKnown, Active

LEMMA ReadMoves == ASSUME SetupInv, NEW c \in Commands, Read(c) PROVE SetupInv'
  <1> DEFINE q == cmd[c]
             missing == (IF env.password = None THEN {"password"} ELSE {})
                            \cup (IF cli /\ ~env.url THEN {"url"} ELSE {})
             updates == [k \in missing |-> IF k = "password" THEN c ELSE TRUE]
             then == IF q.kind = "init" THEN "llm" ELSE "inspect"
             now == IF missing = {} THEN then ELSE "load"
             next == [q EXCEPT !.env = Updated(env, updates), !.lines = updates, !.next = then, !.at = now]
  <1>1. q.at = "read" /\ Active(c) /\ Becomes(c, next)
    BY DEF Read, Active
  <1>2. UNCHANGED <<machine, agent, cli, docker, overlap, removed, excused, stale, settled>>
    BY DEF Read, history
  <1>3. /\ overlap \/ \A d \in Commands : Active(d) => d = c
        /\ CommandKnown(q) /\ Tells(q) /\ DOMAIN q = Fields
        /\ settled => NothingToDo(q) /\ Up /\ (overlap \/ EnvRight)
        /\ DOMAIN env = Names /\ cli \in BOOLEAN /\ env.url \in BOOLEAN /\ (env.url => cli)
        /\ container.password = None <=> container.at = "none"
    BY <1>1, AtWork
  <1>4. /\ next.at = now /\ next.kind = q.kind /\ next.next = then /\ next.env = Updated(env, updates)
        /\ next.lines = updates /\ next.service = q.service /\ next.pid = q.pid
        /\ next.graph = q.graph /\ DOMAIN next = Fields
    BY <1>3 DEF Fields
  <1>5. /\ DOMAIN updates = missing /\ missing \subseteq Names
        /\ \A k \in missing : updates[k] = IF k = "password" THEN c ELSE TRUE
    BY DEF Names
  <1>6. /\ "password" \in missing <=> env.password = None
        /\ "url" \in missing <=> cli /\ ~env.url
        /\ missing = {} <=> env.password # None /\ ~(cli /\ ~env.url)
    OBVIOUS
  <1> HIDE DEF updates, missing
  <1>7. /\ DOMAIN next.env = Names
        /\ next.env.password = IF env.password = None THEN c ELSE env.password
        /\ next.env.url = IF cli /\ ~env.url THEN TRUE ELSE env.url
    <2>1. (env.password = None => updates.password = c) /\ (cli /\ ~env.url => updates.url = TRUE)
      BY <1>5, <1>6
    <2>2. /\ DOMAIN next.env = Names
          /\ next.env.password = IF "password" \in DOMAIN updates THEN updates.password ELSE env.password
          /\ next.env.url = IF "url" \in DOMAIN updates THEN updates.url ELSE env.url
      BY <1>3, <1>4, <1>5, UpdatedValues
    <2>3. next.env.password = IF env.password = None THEN c ELSE env.password
      BY <1>5, <1>6, <2>1, <2>2
    <2>4. next.env.url = IF cli /\ ~env.url THEN TRUE ELSE env.url
      BY <1>5, <1>6, <2>1, <2>2
    <2> QED
      BY <2>2, <2>3, <2>4
  <1>8. next.env.password # None /\ next.env.url = cli
    BY <1>3, <1>7, SetupAssumption
  <1>9. then \in {"llm", "inspect"} /\ now \in {"llm", "inspect", "load"} /\ (now = "load" \/ missing = {})
    OBVIOUS
  <1> HIDE DEF next, then, now
  <1>10. q.graph = "none" /\ CommandKnown(next)
    BY <1>1, <1>3, <1>4, <1>5, <1>7, <1>9 DEF CommandKnown, Working, Heads
  <1>11. UrlKnown(next)
    BY <1>3, <1>4, <1>5, <1>6, <1>8 DEF UrlKnown
  <1>12. Agreed(next)
    <2>1. next.at # "save" /\ ~Heads(next, {"start", "bolt"}) /\ next.graph = "none"
      BY <1>4, <1>9, <1>10 DEF Heads
    <2>2. Outcome(next, "password") = next.env.password /\ Outcome(next, "url") = next.env.url
      BY <1>4, <1>5, <1>6, <1>7, <1>9, <2>1 DEF Outcome
    <2> QED
      BY <2>1, <2>2 DEF Agreed
  <1>13. Tells(next)
    BY <1>4, <1>8, <1>10, <1>11, <1>12 DEF Tells
  <1>14. settled => NothingToDo(next) /\ (overlap \/ InStep(next))
    <2> SUFFICES ASSUME settled PROVE NothingToDo(next) /\ (overlap \/ InStep(next))
      OBVIOUS
    <2>1. q.kind \in {"up", "deps"} /\ next.next = "inspect" /\ next.at \in {"inspect", "load"}
      BY <1>3, <1>4, <1>9 DEF NothingToDo, then, now
    <2>2. overlap \/ next.env.password = container.password
      BY <1>3, <1>7 DEF Up, EnvRight
    <2> QED
      BY <1>4, <2>1, <2>2 DEF NothingToDo, InStep
  <1> QED
    BY <1>1, <1>2, <1>3, <1>4, <1>9, <1>10, <1>13, <1>14, Thinks

\* What a command does at a stage where it neither saves .env nor handles a process.
Planning == {"inspect", "create", "start", "bolt", "openknowledge", "api", "llm", "serve", "serving"}

\* A command goes to another stage.
LEMMA GoesMoves ==
  ASSUME SetupInv, NEW c \in Commands, NEW stage, Goes(c, stage),
         UNCHANGED <<machine, agent, cli, docker, history>>, cmd[c].at \in Planning,
         stage \in {"create", "start", "bolt", "api", "llm", "serve", "serving", "end"},
         stage \in {"create", "start", "bolt"} => cmd[c].at = "inspect",
         stage \in {"start", "bolt"} => cmd[c].env.password = container.password,
         settled => stage \in {"bolt", "api", "llm", "end"}
  PROVE  SetupInv'
  <1> DEFINE q == cmd[c]
             next == [q EXCEPT !.at = stage]
  <1>1. Active(c) /\ Becomes(c, next)
    BY DEF Active, Planning, Goes, Becomes
  <1>2. UNCHANGED <<overlap, removed, excused, stale, settled>>
    BY DEF history
  <1>3. /\ overlap \/ \A d \in Commands : Active(d) => d = c
        /\ CommandKnown(q) /\ Tells(q) /\ DOMAIN q = Fields
        /\ settled => NothingToDo(q) /\ Up /\ (overlap \/ InStep(q))
    BY <1>1, AtWork
  <1>4. /\ DOMAIN next = Fields /\ next.at = stage /\ next.kind = q.kind /\ next.next = q.next
        /\ next.env = q.env /\ next.lines = q.lines /\ next.service = q.service /\ next.pid = q.pid
        /\ next.graph = q.graph
    BY <1>3, GoesFields
  <1> HIDE DEF next
  <1>5. CommandKnown(next)
    BY <1>3, <1>4 DEF CommandKnown, Planning, Working, Heads
  <1>6. UrlKnown(next)
    BY <1>3, <1>4 DEF Tells, UrlKnown, Planning, Working
  <1>7. overlap \/ Agreed(next)
    BY <1>3, <1>4 DEF Tells, Agreed, Outcome, Heads, Planning, Working
  <1>8. Tells(next)
    BY <1>3, <1>4, <1>6, <1>7 DEF Tells, Heads
  <1>9. settled => NothingToDo(next) /\ (overlap \/ InStep(next))
    BY <1>3, <1>4 DEF NothingToDo, InStep, Planning
  <1> QED
    BY <1>1, <1>2, <1>3, <1>4, <1>5, <1>8, <1>9, Thinks DEF Planning

\* A command changes its values and is going to save them.
LEMMA ChangesMoves ==
  ASSUME SetupInv, NEW c \in Commands, NEW updates, NEW then, Changes(c, updates, then),
         UNCHANGED <<machine, agent, cli, docker, history>>, cmd[c].at \in Planning,
         DOMAIN updates \subseteq Names,
         then \in {"start", "bolt", "openknowledge", "api", "llm", "serve", "end"},
         "url" \in DOMAIN updates => updates.url = FALSE /\ cli = FALSE,
         "password" \in DOMAIN updates => cmd[c].at = "inspect" /\ updates.password = container.password,
         then \in {"start", "bolt"} =>
            cmd[c].at = "inspect" /\ "password" \in DOMAIN updates,
         settled => then \in {"bolt", "end"}
  PROVE  SetupInv'
  <1> DEFINE q == cmd[c]
             next == [q EXCEPT !.env = Updated(q.env, updates), !.lines = updates, !.at = "load", !.next = then]
  <1>1. Active(c) /\ Becomes(c, next)
    BY DEF Active, Planning, Changes
  <1>2. UNCHANGED <<overlap, removed, excused, stale, settled>>
    BY DEF history
  <1>3. /\ overlap \/ \A d \in Commands : Active(d) => d = c
        /\ CommandKnown(q) /\ Tells(q) /\ DOMAIN q = Fields /\ DOMAIN q.env = Names
        /\ settled => NothingToDo(q) /\ Up /\ (overlap \/ InStep(q))
    BY <1>1, AtWork DEF CommandKnown
  <1>4. /\ DOMAIN next = Fields /\ next.at = "load" /\ next.kind = q.kind /\ next.next = then
        /\ next.env = Updated(q.env, updates) /\ next.lines = updates /\ next.service = q.service
        /\ next.pid = q.pid /\ next.graph = q.graph
    BY <1>3 DEF Fields
  <1>5. /\ DOMAIN next.env = Names
        /\ next.env.password = IF "password" \in DOMAIN updates THEN updates.password ELSE q.env.password
        /\ next.env.url = IF "url" \in DOMAIN updates THEN updates.url ELSE q.env.url
    BY <1>3, <1>4, UpdatedValues
  <1> HIDE DEF next
  <1>6. CommandKnown(next)
    BY <1>3, <1>4, <1>5 DEF CommandKnown, Planning, Working, Heads
  <1>7. UrlKnown(next)
    BY <1>3, <1>4, <1>5 DEF Tells, UrlKnown, Planning, Working
  <1>8. overlap \/ Agreed(next)
    <2> SUFFICES ASSUME ~overlap PROVE Agreed(next)
      OBVIOUS
    <2>1. env.password = q.env.password /\ env.url = q.env.url
      BY <1>3 DEF Tells, Agreed, Outcome, Planning, Working
    <2>2. Outcome(next, "password") = next.env.password /\ Outcome(next, "url") = next.env.url
      BY <1>4, <1>5, <2>1 DEF Outcome
    <2>3. Heads(next, {"start", "bolt"}) => container.password = next.env.password
      BY <1>4, <1>5 DEF Heads
    <2>4. q.graph = "docker" => "password" \notin DOMAIN updates
      BY <1>3 DEF CommandKnown, Heads
    <2> QED
      BY <1>3, <1>4, <1>5, <2>1, <2>2, <2>3, <2>4 DEF Agreed, Tells
  <1>9. Tells(next)
    BY <1>3, <1>4, <1>7, <1>8 DEF Tells, Heads
  <1>10. settled => NothingToDo(next) /\ (overlap \/ InStep(next))
    BY <1>3, <1>4, <1>5 DEF NothingToDo, InStep, Planning
  <1> QED
    BY <1>1, <1>2, <1>3, <1>4, <1>6, <1>9, <1>10, Thinks DEF Planning

LEMMA LLMMoves == ASSUME SetupInv, NEW c \in Commands, ChooseLLM(c) \/ SkipLLM(c) PROVE SetupInv'
  <1>1. cmd[c].at = "llm" /\ UNCHANGED <<machine, agent, cli, docker, history>>
    BY DEF ChooseLLM, SkipLLM
  <1>2. AfterLLM(c) \in {"serve", "end"} /\ (settled => AfterLLM(c) = "end")
    <2>1. settled => cmd[c].kind \in {"up", "deps"}
      BY <1>1, AtWork DEF Active, NothingToDo
    <2> QED
      BY <2>1 DEF AfterLLM
  <1>3. CASE ChooseLLM(c)
    <2>1. Changes(c, [llm |-> TRUE], AfterLLM(c))
      BY <1>3 DEF ChooseLLM
    <2>2. DOMAIN [llm |-> TRUE] = {"llm"}
      OBVIOUS
    <2> QED
      BY <1>1, <1>2, <2>1, <2>2, ChangesMoves DEF Names, Planning
  <1>4. CASE SkipLLM(c)
    <2>1. Goes(c, AfterLLM(c))
      BY <1>4 DEF SkipLLM
    <2> QED
      BY <1>1, <1>2, <2>1, GoesMoves DEF Planning
  <1> QED
    BY <1>3, <1>4

LEMMA LoadMoves == ASSUME SetupInv, NEW c \in Commands, Load(c) PROVE SetupInv'
  <1> DEFINE q == cmd[c]
             next == [q EXCEPT !.lines = Updated(env, q.lines), !.at = "save"]
  <1>1. q.at = "load" /\ Active(c) /\ Becomes(c, next)
    BY DEF Load, Active
  <1>2. UNCHANGED <<machine, agent, cli, docker, overlap, removed, excused, stale, settled>>
    BY DEF Load, history
  <1>3. /\ overlap \/ \A d \in Commands : Active(d) => d = c
        /\ CommandKnown(q) /\ Tells(q) /\ DOMAIN q = Fields /\ DOMAIN q.lines \subseteq Names
        /\ settled => NothingToDo(q) /\ Up /\ (overlap \/ InStep(q))
        /\ DOMAIN env = Names /\ env.url \in BOOLEAN /\ (env.url => cli)
    BY <1>1, AtWork DEF CommandKnown
  <1>4. /\ DOMAIN next = Fields /\ next.at = "save" /\ next.kind = q.kind /\ next.next = q.next
        /\ next.env = q.env /\ next.lines = Updated(env, q.lines) /\ next.service = q.service
        /\ next.pid = q.pid /\ next.graph = q.graph
    BY <1>3 DEF Fields
  <1>5. /\ DOMAIN next.lines = Names
        /\ next.lines.password = Outcome(q, "password") /\ next.lines.url = Outcome(q, "url")
    BY <1>1, <1>3, <1>4, UpdatedValues DEF Outcome
  <1> HIDE DEF next
  <1>6. CommandKnown(next)
    BY <1>1, <1>3, <1>4, <1>5 DEF CommandKnown, Working, Heads
  <1>7. UrlKnown(next)
    BY <1>1, <1>3, <1>4, <1>5 DEF Tells, UrlKnown, Working, Outcome
  <1>8. overlap \/ Agreed(next)
    <2>1. Outcome(next, "password") = next.lines.password /\ Outcome(next, "url") = next.lines.url
      BY <1>4 DEF Outcome
    <2> QED
      BY <1>1, <1>3, <1>4, <1>5, <2>1 DEF Tells, Agreed, Heads, Working
  <1>9. Tells(next)
    BY <1>1, <1>3, <1>4, <1>7, <1>8 DEF Tells, Heads
  <1>10. settled => NothingToDo(next) /\ (overlap \/ InStep(next))
    BY <1>1, <1>3, <1>4 DEF NothingToDo, InStep
  <1> QED
    BY <1>1, <1>2, <1>3, <1>4, <1>6, <1>9, <1>10, Thinks

\* .env is emptied, or written anew, by a command that goes on.
LEMMA FileMoves ==
  ASSUME SetupInv, NEW c \in Commands, Active(c), NEW next, Becomes(c, next),
         UNCHANGED <<container, volume, proc, pidfile, agent, cli, docker, history>>,
         cmd[c].at \in {"save", "write"}, next.at \notin {"merge", "record", "wait", "unlink", "spawn", "kill"},
         DOMAIN env' = Names, env'.url \in BOOLEAN /\ (env'.url => cli), CommandKnown(next), Tells(next)',
         settled => NothingToDo(next),
         settled /\ ~overlap => InStep(next) /\ (next.at = "write" \/ EnvRight')
  PROVE  SetupInv'
  <1>1. UNCHANGED <<overlap, removed, excused, stale, settled>>
    BY DEF history
  <1>2. /\ overlap \/ \A d \in Commands : Active(d) => d = c
        /\ settled => Up
    BY AtWork
  <1>3. Known'
    BY <1>1, <1>2, KnownMoves DEF SetupInv, Known
  <1>4. BackedUp'
    BY <1>1, BackedUpMoves DEF SetupInv
  <1>5. Database'
    BY <1>1, <1>2, DatabaseMoves DEF SetupInv, Database
  <1>6. Named'
    BY <1>1, <1>2, NamedMoves DEF SetupInv
  <1>7. Quiet'
    <2>1. settled' => Up'
      BY <1>1, <1>2 DEF Up, Runs
    <2>2. settled' => overlap' \/ (InStep(next)' /\ (next.at = "write" \/ EnvRight'))
      BY <1>1 DEF InStep
    <2> QED
      BY <1>1, <1>2, <2>1, <2>2, QuietMoves DEF SetupInv
  <1> QED
    BY <1>3, <1>4, <1>5, <1>6, <1>7 DEF SetupInv

LEMMA TruncateMoves == ASSUME SetupInv, NEW c \in Commands, Truncate(c) PROVE SetupInv'
  <1> DEFINE q == cmd[c]
  <1>1. PICK next : next = [q EXCEPT !.at = "write"]
    OBVIOUS
  <1>2. /\ q.at = "save" /\ Active(c) /\ Becomes(c, next) /\ env' = Blank
        /\ UNCHANGED <<container, volume, proc, pidfile, agent, cli, docker, history>>
    BY <1>1 DEF Truncate, Active, Goes, Becomes
  <1>3. /\ CommandKnown(q) /\ Tells(q) /\ DOMAIN q = Fields
        /\ settled => NothingToDo(q) /\ (overlap \/ InStep(q))
    BY <1>2, AtWork
  <1>4. /\ DOMAIN next = Fields /\ next.at = "write" /\ next.kind = q.kind /\ next.next = q.next
        /\ next.env = q.env /\ next.lines = q.lines /\ next.service = q.service /\ next.pid = q.pid
        /\ next.graph = q.graph
    BY <1>1, <1>3, GoesFields
  <1>5. CommandKnown(next)
    BY <1>2, <1>3, <1>4 DEF CommandKnown, Working, Heads
  <1>6. UrlKnown(next)
    BY <1>2, <1>3, <1>4 DEF Tells, UrlKnown, Working
  <1>7. overlap \/ Agreed(next)'
    BY <1>2, <1>3, <1>4 DEF Tells, Agreed, Outcome, Heads, Working
  <1>8. Tells(next)'
    BY <1>2, <1>3, <1>4, <1>6, <1>7 DEF Tells, UrlKnown, Heads, history
  <1>9. DOMAIN env' = Names /\ env'.url = FALSE
    BY <1>2 DEF Blank, Names
  <1>10. settled => NothingToDo(next) /\ (overlap \/ InStep(next))
    BY <1>2, <1>3, <1>4 DEF NothingToDo, InStep
  <1> QED
    BY <1>2, <1>4, <1>5, <1>8, <1>9, <1>10, FileMoves

LEMMA WriteMoves == ASSUME SetupInv, NEW c \in Commands, Write(c) PROVE SetupInv'
  <1> DEFINE q == cmd[c]
  <1>1. PICK next : next = [q EXCEPT !.lines = <<>>, !.at = q.next]
    OBVIOUS
  <1>2. /\ q.at = "write" /\ Active(c) /\ Becomes(c, next) /\ env' = q.lines
        /\ UNCHANGED <<container, volume, proc, pidfile, agent, cli, docker, history>>
        /\ UNCHANGED <<overlap, removed>>
    BY <1>1 DEF Write, Active, history
  <1>3. /\ CommandKnown(q) /\ Tells(q) /\ DOMAIN q = Fields /\ DOMAIN q.lines = Names
        /\ settled => NothingToDo(q) /\ (overlap \/ InStep(q))
    BY <1>2, AtWork DEF CommandKnown
  <1>4. q.next \in {"inspect", "start", "bolt", "openknowledge", "api", "llm", "serve", "end"}
    BY <1>2, <1>3 DEF CommandKnown
  <1>5. /\ DOMAIN next = Fields /\ next.at = q.next /\ next.kind = q.kind /\ next.next = q.next
        /\ next.env = q.env /\ next.service = q.service /\ next.pid = q.pid /\ next.graph = q.graph
    BY <1>1, <1>3 DEF Fields
  <1>6. CommandKnown(next)
    BY <1>2, <1>3, <1>4, <1>5 DEF CommandKnown, Working, Heads
  <1>7. UrlKnown(next)
    BY <1>2, <1>3, <1>4, <1>5 DEF Tells, UrlKnown, Working
  <1>8. overlap \/ (env'.password = q.env.password /\ env'.url = q.env.url)
    BY <1>2, <1>3 DEF Tells, Agreed, Outcome, Working
  <1>9. (overlap \/ Agreed(next))'
    <2> SUFFICES ASSUME ~overlap PROVE Agreed(next)'
      BY <1>2
    <2>1. Outcome(next, "password")' = env'.password /\ Outcome(next, "url")' = env'.url
      BY <1>4, <1>5 DEF Outcome
    <2>2. Heads(next, {"start", "bolt"}) => Heads(q, {"start", "bolt"})
      BY <1>2, <1>4, <1>5 DEF Heads
    <2>3. Heads(next, {"start", "bolt"}) \/ next.graph = "docker" =>
            container.at = "none" \/ container.password = q.env.password
      BY <1>3, <1>5, <2>2 DEF Tells, Agreed
    <2> QED
      BY <1>2, <1>4, <1>5, <1>8, <2>1, <2>3 DEF Agreed
  <1>10. Tells(next)'
    <2>1. Heads(next, {"inspect", "create"}) => next.env.password # None
      BY <1>2, <1>3, <1>4, <1>5 DEF Tells, Heads
    <2>2. UrlKnown(next)'
      BY <1>2, <1>7 DEF UrlKnown
    <2> QED
      BY <1>2, <1>3, <1>5, <1>9, <2>1, <2>2 DEF Tells, Heads
  <1>11. env'.url \in BOOLEAN /\ (env'.url => cli) /\ q.env.url = cli
    BY <1>2, <1>3 DEF Tells, UrlKnown, Names, Working
  <1>12. settled => NothingToDo(next)
    BY <1>2, <1>3, <1>5 DEF NothingToDo
  <1>13. settled /\ ~overlap => InStep(next) /\ EnvRight'
    BY <1>2, <1>3, <1>5, <1>8, <1>11 DEF InStep, EnvRight
  <1> QED
    BY <1>2, <1>3, <1>4, <1>5, <1>6, <1>10, <1>11, <1>12, <1>13, FileMoves

\* A command knows what to use as a graph.
LEMMA GraphMoves ==
  ASSUME SetupInv, NEW c \in Commands, NEW next, Becomes(c, next),
         UNCHANGED <<machine, agent, cli, docker, history>>, cmd[c].at \in {"inspect", "bolt"},
         DOMAIN next = Fields, next.at = "openknowledge", next.kind = cmd[c].kind, next.env = cmd[c].env,
         next.service = cmd[c].service, next.graph \in {"other", "docker", "late"},
         next.graph = "docker" => cmd[c].at = "bolt" /\ container.at # "none"
  PROVE  SetupInv'
  <1> DEFINE q == cmd[c]
  <1>1. Active(c)
    BY DEF Active
  <1>2. UNCHANGED <<overlap, removed, excused, stale, settled>>
    BY DEF history
  <1>3. /\ overlap \/ \A d \in Commands : Active(d) => d = c
        /\ CommandKnown(q) /\ Tells(q)
        /\ settled => NothingToDo(q) /\ Up /\ (overlap \/ InStep(q))
    BY <1>1, AtWork
  <1>4. CommandKnown(next)
    BY <1>3 DEF CommandKnown, Working, Heads
  <1>5. UrlKnown(next)
    BY <1>3 DEF Tells, UrlKnown, Working
  <1>6. overlap \/ Agreed(next)
    BY <1>3 DEF Tells, Agreed, Outcome, Heads, Working
  <1>7. Tells(next)
    BY <1>5, <1>6 DEF Tells, Heads
  <1>8. settled => NothingToDo(next) /\ (overlap \/ InStep(next))
    BY <1>3 DEF NothingToDo, InStep
  <1> QED
    BY <1>1, <1>2, <1>3, <1>4, <1>7, <1>8, Thinks

LEMMA InspectMoves == ASSUME SetupInv, NEW c \in Commands, Inspect(c) PROVE SetupInv'
  <1> DEFINE q == cmd[c]
  <1>1. q.at = "inspect" /\ UNCHANGED <<machine, agent, cli, docker, history>> /\ Active(c)
    BY DEF Inspect, Active
  <1>2. /\ CommandKnown(q) /\ Tells(q) /\ DOMAIN q = Fields /\ DOMAIN q.env = Names
        /\ settled => NothingToDo(q) /\ Up
        /\ overlap \/ \A d \in Commands : Active(d) => d = c
    BY <1>1, AtWork DEF CommandKnown
  <1>3. CASE ~docker /\ Becomes(c, [q EXCEPT !.graph = "other", !.at = "openknowledge"])
    <2> DEFINE next == [q EXCEPT !.graph = "other", !.at = "openknowledge"]
    <2>1. /\ DOMAIN next = Fields /\ next.at = "openknowledge" /\ next.kind = q.kind /\ next.env = q.env
          /\ next.service = q.service /\ next.graph = "other"
      BY <1>2 DEF Fields
    <2>2. Becomes(c, next)
      BY <1>3
    <2> HIDE DEF next
    <2> QED
      BY <1>1, <2>1, <2>2, GraphMoves
  <1>4. CASE ~docker /\ Becomes(c, [q EXCEPT !.graph = "memory", !.env.password = None,
                                       !.lines = [password |-> None], !.at = "load", !.next = "openknowledge"])
    <2> DEFINE lines == [password |-> None]
               next == [q EXCEPT !.graph = "memory", !.env.password = None,
                                 !.lines = lines, !.at = "load", !.next = "openknowledge"]
    <2>1. /\ DOMAIN next = Fields /\ next.at = "load" /\ next.kind = q.kind
          /\ next.env = [q.env EXCEPT !.password = None] /\ next.next = "openknowledge"
          /\ next.lines = lines /\ next.service = q.service /\ next.graph = "memory"
      BY <1>2 DEF Fields
    <2>2. next.env.password = None /\ next.env.url = q.env.url /\ DOMAIN next.env = Names
      BY <1>2, <2>1 DEF Names
    <2>3. DOMAIN lines = {"password"} /\ lines.password = None
      OBVIOUS
    <2>4. Becomes(c, next)
      BY <1>4
    <2> HIDE DEF next, lines
    <2>5. CommandKnown(next)
      BY <1>2, <2>1, <2>2, <2>3 DEF CommandKnown, Working, Heads, Names
    <2>6. UrlKnown(next)
      BY <1>1, <1>2, <2>1, <2>2, <2>3 DEF Tells, UrlKnown, Working
    <2>7. overlap \/ Agreed(next)
      BY <1>1, <1>2, <2>1, <2>2, <2>3 DEF Tells, Agreed, Outcome, Heads, Working
    <2>8. Tells(next)
      BY <2>1, <2>6, <2>7 DEF Tells, Heads
    <2>9. ~settled
      BY <1>2, <1>4 DEF Up
    <2> QED
      BY <1>1, <1>2, <2>1, <2>4, <2>5, <2>8, <2>9, Thinks DEF history
  <1>5. CASE docker /\ container.at = "none" /\ Goes(c, "create")
    BY <1>1, <1>2, <1>5, GoesMoves DEF Planning, Up
  <1>6. ASSUME NEW stage \in {"start", "bolt"}, Synced(c, stage),
               container.at = IF stage = "start" THEN "exited" ELSE "running"
        PROVE  SetupInv'
    <2>1. settled => stage = "bolt"
      BY <1>1, <1>2, <1>6 DEF Up
    <2>2. CASE q.env.password = container.password
      <3>1. Goes(c, stage)
        BY <1>6, <2>2 DEF Synced
      <3> QED
        BY <1>1, <2>1, <2>2, <3>1, GoesMoves DEF Planning
    <2>3. CASE q.env.password # container.password
      <3> DEFINE lines == [password |-> container.password]
      <3>1. Changes(c, lines, stage)
        BY <1>6, <2>3 DEF Synced
      <3>2. DOMAIN lines = {"password"} /\ lines.password = container.password
        OBVIOUS
      <3> HIDE DEF lines
      <3> QED
        BY <1>1, <2>1, <2>3, <3>1, <3>2, ChangesMoves DEF Planning, Names
    <2> QED
      BY <2>2, <2>3
  <1> QED
    BY <1>3, <1>4, <1>5, <1>6 DEF Inspect

\* A command is over.
LEMMA RestFields ==
  ASSUME NEW kind, NEW how \in {"idle", "done", "failed"}, NEW next, next = [Idle(kind) EXCEPT !.at = how]
  PROVE  CommandKnown(next) /\ Tells(next) /\ next.at = how /\ next.graph = "none"
  <1>1. /\ DOMAIN next = Fields /\ next.at = how /\ next.env = Blank /\ next.service = "api"
        /\ next.graph = "none"
    BY DEF Idle, Fields
  <1>2. DOMAIN Blank = Names
    BY DEF Blank, Names
  <1>3. CommandKnown(next)
    BY <1>1, <1>2 DEF CommandKnown, Services
  <1>4. Tells(next)
    BY <1>1 DEF Tells, UrlKnown, Agreed, Heads, Working
  <1> QED
    BY <1>1, <1>3, <1>4

LEMMA OverMoves ==
  ASSUME SetupInv, NEW c \in Commands, NEW how \in {"done", "failed"}, Over(c, how), Active(c),
         UNCHANGED <<machine, agent, cli, docker, removed, excused, stale, overlap>>, settled' => settled,
         cmd[c].at \notin {"record", "wait", "unlink"}, settled' => cmd[c].at # "write"
  PROVE  SetupInv'
  <1> DEFINE next == [Idle(cmd[c].kind) EXCEPT !.at = how]
  <1>1. Becomes(c, next) /\ (overlap \/ \A d \in Commands : Active(d) => d = c)
    BY AtWork DEF Over
  <1>2. CommandKnown(next) /\ Tells(next) /\ next.at = how
    BY RestFields
  <1> HIDE DEF next
  <1>3. InStep(next)
    BY <1>2 DEF InStep
  <1> QED
    BY <1>1, <1>2, <1>3, Thinks

\* The container is made, started or stopped.
LEMMA ContainerMoves ==
  ASSUME SetupInv, NEW c \in Commands, Active(c), NEW stage \in {"bolt", "end"}, Goes(c, stage),
         UNCHANGED <<env, proc, pidfile, agent, cli, docker, history>>,
         cmd[c].at \in {"create", "start", "graph"}, stage = "end" <=> cmd[c].at = "graph",
         DOMAIN container' = {"at", "password"}, container'.password = None <=> container'.at = "none",
         removed \/ volume' = container'.password, container'.at = "none" => container.at = "none",
         container'.password = IF cmd[c].at = "create" THEN cmd[c].env.password ELSE container.password
  PROVE  SetupInv'
  <1> DEFINE q == cmd[c]
  <1>1. PICK next : next = [q EXCEPT !.at = stage]
    OBVIOUS
  <1>2. Becomes(c, next)
    BY <1>1 DEF Goes, Becomes
  <1>3. UNCHANGED <<overlap, removed, excused, stale, settled>>
    BY DEF history
  <1>4. /\ overlap \/ \A d \in Commands : Active(d) => d = c
        /\ CommandKnown(q) /\ Tells(q) /\ DOMAIN q = Fields
        /\ container.password = None <=> container.at = "none"
    BY AtWork
  <1>5. ~settled
    BY AtWork DEF NothingToDo
  <1>6. /\ DOMAIN next = Fields /\ next.at = stage /\ next.kind = q.kind /\ next.next = q.next
        /\ next.env = q.env /\ next.lines = q.lines /\ next.service = q.service /\ next.pid = q.pid
        /\ next.graph = q.graph
    BY <1>1, <1>4, GoesFields
  <1>7. q.graph = "none" /\ CommandKnown(next)
    BY <1>4, <1>6 DEF CommandKnown, Working, Heads
  <1>8. UrlKnown(next)'
    BY <1>4, <1>6 DEF Tells, UrlKnown, Working
  <1>9. (overlap \/ Agreed(next))'
    <2> SUFFICES ASSUME ~overlap PROVE Agreed(next)'
      BY <1>3
    <2>1. stage = "bolt" => env.password = q.env.password /\ env.url = q.env.url
      BY <1>4 DEF Tells, Agreed, Outcome, Working
    <2>2. Heads(next, {"start", "bolt"}) =>
            container.at = "none" \/ container.password = q.env.password \/ q.at = "create"
      BY <1>4, <1>6 DEF Tells, Agreed, Heads
    <2>3. Heads(next, {"start", "bolt"}) => container'.at = "none" \/ container'.password = q.env.password
      BY <1>4, <2>2
    <2> QED
      BY <1>6, <1>7, <2>1, <2>3 DEF Agreed, Outcome, Working
  <1>10. Tells(next)'
    BY <1>6, <1>7, <1>8, <1>9 DEF Tells, Heads
  <1>11. Known'
    BY <1>2, <1>3, <1>4, <1>7, KnownMoves DEF SetupInv, Known
  <1>12. BackedUp'
    BY <1>2, <1>3, <1>6, BackedUpMoves DEF SetupInv
  <1>13. Database'
    BY <1>2, <1>3, <1>4, <1>10, DatabaseMoves DEF SetupInv, Database
  <1>14. Named'
    BY <1>2, <1>3, <1>4, <1>6, NamedMoves DEF SetupInv
  <1>15. Quiet'
    BY <1>3, <1>5 DEF Quiet
  <1> QED
    BY <1>11, <1>12, <1>13, <1>14, <1>15 DEF SetupInv

LEMMA BoltMoves == ASSUME SetupInv, NEW c \in Commands, Bolt(c) PROVE SetupInv'
  <1> DEFINE q == cmd[c]
  <1>1. q.at = "bolt" /\ UNCHANGED <<machine, agent, cli, docker, history>> /\ DOMAIN q = Fields
    BY AtWork DEF Bolt, Active
  <1>2. CASE BoltOpen /\ Becomes(c, [q EXCEPT !.graph = "docker", !.at = "openknowledge"])
    <2> DEFINE next == [q EXCEPT !.graph = "docker", !.at = "openknowledge"]
    <2>1. /\ DOMAIN next = Fields /\ next.at = "openknowledge" /\ next.kind = q.kind /\ next.env = q.env
          /\ next.service = q.service /\ next.graph = "docker"
      BY <1>1 DEF Fields
    <2>2. Becomes(c, next) /\ container.at # "none"
      BY <1>2 DEF BoltOpen
    <2> HIDE DEF next
    <2> QED
      BY <1>1, <2>1, <2>2, GraphMoves
  <1>3. CASE Becomes(c, [q EXCEPT !.graph = "late", !.late = TRUE, !.at = "openknowledge"])
    <2> DEFINE next == [q EXCEPT !.graph = "late", !.late = TRUE, !.at = "openknowledge"]
    <2>1. /\ DOMAIN next = Fields /\ next.at = "openknowledge" /\ next.kind = q.kind /\ next.env = q.env
          /\ next.service = q.service /\ next.graph = "late"
      BY <1>1 DEF Fields
    <2>2. Becomes(c, next)
      BY <1>3
    <2> HIDE DEF next
    <2> QED
      BY <1>1, <2>1, <2>2, GraphMoves
  <1> QED
    BY <1>2, <1>3 DEF Bolt

LEMMA DockerMoves ==
  ASSUME SetupInv, NEW c \in Commands, Create(c) \/ StartContainer(c) \/ StopGraph(c)
  PROVE  SetupInv'
  <1> DEFINE q == cmd[c]
  <1>1. q.at \in {"create", "start", "graph"} /\ Active(c)
    BY DEF Create, StartContainer, StopGraph, Active
  <1>2. /\ CommandKnown(q) /\ Tells(q) /\ DOMAIN container = {"at", "password"}
        /\ container.password = None <=> container.at = "none"
        /\ removed \/ volume = container.password
    BY <1>1, AtWork DEF SetupInv, Database
  <1>3. CASE Create(c)
    <2>1. CASE docker /\ container.at = "none"
      <3>1. /\ container' = [at |-> "running", password |-> q.env.password]
            /\ volume' = IF volume = None THEN q.env.password ELSE volume
            /\ Goes(c, "bolt") /\ q.at = "create"
            /\ UNCHANGED <<env, proc, pidfile, agent, cli, docker, history>>
        BY <1>3, <2>1 DEF Create
      <3>2. q.env.password # None
        BY <1>2, <3>1 DEF Tells, Heads
      <3>3. /\ DOMAIN container' = {"at", "password"} /\ container'.at = "running"
            /\ container'.password = q.env.password
        BY <3>1
      <3>4. removed \/ volume' = container'.password
        BY <1>2, <2>1, <3>1, <3>3
      <3> QED
        BY <1>1, <1>2, <2>1, <3>1, <3>2, <3>3, <3>4, ContainerMoves
    <2>2. CASE ~(docker /\ container.at = "none")
      BY <1>1, <1>3, <2>2, OverMoves DEF Create, machine, history
    <2> QED
      BY <2>1, <2>2
  <1>4. CASE StartContainer(c)
    <2>1. CASE docker /\ container.at # "none"
      <3>1. /\ container' = [container EXCEPT !.at = "running"] /\ Goes(c, "bolt") /\ q.at = "start"
            /\ UNCHANGED <<env, volume, proc, pidfile, agent, cli, docker, history>>
        BY <1>4, <2>1 DEF StartContainer
      <3>2. /\ DOMAIN container' = {"at", "password"} /\ container'.at = "running"
            /\ container'.password = container.password
        BY <1>2, <3>1
      <3> QED
        BY <1>1, <1>2, <2>1, <3>1, <3>2, ContainerMoves
    <2>2. CASE ~(docker /\ container.at # "none")
      BY <1>1, <1>4, <2>2, OverMoves DEF StartContainer, machine, history
    <2> QED
      BY <2>1, <2>2
  <1>5. CASE StopGraph(c)
    <2>1. /\ Goes(c, "end") /\ q.at = "graph"
          /\ container' = container \/ (container' = [container EXCEPT !.at = "exited"] /\ container.at = "running")
          /\ UNCHANGED <<env, volume, proc, pidfile, agent, cli, docker, history>>
      BY <1>5 DEF StopGraph, BoltOpen
    <2>2. /\ DOMAIN container' = {"at", "password"} /\ container'.password = container.password
          /\ container'.at = "none" <=> container.at = "none"
      BY <1>2, <2>1
    <2> QED
      BY <1>1, <1>2, <2>1, <2>2, ContainerMoves
  <1> QED
    BY <1>3, <1>4, <1>5

\* A server is to be started: there is none of the kind that anybody waits for.
LEMMA SpawnAhead ==
  ASSUME SetupInv, NEW c \in Commands, NEW s \in Services, NEW after \in {"api", "llm"}, ~settled,
         Becomes(c, [cmd[c] EXCEPT !.service = s, !.at = "spawn", !.next = after]),
         UNCHANGED <<machine, agent, cli, docker, history>>, cmd[c].at \in {"openknowledge", "api"}, ~PortOpen(s)
  PROVE  SetupInv'
  <1> DEFINE q == cmd[c]
             next == [q EXCEPT !.service = s, !.at = "spawn", !.next = after]
  <1>1. Active(c) /\ Becomes(c, next) /\ UNCHANGED <<overlap, removed, excused, stale, settled>>
    BY DEF Active, history
  <1>2. /\ overlap \/ \A d \in Commands : Active(d) => d = c
        /\ CommandKnown(q) /\ Tells(q) /\ DOMAIN q = Fields
    BY <1>1, AtWork
  <1>3. /\ DOMAIN next = Fields /\ next.at = "spawn" /\ next.kind = q.kind /\ next.next = after
        /\ next.env = q.env /\ next.lines = q.lines /\ next.service = s /\ next.graph = q.graph
    BY <1>2 DEF Fields
  <1> HIDE DEF next
  <1>4. CommandKnown(next)
    BY <1>2, <1>3 DEF CommandKnown, Working, Heads
  <1>5. UrlKnown(next) /\ (overlap \/ Agreed(next))
    BY <1>2, <1>3 DEF Tells, UrlKnown, Agreed, Outcome, Heads, Working
  <1>6. Tells(next)
    BY <1>2, <1>3, <1>5 DEF Tells, Heads
  <1>7. overlap \/ Alone(next)
    <2> SUFFICES ASSUME ~overlap, NEW p \in Pids, Serves(s, p) PROVE p \in excused
      BY <1>3 DEF Alone
    <2>1. proc[p].at = "booting"
      BY DEF PortOpen, Serves
    <2>2. ~ \E d \in Commands : cmd[d].at \in {"record", "wait"} /\ cmd[d].pid = p
      BY <1>2 DEF Active
    <2> QED
      BY <2>1, <2>2 DEF SetupInv, Named, Awaited
  <1> QED
    BY <1>1, <1>2, <1>3, <1>4, <1>6, <1>7, Thinks

LEMMA LookForMoves ==
  ASSUME SetupInv, NEW c \in Commands, LookForOpenKnowledge(c) \/ LookForApi(c)
  PROVE  SetupInv'
  <1> DEFINE q == cmd[c]
  <1>1. /\ q.at \in {"openknowledge", "api"} /\ UNCHANGED <<machine, agent, cli, docker, history>>
        /\ Active(c) /\ q.at \in Planning
    BY DEF LookForOpenKnowledge, LookForApi, Active, Planning
  <1>2. /\ CommandKnown(q) /\ Tells(q) /\ (settled => NothingToDo(q) /\ Up) /\ q.env.url = cli
        /\ cli \in BOOLEAN
    BY <1>1, AtWork DEF Tells, UrlKnown, Working
  <1>3. settled => PortOpen("api") /\ (cli => PortOpen("openknowledge"))
    BY <1>2 DEF Up, PortOpen
  <1>4. CASE LookForOpenKnowledge(c)
    <2> DEFINE after == IF q.kind = "up" THEN "api" ELSE "llm"
    <2>1. after \in {"api", "llm"}
      OBVIOUS
    <2>2. \/ (~q.env.url \/ PortOpen("openknowledge")) /\ Goes(c, after)
          \/ /\ ~(~q.env.url \/ PortOpen("openknowledge")) /\ cli
             /\ Becomes(c, [q EXCEPT !.service = "openknowledge", !.at = "spawn", !.next = after])
      BY <1>2, <1>4 DEF LookForOpenKnowledge
    <2> HIDE DEF after
    <2>3. CASE Goes(c, after)
      BY <1>1, <2>1, <2>3, GoesMoves
    <2>4. CASE /\ cli /\ ~PortOpen("openknowledge")
               /\ Becomes(c, [q EXCEPT !.service = "openknowledge", !.at = "spawn", !.next = after])
      BY <1>1, <1>3, <2>1, <2>4, SpawnAhead DEF Services
    <2> QED
      BY <2>2, <2>3, <2>4
  <1>5. CASE LookForApi(c)
    <2>1. CASE PortOpen("api")
      <3>1. Goes(c, "llm")
        BY <1>5, <2>1 DEF LookForApi
      <3> QED
        BY <1>1, <3>1, GoesMoves
    <2>2. CASE ~PortOpen("api")
      <3>1. Becomes(c, [q EXCEPT !.service = "api", !.at = "spawn", !.next = "llm"])
        BY <1>5, <2>2 DEF LookForApi
      <3> QED
        BY <1>1, <1>3, <2>2, <3>1, SpawnAhead DEF Services
    <2> QED
      BY <2>1, <2>2
  <1> QED
    BY <1>4, <1>5

LEMMA ServeMoves == ASSUME SetupInv, NEW c \in Commands, Serve(c) PROVE SetupInv'
  <1>1. /\ cmd[c].at = "serve" /\ UNCHANGED <<machine, agent, cli, docker, history>> /\ Active(c)
        /\ cmd[c].at \in Planning
    BY DEF Serve, Active, Planning
  <1>2. ~settled
    BY <1>1, AtWork DEF NothingToDo
  <1>3. CASE Over(c, "failed")
    BY <1>1, <1>3, OverMoves DEF history
  <1>4. CASE Goes(c, "serving")
    BY <1>1, <1>2, <1>4, GoesMoves
  <1> QED
    BY <1>3, <1>4 DEF Serve

LEMMA StartMoves == ASSUME SetupInv, NEW c \in Commands, Start(c) PROVE SetupInv'
  <1> DEFINE q == cmd[c]
             stage == CASE q.kind = "down" -> "check" [] q.kind = "connect" -> "hooks" [] OTHER -> "read"
             next == [q EXCEPT !.at = stage]
  <1>1. q.at = "idle" /\ Becomes(c, next) /\ UNCHANGED <<machine, agent, cli, docker, removed, excused, stale>>
    BY DEF Start, Goes, Becomes
  <1>2. /\ overlap => overlap'
        /\ overlap' \/ \A d \in Commands : Active(d) => d = c
        /\ settled' => settled /\ q.kind \in {"up", "deps"}
    BY DEF Start
  <1>3. CommandKnown(q) /\ DOMAIN q = Fields /\ q.graph = "none"
    BY <1>1, RestIsSafe DEF SetupInv, Known, CommandKnown
  <1>4. stage \in {"check", "hooks", "read"} /\ (q.kind \in {"up", "deps"} => stage = "read")
    OBVIOUS
  <1> HIDE DEF stage
  <1>5. /\ DOMAIN next = Fields /\ next.at = stage /\ next.kind = q.kind /\ next.next = q.next
        /\ next.env = q.env /\ next.lines = q.lines /\ next.service = q.service /\ next.pid = q.pid
        /\ next.graph = q.graph
    BY <1>3, GoesFields
  <1> HIDE DEF next
  <1>6. CommandKnown(next)
    BY <1>3, <1>4, <1>5 DEF CommandKnown, Heads
  <1>7. Tells(next)
    BY <1>3, <1>4, <1>5 DEF Tells, UrlKnown, Agreed, Heads, Working
  <1>8. settled' => NothingToDo(next) /\ InStep(next)
    BY <1>2, <1>4, <1>5 DEF NothingToDo, InStep
  <1> QED
    BY <1>1, <1>2, <1>4, <1>5, <1>6, <1>7, <1>8, Thinks

\* The end of an `up` that went well: there is nothing left to do.
LEMMA FinishMoves == ASSUME SetupInv, NEW c \in Commands, Finish(c) PROVE SetupInv'
  <1> DEFINE q == cmd[c]
  <1>1. /\ q.at = "end" /\ Active(c) /\ Over(c, "done") /\ settled' = (settled \/ WentWell(c))
        /\ UNCHANGED <<machine, agent, cli, docker, overlap, removed, excused, stale>>
    BY DEF Finish, Active
  <1>2. CASE settled \/ ~WentWell(c)
    BY <1>1, <1>2, OverMoves
  <1>3. CASE WentWell(c)
    <2>1. PICK next : next = [Idle(q.kind) EXCEPT !.at = "done"]
      OBVIOUS
    <2>2. Becomes(c, next) /\ CommandKnown(next) /\ Tells(next) /\ next.at = "done"
      BY <1>1, <2>1, RestFields DEF Over
    <2>3. /\ overlap \/ \A d \in Commands : Active(d) => d = c
          /\ Tells(q) /\ DOMAIN env = Names /\ cli \in BOOLEAN
      BY <1>1, AtWork
    <2>4. Known' /\ Database' /\ Named'
      BY <1>1, <2>2, <2>3, MachineStands
    <2>5. BackedUp'
      BY <1>1, <2>2, BackedUpMoves DEF SetupInv
    <2>6. Up
      <3>1. ~overlap /\ q.graph = "docker" /\ docker /\ container.at = "running"
        BY <1>3 DEF WentWell, BoltOpen
      <3>2. ~ \E d \in Commands : cmd[d].at = "serving"
        BY <1>1, <2>3, <3>1 DEF Active
      <3> QED
        BY <1>3, <3>1, <3>2 DEF Up, WentWell, PortOpen
    <2>7. \A d \in Commands : ~Active(d)'
      <3>1. \A d \in Commands : cmd'[d] = IF d = c THEN next ELSE cmd[d]
        BY <2>2, OneMoves DEF SetupInv
      <3> QED
        BY <1>3, <2>2, <2>3, <3>1 DEF Active, WentWell
    <2>8. EnvRight
      BY <1>1, <1>3, <2>3 DEF WentWell, BoltOpen, Tells, Agreed, UrlKnown, Outcome, EnvRight
    <2>9. Up' /\ EnvRight'
      BY <1>1, <2>6, <2>8 DEF Up, EnvRight, Runs, machine
    <2>10. EnvKept'
      BY <2>7, <2>9 DEF EnvKept, InStep, Active
    <2>11. Quiet'
      BY <2>7, <2>9, <2>10 DEF Quiet
    <2> QED
      BY <2>4, <2>5, <2>11 DEF SetupInv
  <1> QED
    BY <1>2, <1>3

-----------------------------------------------------------------------------
\* A command that has to do with processes goes on.
LEMMA ServersMove ==
  ASSUME SetupInv, NEW c \in Commands, Active(c), NEW next, Becomes(c, next), ~settled',
         UNCHANGED <<env, container, volume, agent, cli, overlap, removed>>,
         CommandKnown(next), Tells(next), next.at # "merge",
         proc' \in [Pids -> Process], pidfile' \in [Services -> Pids \cup {NoPid}],
         \A p \in Pids : proc'[p].at = "booting" => proc'[p].what \in Services,
         ServersAreFound', \A s \in Services : Right(s)', \A p \in Pids : Awaited(p)', overlap \/ Alone(next)'
  PROVE  SetupInv'
  <1>1. overlap \/ \A d \in Commands : Active(d) => d = c
    BY AtWork
  <1>2. Known'
    BY <1>1, KnownMoves DEF SetupInv, Known
  <1>3. BackedUp'
    BY BackedUpMoves DEF SetupInv
  <1>4. Database'
    <2>1. Tells(next)'
      BY DEF Tells, UrlKnown, Heads, Agreed, Outcome
    <2> QED
      BY <1>1, <2>1, DatabaseMoves DEF SetupInv, Database
  <1>5. Named'
    <2>1. ASSUME NEW d \in Commands, ~overlap
          PROVE  Alone(cmd[d])'
      <3>1. cmd'[d] = IF d = c THEN next ELSE cmd[d]
        BY OneMoves DEF SetupInv
      <3>2. CASE d = c
        <4>1. cmd'[d] = next
          BY <3>1, <3>2
        <4> QED
          BY <2>1, <4>1 DEF Alone
      <3>3. CASE d # c
        <4>1. PICK q : q = cmd[d]
          OBVIOUS
        <4>2. CommandKnown(q) /\ q.at \in {"idle", "done", "failed"}
          BY <1>1, <2>1, <3>3, <4>1 DEF SetupInv, Known, Active
        <4>3. Alone(q)' /\ cmd'[d] = q
          BY <3>1, <3>3, <4>1, <4>2, RestIsSafe
        <4> QED
          BY <4>3 DEF Alone
      <3> QED
        BY <3>2, <3>3
    <2> QED
      BY <2>1 DEF Named
  <1>6. Quiet'
    BY DEF Quiet
  <1> QED
    BY <1>2, <1>3, <1>4, <1>5, <1>6 DEF SetupInv

\* Where processes are handled the database has been dealt with.
LEMMA ToldAlready ==
  ASSUME NEW q, NEW next, Tells(q), CommandKnown(q), q.at \notin {"load", "save", "write"},
         next.at \notin {"load", "save", "write", "inspect", "create", "start", "bolt"},
         next.at \in Working => q.at \in Working,
         DOMAIN next = Fields, next.env = q.env, next.graph = q.graph
  PROVE  Tells(next)
  BY DEF Tells, UrlKnown, Agreed, Outcome, Heads

LEMMA SpawnMoves == ASSUME SetupInv, NEW c \in Commands, Spawn(c) PROVE SetupInv'
  <1> DEFINE q == cmd[c]
  <1>1. q.at = "spawn" /\ Active(c)
    BY DEF Spawn, Active
  <1>2. UNCHANGED <<env, container, volume, pidfile, agent, cli, docker, overlap, removed, excused, stale, settled>>
    BY DEF Spawn, history
  <1>3. /\ overlap \/ \A d \in Commands : Active(d) => d = c
        /\ CommandKnown(q) /\ Tells(q) /\ DOMAIN q = Fields /\ (overlap \/ Alone(q)) /\ ~settled
    BY <1>1, AtWork DEF NothingToDo
  <1>4. PICK p, next :
          /\ p \in Pids /\ ~Alive(p) /\ proc' = [proc EXCEPT ![p] = [what |-> q.service, at |-> "booting"]]
          /\ next = [q EXCEPT !.pid = p, !.at = "record"] /\ Becomes(c, next)
    BY DEF Spawn
  <1>5. /\ DOMAIN next = Fields /\ next.at = "record" /\ next.kind = q.kind /\ next.next = q.next
        /\ next.env = q.env /\ next.lines = q.lines /\ next.service = q.service /\ next.pid = p
        /\ next.graph = q.graph
    BY <1>3, <1>4 DEF Fields
  <1>6. q.service \in Services /\ CommandKnown(next)
    BY <1>1, <1>3, <1>4, <1>5 DEF CommandKnown, Working, Heads
  <1>7. Tells(next)
    BY <1>1, <1>3, <1>5, ToldAlready DEF Working
  <1>8. /\ proc \in [Pids -> Process] /\ pidfile \in [Services -> Pids \cup {NoPid}]
        /\ \A x \in Pids : proc[x].at = "booting" => proc[x].what \in Services
        /\ \A d \in Commands : cmd'[d] = IF d = c THEN next ELSE cmd[d]
    BY <1>4, OneMoves DEF SetupInv, Known
  <1>9. proc[p].what = "free" /\ p # NoPid
    BY <1>4, SetupAssumption DEF Alive, Runs
  <1>10. /\ proc' \in [Pids -> Process] /\ proc'[p].what = q.service /\ proc'[p].at = "booting"
         /\ \A x \in Pids : x # p => proc'[x] = proc[x]
    BY <1>4, <1>6, <1>8 DEF Process
  <1>11. ServersAreFound'
    <2> SUFFICES ASSUME NEW x \in Pids, proc'[x].what \in Services, proc'[x].at # "dying", ~overlap,
                        x \notin excused, pidfile[proc'[x].what] # x
                 PROVE  \E d \in Commands : cmd'[d].at = "record" /\ cmd'[d].pid = x
      BY <1>2 DEF ServersAreFound, Servers
    <2>1. CASE x = p
      BY <1>5, <1>8, <2>1
    <2>2. CASE x # p
      <3>1. PICK d \in Commands : cmd[d].at = "record" /\ cmd[d].pid = x
        BY <1>10, <2>2 DEF SetupInv, Named, ServersAreFound, Servers
      <3> QED
        BY <1>1, <1>8, <3>1
    <2> QED
      BY <2>1, <2>2
  <1>12. ASSUME NEW s \in Services
         PROVE  Right(s)'
    <2>1. Serves(s, pidfile[s]) /\ pidfile[s] # NoPid => Serves(s, pidfile[s])'
      BY <1>2, <1>8, <1>9, <1>10 DEF Serves, Runs, Services
    <2>2. \A d \in Commands : cmd[d].at = "unlink" => cmd'[d] = cmd[d]
      BY <1>1, <1>8
    <2> QED
      BY <1>2, <2>1, <2>2 DEF SetupInv, Named, Right
  <1>13. ASSUME NEW x \in Pids
         PROVE  Awaited(x)'
    <2>1. CASE x = p
      BY <1>5, <1>8, <2>1 DEF Awaited
    <2>2. CASE x # p
      <3>1. \A d \in Commands : cmd[d].at \in {"record", "wait"} => cmd'[d] = cmd[d]
        BY <1>1, <1>8
      <3> QED
        BY <1>2, <1>10, <2>2, <3>1 DEF SetupInv, Named, Awaited
    <2> QED
      BY <2>1, <2>2
  <1>14. overlap \/ Alone(next)'
    BY <1>1, <1>2, <1>3, <1>5, <1>10 DEF Alone, Serves, Runs
  <1> QED
    BY <1>1, <1>2, <1>3, <1>4, <1>5, <1>6, <1>7, <1>8, <1>10, <1>11, <1>12, <1>13, <1>14, ServersMove

LEMMA RecordMoves == ASSUME SetupInv, NEW c \in Commands, Record(c) PROVE SetupInv'
  <1> DEFINE q == cmd[c]
  <1>1. q.at = "record" /\ Active(c)
    BY DEF Record, Active
  <1>2. UNCHANGED <<env, container, volume, proc, agent, cli, docker, overlap, removed, excused, settled>>
    BY DEF Record
  <1>3. /\ overlap \/ \A d \in Commands : Active(d) => d = c
        /\ CommandKnown(q) /\ Tells(q) /\ DOMAIN q = Fields /\ (overlap \/ Alone(q)) /\ ~settled
    BY <1>1, AtWork DEF NothingToDo
  <1>4. PICK next : next = [q EXCEPT !.at = "wait"]
    OBVIOUS
  <1>5. /\ Becomes(c, next) /\ pidfile' = [pidfile EXCEPT ![q.service] = q.pid]
        /\ stale' = IF Runs(q.service, q.pid) THEN stale \ {q.service} ELSE stale \cup {q.service}
    BY <1>4 DEF Record, Goes, Becomes
  <1>6. /\ DOMAIN next = Fields /\ next.at = "wait" /\ next.kind = q.kind /\ next.next = q.next
        /\ next.env = q.env /\ next.lines = q.lines /\ next.service = q.service /\ next.pid = q.pid
        /\ next.graph = q.graph
    BY <1>3, <1>4, GoesFields
  <1>7. q.service \in Services /\ q.pid \in Pids /\ CommandKnown(next)
    BY <1>1, <1>3, <1>6 DEF CommandKnown, Working, Heads
  <1>8. Tells(next)
    BY <1>1, <1>3, <1>6, ToldAlready DEF Working
  <1>9. /\ proc \in [Pids -> Process] /\ pidfile \in [Services -> Pids \cup {NoPid}]
        /\ \A x \in Pids : proc[x].at = "booting" => proc[x].what \in Services
        /\ \A d \in Commands : cmd'[d] = IF d = c THEN next ELSE cmd[d]
    BY <1>5, OneMoves DEF SetupInv, Known
  <1>10. /\ pidfile' \in [Services -> Pids \cup {NoPid}] /\ pidfile'[q.service] = q.pid
         /\ \A s \in Services : s # q.service => pidfile'[s] = pidfile[s]
    BY <1>5, <1>7, <1>9
  <1>11. ServersAreFound'
    <2> SUFFICES ASSUME NEW x \in Pids, proc[x].what \in Services, proc[x].at # "dying", ~overlap,
                        x \notin excused, pidfile'[proc[x].what] # x
                 PROVE  FALSE
      BY <1>2 DEF ServersAreFound, Servers
    <2>1. CASE proc[x].what = q.service
      <3>1. Serves(q.service, x)
        BY <2>1 DEF Serves, Runs
      <3> QED
        BY <1>1, <1>3, <1>10, <2>1, <3>1 DEF Alone
    <2>2. CASE proc[x].what # q.service
      <3>1. pidfile[proc[x].what] # x
        BY <1>10, <2>2
      <3>2. PICK d \in Commands : cmd[d].at = "record" /\ cmd[d].pid = x
        BY <3>1 DEF SetupInv, Named, ServersAreFound, Servers
      <3>3. d = c
        BY <1>3, <3>2 DEF Active
      <3> QED
        BY <1>1, <1>3, <2>2, <3>2, <3>3 DEF Alone, Runs
    <2> QED
      BY <2>1, <2>2
  <1>12. ASSUME NEW s \in Services
         PROVE  Right(s)'
    <2>1. CASE s = q.service
      <3>1. Runs(s, q.pid) => overlap \/ Serves(s, q.pid)
        BY <1>1, <1>3, <2>1 DEF Alone
      <3> QED
        BY <1>2, <1>5, <1>10, <2>1, <3>1 DEF Right, Serves, Runs
    <2>2. CASE s # q.service
      <3>1. \A d \in Commands : cmd[d].at = "unlink" => cmd'[d] = cmd[d]
        BY <1>1, <1>9
      <3>2. s \in stale => s \in stale'
        BY <1>5, <2>2
      <3> QED
        BY <1>2, <1>10, <2>2, <3>1, <3>2 DEF SetupInv, Named, Right, Serves, Runs
    <2> QED
      BY <2>1, <2>2
  <1>13. ASSUME NEW x \in Pids
         PROVE  Awaited(x)'
    <2>1. \A d \in Commands : cmd[d].at \in {"record", "wait"} =>
            cmd'[d].at \in {"record", "wait"} /\ cmd'[d].pid = cmd[d].pid
      BY <1>6, <1>9
    <2> QED
      BY <1>2, <2>1 DEF SetupInv, Named, Awaited
  <1>14. overlap \/ Alone(next)'
    BY <1>1, <1>2, <1>3, <1>6 DEF Alone, Serves, Runs
  <1> QED
    BY <1>1, <1>2, <1>3, <1>5, <1>6, <1>7, <1>8, <1>9, <1>10, <1>11, <1>12, <1>13, <1>14, ServersMove

\* A command leaves a server to itself, which is excused should it still be starting.
LEMMA LeavesServer ==
  ASSUME SetupInv, NEW c \in Commands, cmd[c].at \in {"record", "wait"}, NEW next, Becomes(c, next),
         UNCHANGED <<env, container, volume, proc, pidfile, agent, cli, overlap, removed>>, ~settled',
         CommandKnown(next), Tells(next), next.at \in {"api", "llm", "failed"}, stale \subseteq stale',
         excused \subseteq excused',
         Runs(cmd[c].service, cmd[c].pid) /\ (cmd[c].at = "record" \/ proc[cmd[c].pid].at = "booting")
            => cmd[c].pid \in excused'
  PROVE  SetupInv'
  <1> DEFINE q == cmd[c]
  <1>1. Active(c)
    BY DEF Active
  <1>2. /\ overlap \/ \A d \in Commands : Active(d) => d = c
        /\ CommandKnown(q) /\ (overlap \/ Alone(q)) /\ q.pid \in Pids
    BY <1>1, AtWork DEF CommandKnown
  <1>3. /\ proc \in [Pids -> Process] /\ pidfile \in [Services -> Pids \cup {NoPid}]
        /\ \A x \in Pids : proc[x].at = "booting" => proc[x].what \in Services
        /\ \A d \in Commands : cmd'[d] = IF d = c THEN next ELSE cmd[d]
    BY OneMoves DEF SetupInv, Known
  <1>4. ServersAreFound'
    <2> SUFFICES ASSUME NEW x \in Pids, proc[x].what \in Services, proc[x].at # "dying", ~overlap,
                        x \notin excused', pidfile[proc[x].what] # x
                 PROVE  FALSE
      BY DEF ServersAreFound, Servers
    <2>1. PICK d \in Commands : cmd[d].at = "record" /\ cmd[d].pid = x
      BY DEF SetupInv, Named, ServersAreFound, Servers
    <2>2. d = c
      BY <1>2, <2>1 DEF Active
    <2>3. Runs(q.service, x)
      BY <1>2, <2>1, <2>2 DEF Alone, Runs
    <2> QED
      BY <2>1, <2>2, <2>3
  <1>5. ASSUME NEW s \in Services
        PROVE  Right(s)'
    BY <1>3 DEF SetupInv, Named, Right, Serves, Runs
  <1>6. ASSUME NEW x \in Pids
        PROVE  Awaited(x)'
    <2> SUFFICES ASSUME proc[x].at = "booting", ~overlap, x \notin excused'
                 PROVE  FALSE
      BY DEF Awaited
    <2>1. PICK d \in Commands : cmd[d].at \in {"record", "wait"} /\ cmd[d].pid = x
      BY DEF SetupInv, Named, Awaited
    <2>2. d = c
      BY <1>2, <2>1 DEF Active
    <2>3. Runs(q.service, x)
      BY <1>2, <1>3, <2>1, <2>2 DEF Alone, Runs
    <2> QED
      BY <2>1, <2>2, <2>3
  <1>7. Alone(next)'
    BY DEF Alone
  <1> QED
    BY <1>1, <1>3, <1>4, <1>5, <1>6, <1>7, ServersMove

LEMMA WaitMoves == ASSUME SetupInv, NEW c \in Commands, Wait(c) PROVE SetupInv'
  <1> DEFINE q == cmd[c]
             gone == ~Runs(q.service, q.pid)
  <1>1. q.at = "wait" /\ Active(c)
    BY DEF Wait, Active
  <1>2. /\ UNCHANGED <<machine, agent, cli, docker, overlap, removed, stale, settled>>
        /\ excused' = IF ~gone /\ proc[q.pid].at = "booting" THEN excused \cup {q.pid} ELSE excused
    BY DEF Wait
  <1>3. CommandKnown(q) /\ Tells(q) /\ DOMAIN q = Fields /\ ~settled
    BY <1>1, AtWork DEF NothingToDo
  <1>4. PICK late, next : next = [q EXCEPT !.at = q.next, !.pid = NoPid, !.late = late] /\ Becomes(c, next)
    BY DEF Wait
  <1>5. /\ DOMAIN next = Fields /\ next.at = q.next /\ next.next = q.next
        /\ next.env = q.env /\ next.service = q.service /\ next.graph = q.graph
    BY <1>3, <1>4 DEF Fields
  <1>6. q.next \in {"api", "llm"} /\ CommandKnown(next)
    BY <1>1, <1>3, <1>5 DEF CommandKnown, Working, Heads
  <1>7. Tells(next)
    BY <1>1, <1>3, <1>5, <1>6, ToldAlready DEF Working
  <1> QED
    BY <1>1, <1>2, <1>3, <1>4, <1>5, <1>6, <1>7, LeavesServer DEF machine

\* `down` finds the server of a pid file alive, or not.
LEMMA CheckMoves == ASSUME SetupInv, NEW c \in Commands, Check(c) PROVE SetupInv'
  <1> DEFINE q == cmd[c]
             s == q.service
             p == pidfile[s]
  <1>1. /\ q.at = "check" /\ Active(c) /\ UNCHANGED <<machine, agent, cli, docker, history>>
        /\ UNCHANGED <<overlap, removed, excused, stale, settled>>
    BY DEF Check, Active, history
  <1>2. /\ CommandKnown(q) /\ Tells(q) /\ DOMAIN q = Fields /\ ~settled /\ s \in Services
        /\ overlap \/ \A d \in Commands : Active(d) => d = c
    BY <1>1, AtWork DEF NothingToDo, CommandKnown
  <1>3. /\ proc \in [Pids -> Process] /\ pidfile \in [Services -> Pids \cup {NoPid}]
        /\ \A x \in Pids : proc[x].at = "booting" => proc[x].what \in Services
    BY DEF SetupInv, Known
  <1>4. CASE Alive(p)
    <2>1. PICK next : next = [q EXCEPT !.pid = p, !.at = "kill"] /\ Becomes(c, next)
      BY <1>4 DEF Check
    <2>2. /\ DOMAIN next = Fields /\ next.at = "kill" /\ next.env = q.env /\ next.service = s
          /\ next.graph = q.graph /\ next.pid = p /\ p \in Pids
      BY <1>2, <1>3, <1>4, <2>1 DEF Fields, Alive
    <2>3. CommandKnown(next)
      BY <1>1, <1>2, <2>2 DEF CommandKnown, Working, Heads
    <2>4. Tells(next)
      BY <1>1, <1>2, <2>2, ToldAlready DEF Working
    <2>5. Alone(next)
      BY <2>2 DEF Alone
    <2> QED
      BY <1>1, <1>2, <2>1, <2>2, <2>3, <2>4, <2>5, Thinks
  <1>5. CASE ~Alive(p)
    <2>1. PICK next : next = [q EXCEPT !.at = "unlink"] /\ Becomes(c, next)
      BY <1>5 DEF Check, Goes, Becomes
    <2>2. /\ DOMAIN next = Fields /\ next.at = "unlink" /\ next.env = q.env /\ next.service = s
          /\ next.graph = q.graph
      BY <1>2, <2>1, GoesFields
    <2>3. CommandKnown(next)
      BY <1>1, <1>2, <2>2 DEF CommandKnown, Working, Heads
    <2>4. Tells(next)
      BY <1>1, <1>2, <2>2, ToldAlready DEF Working
    <2>5. \A d \in Commands : cmd'[d] = IF d = c THEN next ELSE cmd[d]
      BY <2>1, OneMoves DEF SetupInv
    <2>6. ServersAreFound'
      <3> SUFFICES ASSUME NEW x \in Pids, proc[x].what \in Services, proc[x].at # "dying", ~overlap,
                          x \notin excused, pidfile[proc[x].what] # x
                   PROVE  \E d \in Commands : cmd'[d].at = "record" /\ cmd'[d].pid = x
        BY <1>1 DEF ServersAreFound, Servers, machine
      <3>1. PICK d \in Commands : cmd[d].at = "record" /\ cmd[d].pid = x
        BY DEF SetupInv, Named, ServersAreFound, Servers
      <3> QED
        BY <1>1, <2>5, <3>1
    <2>7. ASSUME NEW t \in Services
          PROVE  Right(t)'
      <3>1. \A d \in Commands : cmd[d].at = "unlink" => cmd'[d] = cmd[d]
        BY <1>1, <2>5
      <3> QED
        BY <1>1, <3>1 DEF SetupInv, Named, Right, Serves, Runs, machine
    <2>8. ASSUME NEW x \in Pids
          PROVE  Awaited(x)'
      <3>1. \A d \in Commands : cmd[d].at \in {"record", "wait"} => cmd'[d] = cmd[d]
        BY <1>1, <2>5
      <3> QED
        BY <1>1, <3>1 DEF SetupInv, Named, Awaited, machine
    <2>9. p \in Pids => ~Serves(s, p)
      BY <1>2, <1>5, SetupAssumption DEF Alive, Serves, Runs, Services
    <2>10. Alone(next)'
      BY <1>1, <2>2, <2>9 DEF Alone, Serves, Runs, machine
    <2> QED
      BY <1>1, <1>2, <1>3, <2>1, <2>2, <2>3, <2>4, <2>6, <2>7, <2>8, <2>10, ServersMove DEF machine
  <1> QED
    BY <1>4, <1>5

LEMMA KillMoves == ASSUME SetupInv, NEW c \in Commands, Kill(c) PROVE SetupInv'
  <1> DEFINE q == cmd[c]
             s == q.service
             p == q.pid
  <1>1. q.at = "kill" /\ Active(c)
    BY DEF Kill, Active
  <1>2. UNCHANGED <<env, container, volume, pidfile, agent, cli, docker, overlap, removed, excused, settled>>
    BY DEF Kill
  <1>3. /\ CommandKnown(q) /\ Tells(q) /\ DOMAIN q = Fields /\ ~settled /\ s \in Services
        /\ p \in Pids /\ (overlap \/ pidfile[s] = p)
    BY <1>1, AtWork DEF NothingToDo, CommandKnown, Alone
  <1>4. CASE Over(c, "failed") /\ UNCHANGED <<proc, stale>>
    BY <1>1, <1>2, <1>4, OverMoves DEF machine
  <1>5. CASE /\ proc' = [proc EXCEPT ![p].at = "dying"]
             /\ stale' = stale \cup {t \in Services \ {s} : pidfile[t] = p}
             /\ Becomes(c, [q EXCEPT !.pid = NoPid, !.at = "unlink"])
    <2>1. PICK next : next = [q EXCEPT !.pid = NoPid, !.at = "unlink"] /\ Becomes(c, next)
      BY <1>5
    <2>2. /\ DOMAIN next = Fields /\ next.at = "unlink" /\ next.env = q.env /\ next.service = s
          /\ next.graph = q.graph
      BY <1>3, <2>1 DEF Fields
    <2>3. CommandKnown(next)
      BY <1>1, <1>3, <2>2 DEF CommandKnown, Working, Heads
    <2>4. Tells(next)
      BY <1>1, <1>3, <2>2, ToldAlready DEF Working
    <2>5. /\ proc \in [Pids -> Process] /\ pidfile \in [Services -> Pids \cup {NoPid}]
          /\ \A x \in Pids : proc[x].at = "booting" => proc[x].what \in Services
          /\ \A d \in Commands : cmd'[d] = IF d = c THEN next ELSE cmd[d]
      BY <2>1, OneMoves DEF SetupInv, Known
    <2>6. /\ proc' \in [Pids -> Process]
          /\ \A x \in Pids : proc'[x] = proc[x] \/ (x = p /\ proc'[x].what = proc[x].what /\ proc'[x].at = "dying")
      BY <1>5, <2>5 DEF Process
    <2>7. proc'[p].at = "dying"
      <3>1. proc'[p] = [proc[p] EXCEPT !.at = "dying"] /\ proc[p] \in Process
        BY <1>3, <1>5, <2>5
      <3> QED
        BY <3>1 DEF Process
    <2>8. ServersAreFound'
      <3> SUFFICES ASSUME NEW x \in Pids, proc'[x].what \in Services, proc'[x].at # "dying", ~overlap,
                          x \notin excused, pidfile[proc'[x].what] # x
                   PROVE  \E d \in Commands : cmd'[d].at = "record" /\ cmd'[d].pid = x
        BY <1>2 DEF ServersAreFound, Servers
      <3>1. PICK d \in Commands : cmd[d].at = "record" /\ cmd[d].pid = x
        BY <2>6 DEF SetupInv, Named, ServersAreFound, Servers
      <3> QED
        BY <1>1, <2>5, <3>1
    <2>9. ASSUME NEW t \in Services
          PROVE  Right(t)'
      <3>1. CASE t = s
        BY <2>2, <2>5, <3>1 DEF Right
      <3>2. CASE t # s
        <4>1. Serves(t, pidfile[t]) /\ pidfile[t] # NoPid => Serves(t, pidfile[t])' \/ t \in stale'
          BY <1>2, <1>5, <2>5, <2>6, <3>2 DEF Serves, Runs
        <4>2. \A d \in Commands : cmd[d].at = "unlink" => cmd'[d] = cmd[d]
          BY <1>1, <2>5
        <4>3. t \in stale => t \in stale'
          BY <1>5
        <4> QED
          BY <1>2, <4>1, <4>2, <4>3 DEF SetupInv, Named, Right
      <3> QED
        BY <3>1, <3>2
    <2>10. ASSUME NEW x \in Pids
           PROVE  Awaited(x)'
      <3>1. \A d \in Commands : cmd[d].at \in {"record", "wait"} => cmd'[d] = cmd[d]
        BY <1>1, <2>5
      <3> QED
        BY <1>2, <2>6, <3>1 DEF SetupInv, Named, Awaited
    <2>11. overlap \/ Alone(next)'
      BY <1>2, <1>3, <2>2, <2>7 DEF Alone, Serves, Runs
    <2> QED
      BY <1>1, <1>2, <1>3, <2>1, <2>2, <2>3, <2>4, <2>5, <2>6, <2>8, <2>9, <2>10, <2>11, ServersMove
  <1> QED
    BY <1>4, <1>5 DEF Kill

LEMMA UnlinkMoves == ASSUME SetupInv, NEW c \in Commands, Unlink(c) PROVE SetupInv'
  <1> DEFINE q == cmd[c]
             s == q.service
  <1>1. q.at = "unlink" /\ Active(c)
    BY DEF Unlink, Active
  <1>2. /\ UNCHANGED <<env, container, volume, proc, agent, cli, docker, overlap, removed, excused, settled>>
        /\ pidfile' = [pidfile EXCEPT ![s] = NoPid] /\ stale' = stale \ {s}
    BY DEF Unlink
  <1>3. /\ CommandKnown(q) /\ Tells(q) /\ DOMAIN q = Fields /\ ~settled /\ s \in Services
        /\ (overlap \/ Alone(q))
    BY <1>1, AtWork DEF NothingToDo, CommandKnown
  <1>4. PICK next : /\ Becomes(c, next)
                    /\ next = IF s = "api" THEN [q EXCEPT !.service = "openknowledge", !.at = "check"]
                                           ELSE [q EXCEPT !.at = "graph"]
    BY DEF Unlink
  <1>5. /\ DOMAIN next = Fields /\ next.at \in {"check", "graph"} /\ next.env = q.env
        /\ next.graph = q.graph /\ next.service \in Services
    BY <1>3, <1>4 DEF Fields, Services
  <1>6. CommandKnown(next)
    BY <1>1, <1>3, <1>5 DEF CommandKnown, Working, Heads
  <1>7. Tells(next)
    BY <1>1, <1>3, <1>5, ToldAlready DEF Working
  <1>8. /\ proc \in [Pids -> Process] /\ pidfile \in [Services -> Pids \cup {NoPid}]
        /\ \A x \in Pids : proc[x].at = "booting" => proc[x].what \in Services
        /\ \A d \in Commands : cmd'[d] = IF d = c THEN next ELSE cmd[d]
    BY <1>4, OneMoves DEF SetupInv, Known
  <1>9. /\ pidfile' \in [Services -> Pids \cup {NoPid}] /\ pidfile'[s] = NoPid
        /\ \A t \in Services : t # s => pidfile'[t] = pidfile[t]
    BY <1>2, <1>3, <1>8
  <1>10. ServersAreFound'
    <2> SUFFICES ASSUME NEW x \in Pids, proc[x].what \in Services, proc[x].at # "dying", ~overlap,
                        x \notin excused, pidfile'[proc[x].what] # x
                 PROVE  \E d \in Commands : cmd'[d].at = "record" /\ cmd'[d].pid = x
      BY <1>2 DEF ServersAreFound, Servers
    <2>1. pidfile[proc[x].what] # x
      BY <1>1, <1>3, <1>9 DEF Alone, Serves, Runs
    <2>2. PICK d \in Commands : cmd[d].at = "record" /\ cmd[d].pid = x
      BY <2>1 DEF SetupInv, Named, ServersAreFound, Servers
    <2> QED
      BY <1>1, <1>8, <2>2
  <1>11. ASSUME NEW t \in Services
         PROVE  Right(t)'
    <2>1. CASE t = s
      BY <1>9, <2>1 DEF Right
    <2>2. CASE t # s
      <3>1. \A d \in Commands : cmd[d].at = "unlink" /\ cmd[d].service = t => cmd'[d] = cmd[d]
        BY <1>8, <2>2
      <3> QED
        BY <1>2, <1>9, <2>2, <3>1 DEF SetupInv, Named, Right, Serves, Runs
    <2> QED
      BY <2>1, <2>2
  <1>12. ASSUME NEW x \in Pids
         PROVE  Awaited(x)'
    <2>1. \A d \in Commands : cmd[d].at \in {"record", "wait"} => cmd'[d] = cmd[d]
      BY <1>1, <1>8
    <2> QED
      BY <1>2, <2>1 DEF SetupInv, Named, Awaited
  <1>13. Alone(next)'
    BY <1>5 DEF Alone
  <1> QED
    BY <1>1, <1>2, <1>3, <1>4, <1>5, <1>6, <1>7, <1>8, <1>9, <1>10, <1>11, <1>12, <1>13, ServersMove

LEMMA InterruptMoves == ASSUME SetupInv, NEW c \in Commands, Interrupt(c) PROVE SetupInv'
  <1> DEFINE q == cmd[c]
  <1>1. /\ Active(c) /\ ~settled' /\ UNCHANGED <<machine, agent, cli, docker, overlap, removed>>
        /\ excused' = IF q.at \in {"record", "wait"} /\ Runs(q.service, q.pid) THEN excused \cup {q.pid} ELSE excused
        /\ stale' = IF q.at = "unlink" THEN stale \cup {q.service} ELSE stale
    BY DEF Interrupt
  <1>2. PICK next : next = [Idle(q.kind) EXCEPT !.at = "failed"]
    OBVIOUS
  <1>3. Becomes(c, next) /\ CommandKnown(next) /\ Tells(next) /\ next.at = "failed"
    BY <1>2, RestFields DEF Interrupt, Over
  <1>4. CASE q.at \in {"record", "wait"}
    BY <1>1, <1>3, <1>4, LeavesServer DEF machine
  <1>5. CASE q.at = "unlink"
    <2>1. /\ proc \in [Pids -> Process] /\ pidfile \in [Services -> Pids \cup {NoPid}]
          /\ \A x \in Pids : proc[x].at = "booting" => proc[x].what \in Services
          /\ \A d \in Commands : cmd'[d] = IF d = c THEN next ELSE cmd[d]
      BY <1>3, OneMoves DEF SetupInv, Known
    <2>2. ServersAreFound'
      <3> SUFFICES ASSUME NEW x \in Pids, proc[x].what \in Services, proc[x].at # "dying", ~overlap,
                          x \notin excused, pidfile[proc[x].what] # x
                   PROVE  \E d \in Commands : cmd'[d].at = "record" /\ cmd'[d].pid = x
        BY <1>1, <1>5 DEF ServersAreFound, Servers, machine
      <3>1. PICK d \in Commands : cmd[d].at = "record" /\ cmd[d].pid = x
        BY DEF SetupInv, Named, ServersAreFound, Servers
      <3> QED
        BY <1>5, <2>1, <3>1
    <2>3. ASSUME NEW t \in Services
          PROVE  Right(t)'
      <3>1. \A d \in Commands : cmd[d].at = "unlink" /\ cmd[d].service = t => cmd'[d] = cmd[d] \/ t \in stale'
        BY <1>1, <1>5, <2>1
      <3> QED
        BY <1>1, <1>5, <3>1 DEF SetupInv, Named, Right, Serves, Runs, machine
    <2>4. ASSUME NEW x \in Pids
          PROVE  Awaited(x)'
      <3>1. \A d \in Commands : cmd[d].at \in {"record", "wait"} => cmd'[d] = cmd[d]
        BY <1>5, <2>1
      <3> QED
        BY <1>1, <1>5, <3>1 DEF SetupInv, Named, Awaited, machine
    <2>5. Alone(next)'
      BY <1>3 DEF Alone
    <2> QED
      BY <1>1, <1>3, <2>1, <2>2, <2>3, <2>4, <2>5, ServersMove DEF machine
  <1>6. CASE q.at \notin {"record", "wait", "unlink"}
    BY <1>1, <1>6, OverMoves DEF Interrupt
  <1> QED
    BY <1>4, <1>5, <1>6

-----------------------------------------------------------------------------
\* A process goes on: a server opens its port, or the process is no server any more.
LEMMA ProcessMoves ==
  ASSUME SetupInv, NEW p \in Pids, NEW now \in Process, proc' = [proc EXCEPT ![p] = now],
         UNCHANGED <<env, container, volume, pidfile, agent, cli, docker, cmd, overlap, removed>>,
         \/ /\ proc[p].at = "booting" /\ now.at = "listening" /\ now.what = proc[p].what
            /\ UNCHANGED <<excused, stale, settled>>
         \/ /\ now.what \notin Services /\ now.at # "booting"
            /\ excused \subseteq excused' \cup {p} /\ stale \subseteq stale'
            /\ \A s \in Services : pidfile[s] = p /\ Serves(s, p) => s \in stale'
            /\ settled' => settled /\ proc[p].what \notin Services
  PROVE  SetupInv'
  <1>1. /\ proc \in [Pids -> Process] /\ pidfile \in [Services -> Pids \cup {NoPid}]
        /\ \A x \in Pids : proc[x].at = "booting" => proc[x].what \in Services
    BY DEF SetupInv, Known
  <1>2. /\ proc' \in [Pids -> Process] /\ proc'[p] = now
        /\ \A x \in Pids : x # p => proc'[x] = proc[x]
    BY <1>1
  <1>3. \A x \in Pids, s \in Services : Serves(s, x)' =>
            Serves(s, x) /\ (x # p \/ UNCHANGED <<excused, stale>>)
    BY <1>1, <1>2 DEF Serves, Runs
  <1>4. \A s \in Services : pidfile[s] # NoPid /\ Serves(s, pidfile[s]) => Serves(s, pidfile[s])' \/ s \in stale'
    BY <1>1, <1>2 DEF Serves, Runs
  <1>5. Known'
    BY <1>1, <1>2 DEF SetupInv, Known, Active
  <1>6. BackedUp'
    BY DEF SetupInv, BackedUp, agent
  <1>7. Database'
    BY DEF SetupInv, Database, UrlKnown, Agreed, Outcome, Heads
  <1>8. ServersAreFound'
    <2> SUFFICES ASSUME NEW x \in Pids, proc'[x].what \in Services, proc'[x].at # "dying", ~overlap,
                        x \notin excused', pidfile[proc'[x].what] # x
                 PROVE  \E d \in Commands : cmd[d].at = "record" /\ cmd[d].pid = x
      BY DEF ServersAreFound, Servers
    <2>1. x \notin excused /\ proc[x].what = proc'[x].what /\ proc[x].at # "dying"
      BY <1>2
    <2> QED
      BY <2>1 DEF SetupInv, Named, ServersAreFound, Servers
  <1>9. ASSUME NEW s \in Services
        PROVE  Right(s)'
    <2>1. s \in stale => s \in stale'
      OBVIOUS
    <2> QED
      BY <1>4, <2>1 DEF SetupInv, Named, Right
  <1>10. ASSUME NEW x \in Pids
         PROVE  Awaited(x)'
    <2>1. proc'[x].at = "booting" => x # p
      BY <1>2
    <2> QED
      BY <1>2, <2>1 DEF SetupInv, Named, Awaited
  <1>11. ASSUME NEW d \in Commands, ~overlap
         PROVE  Alone(cmd[d])'
    <2>1. PICK q : q = cmd[d]
      OBVIOUS
    <2>2. Alone(q) /\ CommandKnown(q)
      BY <1>11, <2>1 DEF SetupInv, Named, Known
    <2>3. ASSUME q.at \in {"record", "wait"}, NEW s \in Services, Runs(s, q.pid)'
          PROVE  s = q.service /\ Serves(s, q.pid)'
      <3>1. q.pid \in Pids /\ Runs(s, q.pid)
        BY <1>2, <2>2, <2>3 DEF CommandKnown, Runs
      <3> QED
        BY <1>2, <2>2, <2>3, <3>1 DEF Alone, Serves, Runs
    <2>4. ASSUME q.at \in {"spawn", "record"}, NEW x \in Pids, Serves(q.service, x)'
          PROVE  x \in excused' \/ (q.at = "record" /\ x = q.pid)
      <3>1. q.service \in Services
        BY <2>2 DEF CommandKnown
      <3> QED
        BY <1>3, <2>2, <2>4, <3>1 DEF Alone
    <2>5. ASSUME q.at = "unlink", NEW x \in Pids, pidfile[q.service] = x
          PROVE  ~Serves(q.service, x)'
      <3>1. q.service \in Services
        BY <2>2 DEF CommandKnown
      <3> QED
        BY <1>3, <2>2, <2>5, <3>1 DEF Alone
    <2>6. (q.at = "kill" => pidfile[q.service] = q.pid)'
      BY <2>2 DEF Alone
    <2>7. Alone(q)'
      BY <2>3, <2>4, <2>5, <2>6 DEF Alone
    <2> QED
      BY <2>1, <2>7 DEF Alone
  <1>12. Named'
    BY <1>8, <1>9, <1>10, <1>11 DEF Named
  <1>13. Quiet'
    <2> SUFFICES ASSUME settled' PROVE Quiet'
      BY DEF Quiet
    <2>1. settled /\ Up /\ proc[p].what \notin Services
      BY <1>1 DEF SetupInv, Quiet, Up
    <2>2. \A s \in Services : (\E x \in Pids : Runs(s, x)) => \E x \in Pids : Runs(s, x)'
      BY <1>2, <2>1 DEF Runs
    <2>3. \A x \in Pids : proc'[x].at # "booting"
      BY <1>2, <2>1 DEF Up
    <2>4. Up'
      BY <2>1, <2>2, <2>3 DEF Up, Services
    <2>5. \A d \in Commands : Active(d)' => NothingToDo(cmd[d])'
      BY <2>1 DEF SetupInv, Quiet, Active, NothingToDo
    <2>6. overlap \/ EnvKept'
      BY <2>1 DEF SetupInv, Quiet, EnvKept, EnvRight, InStep
    <2> QED
      BY <2>4, <2>5, <2>6 DEF Quiet
  <1> QED
    BY <1>5, <1>6, <1>7, <1>12, <1>13 DEF SetupInv

LEMMA ProcessesMove ==
  ASSUME SetupInv, NEW p \in Pids, Boot(p) \/ Exit(p) \/ Reuse(p)
  PROVE  SetupInv'
  <1>1. /\ proc \in [Pids -> Process] /\ proc[p] \in Process
        /\ proc[p].at = "booting" => proc[p].what \in Services
    BY DEF SetupInv, Known
  <1>2. Free \in Process /\ Free.what \notin Services /\ Free.at # "booting"
    BY DEF Free, Process, Services
  <1>3. CASE Boot(p)
    <2>1. proc[p].at = "booting"
      BY <1>3 DEF Boot
    <2>2. CASE PortOpen(proc[p].what)
      <3>1. /\ proc' = [proc EXCEPT ![p] = Free] /\ excused' = excused \ {p} /\ settled' = FALSE
            /\ stale' = stale \cup {s \in Services : pidfile[s] = p}
        BY <1>3, <2>2 DEF Boot, Ended
      <3> QED
        BY <1>2, <1>3, <3>1, ProcessMoves DEF Boot
    <2>3. CASE ~PortOpen(proc[p].what)
      <3>1. proc' = [proc EXCEPT ![p].at = "listening"] /\ UNCHANGED <<excused, stale, settled>>
        BY <1>3, <2>3 DEF Boot
      <3>2. PICK now : now = [proc[p] EXCEPT !.at = "listening"]
        OBVIOUS
      <3>3. now \in Process /\ now.at = "listening" /\ now.what = proc[p].what
        BY <1>1, <3>2 DEF Process
      <3> QED
        BY <1>3, <2>1, <3>1, <3>2, <3>3, ProcessMoves DEF Boot
    <2> QED
      BY <2>2, <2>3
  <1>4. CASE Exit(p)
    <2>1. /\ proc' = [proc EXCEPT ![p] = Free] /\ excused' = excused \ {p} /\ settled' = FALSE
          /\ stale' = IF proc[p].at = "dying" THEN stale ELSE stale \cup {s \in Services : pidfile[s] = p}
      BY <1>4 DEF Exit, Ended
    <2>2. \A s \in Services : pidfile[s] = p /\ Serves(s, p) => s \in stale'
      BY <2>1 DEF Serves
    <2> QED
      BY <1>2, <1>4, <2>1, <2>2, ProcessMoves DEF Exit
  <1>5. CASE Reuse(p)
    <2>1. /\ ~Alive(p) /\ proc' = [proc EXCEPT ![p] = [what |-> "foreign", at |-> "listening"]]
          /\ UNCHANGED <<excused, stale, settled>>
      BY <1>5 DEF Reuse, history
    <2>2. proc[p].what = "free"
      BY <2>1, SetupAssumption DEF Alive, Runs
    <2>3. PICK now : now = [what |-> "foreign", at |-> "listening"]
      OBVIOUS
    <2>4. now \in Process /\ now.what \notin Services /\ now.at # "booting"
      BY <2>3 DEF Process, Services
    <2>5. \A s \in Services : ~Serves(s, p)
      BY <2>2 DEF Serves, Runs, Services
    <2>6. UNCHANGED <<env, container, volume, pidfile, agent, cli, docker, cmd, overlap, removed>>
      BY <1>5 DEF Reuse, history
    <2>7. proc[p].what \notin Services /\ proc' = [proc EXCEPT ![p] = now]
      BY <2>1, <2>2, <2>3 DEF Services
    <2> QED
      BY <2>1, <2>4, <2>5, <2>6, <2>7, ProcessMoves
  <1> QED
    BY <1>3, <1>4, <1>5

-----------------------------------------------------------------------------
LEMMA AppendedRange ==
  ASSUME NEW S, NEW s \in Seq(S), NEW x \in S
  PROVE  Append(s, x) \in Seq(S) /\ Range(Append(s, x)) = Range(s) \cup {x}
  <1>1. /\ Append(s, x) \in Seq(S) /\ DOMAIN Append(s, x) = 1..(Len(s) + 1) /\ Len(s) \in Nat
        /\ DOMAIN s = 1..Len(s) /\ Append(s, x)[Len(s) + 1] = x
        /\ \A i \in 1..Len(s) : Append(s, x)[i] = s[i]
    OBVIOUS
  <1>2. Range(Append(s, x)) \subseteq Range(s) \cup {x}
    <2> SUFFICES ASSUME NEW i \in 1..(Len(s) + 1) PROVE Append(s, x)[i] \in Range(s) \cup {x}
      BY <1>1 DEF Range
    <2>1. i \in 1..Len(s) \/ i = Len(s) + 1
      BY <1>1
    <2> QED
      BY <1>1, <2>1 DEF Range
  <1>3. Range(s) \cup {x} \subseteq Range(Append(s, x))
    <2>1. x \in Range(Append(s, x))
      BY <1>1 DEF Range
    <2>2. ASSUME NEW i \in 1..Len(s) PROVE s[i] \in Range(Append(s, x))
      <3>1. i \in 1..(Len(s) + 1)
        BY <1>1
      <3> QED
        BY <1>1, <3>1 DEF Range
    <2> QED
      BY <1>1, <2>1, <2>2 DEF Range
  <1> QED
    BY <1>1, <1>2, <1>3

\* The settings of the agent, as a command reads and writes them.
LEMMA HooksMove ==
  ASSUME SetupInv, NEW c \in Commands, ReadHooks(c) \/ WriteHooks(c)
  PROVE  SetupInv'
  <1> DEFINE q == cmd[c]
  <1>1. q.at \in {"hooks", "merge"} /\ Active(c)
    BY DEF ReadHooks, WriteHooks, Active
  <1>2. UNCHANGED <<machine, cli, docker, overlap, removed, excused, stale, settled>>
    BY DEF ReadHooks, WriteHooks, history
  <1>3. /\ overlap \/ \A d \in Commands : Active(d) => d = c
        /\ CommandKnown(q) /\ DOMAIN q = Fields /\ ~settled
    BY <1>1, AtWork DEF NothingToDo
  <1>4. hooks \in Settings /\ backups \in Seq(Settings)
    BY DEF SetupInv, BackedUp
  <1>5. ASSUME NEW next, Becomes(c, next), DOMAIN next = Fields, next.at \in {"merge", "end"},
               next.env = q.env, next.service = q.service, next.graph = q.graph
        PROVE  Known' /\ Database' /\ Named' /\ Quiet'
    <2>1. CommandKnown(next)
      BY <1>1, <1>3, <1>5 DEF CommandKnown, Working, Heads
    <2>2. q.graph = "none"
      BY <1>1, <1>3 DEF CommandKnown, Working
    <2>3. Tells(next)
      BY <1>5, <2>2 DEF Tells, UrlKnown, Agreed, Heads, Working
    <2>4. Known' /\ Database' /\ Named'
      BY <1>1, <1>2, <1>3, <1>5, <2>1, <2>3, MachineStands
    <2> QED
      BY <1>2, <1>3, <2>4 DEF Quiet
  <1>6. CASE ReadHooks(c)
    <2>1. PICK next : next = [q EXCEPT !.hooks = hooks, !.at = "merge"] /\ Becomes(c, next)
      BY <1>6 DEF ReadHooks
    <2>2. /\ DOMAIN next = Fields /\ next.at = "merge" /\ next.hooks = hooks
          /\ next.env = q.env /\ next.service = q.service /\ next.graph = q.graph
      BY <1>3, <2>1 DEF Fields
    <2>3. hooks' = hooks /\ \A d \in Commands : cmd'[d] = IF d = c THEN next ELSE cmd[d]
      BY <1>6, <2>1, OneMoves DEF ReadHooks, SetupInv
    <2>4. CASE backups' = Append(backups, hooks)
      <3>1. backups' \in Seq(Settings) /\ Range(backups') = Range(backups) \cup {hooks}
        BY <1>4, <2>4, AppendedRange
      <3>2. BackedUp'
        BY <1>2, <1>4, <2>2, <2>3, <3>1 DEF SetupInv, BackedUp
      <3> QED
        BY <1>5, <2>1, <2>2, <3>2 DEF SetupInv
    <2>5. CASE backups # <<>> /\ backups' = Append(Front(backups), hooks)
      <3>1. Front(backups) \in Seq(Settings)
        BY <1>4, <2>5 DEF Front
      <3>2. backups' \in Seq(Settings) /\ hooks \in Range(backups')
        BY <1>4, <2>5, <3>1, AppendedRange
      <3>3. BackedUp'
        BY <1>1, <1>2, <1>3, <1>4, <2>2, <2>3, <2>5, <3>2 DEF SetupInv, BackedUp
      <3> QED
        BY <1>5, <2>1, <2>2, <3>3 DEF SetupInv
    <2> QED
      BY <1>6, <2>4, <2>5 DEF ReadHooks
  <1>7. CASE WriteHooks(c)
    <2>1. PICK next : next = [q EXCEPT !.at = "end"]
      OBVIOUS
    <2>2. Becomes(c, next) /\ q.at = "merge" /\ hooks' = Merged(q.hooks) /\ backups' = backups
      BY <1>7, <2>1 DEF WriteHooks, Goes, Becomes
    <2>3. /\ DOMAIN next = Fields /\ next.at = "end"
          /\ next.env = q.env /\ next.service = q.service /\ next.graph = q.graph
      BY <1>3, <2>1, GoesFields
    <2>4. \A d \in Commands : cmd'[d] = IF d = c THEN next ELSE cmd[d]
      BY <2>2, OneMoves DEF SetupInv
    <2>5. hooks' \in Settings
      BY <2>2 DEF SetupInv, BackedUp, Merged, Settings
    <2>6. BackedUp'
      BY <1>2, <1>3, <1>4, <2>2, <2>3, <2>4, <2>5 DEF SetupInv, BackedUp, Active
    <2> QED
      BY <1>5, <2>2, <2>3, <2>6 DEF SetupInv
  <1> QED
    BY <1>6, <1>7

\* The agent, docker and the user.
LEMMA OthersMove ==
  ASSUME SetupInv, (\E h \in Others : AgentWrites(h)) \/ Docker \/ RemoveContainer
  PROVE  SetupInv'
  <1>1. /\ UNCHANGED <<env, volume, proc, pidfile, cli, cmd, excused, stale>> /\ (overlap => overlap')
        /\ (removed => removed') /\ ~settled'
    <2>1. ASSUME NEW h \in Others, AgentWrites(h)
          PROVE  /\ UNCHANGED <<env, volume, proc, pidfile, cli, cmd, excused, stale>> /\ (overlap => overlap')
                 /\ (removed => removed') /\ ~settled'
      <3>1. overlap => overlap'
        BY <2>1, Zenon DEF AgentWrites
      <3>2. /\ UNCHANGED <<env, volume, proc, pidfile, cli, cmd, excused, stale>>
            /\ removed' = removed /\ settled' = FALSE
        BY <2>1 DEF AgentWrites, machine
      <3> QED
        BY <3>1, <3>2
    <2>2. CASE Docker
      BY <2>2 DEF Docker, machine
    <2>3. CASE RemoveContainer
      BY <2>3 DEF RemoveContainer
    <2> QED
      BY <2>1, <2>2, <2>3
  <1>2. Known'
    BY <1>1 DEF SetupInv, Known, Active
  <1>3. Named'
    BY <1>1 DEF SetupInv, Named, ServersAreFound, Servers, Right, Awaited, Alone, Serves, Runs
  <1>4. Quiet'
    BY <1>1 DEF Quiet
  <1>5. BackedUp'
    <2>1. CASE UNCHANGED agent
      BY <1>1, <2>1 DEF SetupInv, BackedUp, agent
    <2>2. ASSUME NEW h \in Others, AgentWrites(h)
          PROVE  BackedUp'
      <3>1. hooks' = hooks \cup {{h}} /\ backups' = backups /\ (overlap' \/ ~ \E c \in Commands : cmd[c].at = "merge")
        BY <2>2 DEF AgentWrites
      <3>2. hooks' \in Settings
        BY <3>1 DEF SetupInv, BackedUp, Settings
      <3> QED
        BY <1>1, <3>1, <3>2 DEF SetupInv, BackedUp
    <2> QED
      BY <2>1, <2>2 DEF Docker, RemoveContainer
  <1>6. Database'
    <2>1. CASE UNCHANGED <<container, removed>>
      BY <1>1, <2>1 DEF SetupInv, Database, UrlKnown, Agreed, Outcome, Heads
    <2>2. CASE RemoveContainer
      <3>1. container'.at = "none" /\ container'.password = None /\ removed' /\ DOMAIN container' = {"at", "password"}
        BY <2>2 DEF RemoveContainer
      <3> QED
        BY <1>1, <3>1 DEF SetupInv, Database, UrlKnown, Agreed, Outcome, Heads
    <2> QED
      BY <2>1, <2>2 DEF AgentWrites, Docker, machine
  <1> QED
    BY <1>2, <1>3, <1>4, <1>5, <1>6 DEF SetupInv

LEMMA SetupStarts == Init => SetupInv
  <1> SUFFICES ASSUME Init PROVE SetupInv
    OBVIOUS
  <1>1. DOMAIN env = Names /\ env.url = FALSE /\ env.password = None
    BY DEF Init, Blank, Names
  <1>2. ASSUME NEW c \in Commands
        PROVE  CommandKnown(cmd[c]) /\ cmd[c].at = "idle" /\ cmd[c].graph = "none"
    <2>1. PICK k \in Kinds : cmd[c] = Idle(k)
      BY <1>2 DEF Init
    <2>2. /\ DOMAIN cmd[c] = Fields /\ cmd[c].at = "idle" /\ cmd[c].env = Blank /\ cmd[c].service = "api"
          /\ cmd[c].graph = "none"
      BY <2>1 DEF Idle, Fields
    <2>3. DOMAIN Blank = Names
      BY DEF Blank, Names
    <2> QED
      BY <2>2, <2>3 DEF CommandKnown, Services
  <1>3. Free \in Process /\ Free.what = "free" /\ Free.at = "dying"
    BY DEF Free, Process
  <1>4. Known
    BY <1>1, <1>2, <1>3 DEF Init, Known, Active
  <1>5. BackedUp
    <2>1. hooks \in Settings
      BY DEF Init, Settings
    <2> QED
      BY <1>2, <2>1 DEF Init, BackedUp
  <1>6. Database
    <2>1. DOMAIN container = {"at", "password"} /\ container.at = "none" /\ container.password = None /\ volume = None
      BY DEF Init
    <2>2. ASSUME NEW c \in Commands
          PROVE  UrlKnown(cmd[c]) /\ ~Heads(cmd[c], {"inspect", "create"}) /\ Agreed(cmd[c])
      BY <1>2 DEF UrlKnown, Heads, Agreed, Working
    <2> QED
      BY <1>1, <1>2, <2>1, <2>2 DEF Database
  <1>7. Named
    BY <1>2, <1>3 DEF Init, Named, ServersAreFound, Servers, Right, Awaited, Alone, Services
  <1>8. Quiet
    BY DEF Init, Quiet
  <1> QED
    BY <1>4, <1>5, <1>6, <1>7, <1>8 DEF SetupInv

LEMMA SetupPreserved == SetupInv /\ [Next]_vars => SetupInv'
  <1> SUFFICES ASSUME SetupInv, [Next]_vars PROVE SetupInv'
    OBVIOUS
  <1>1. CASE UNCHANGED vars
    <2>1. UNCHANGED <<env, container, volume, proc, pidfile, hooks, backups, cli, docker, cmd>>
          /\ UNCHANGED <<overlap, removed, excused, stale, settled>>
      BY <1>1 DEF vars, machine, agent, history
    <2>2. Known' /\ BackedUp'
      BY <2>1 DEF SetupInv, Known, BackedUp, Active
    <2>3. Database'
      BY <2>1 DEF SetupInv, Database, UrlKnown, Agreed, Outcome, Heads
    <2>4. Named'
      BY <2>1 DEF SetupInv, Named, ServersAreFound, Servers, Right, Awaited, Alone, Serves, Runs
    <2>5. Quiet'
      BY <2>1 DEF SetupInv, Quiet, Up, EnvKept, EnvRight, InStep, NothingToDo, Runs, Active
    <2> QED
      BY <2>2, <2>3, <2>4, <2>5 DEF SetupInv
  <1>2. ASSUME NEW c \in Commands, Start(c) \/ Read(c) \/ Load(c) \/ Truncate(c) \/ Write(c) \/ ChooseLLM(c) \/ SkipLLM(c)
        PROVE  SetupInv'
    BY <1>2, StartMoves, ReadMoves, LoadMoves, TruncateMoves, WriteMoves, LLMMoves
  <1>3. ASSUME NEW c \in Commands,
               Inspect(c) \/ Create(c) \/ StartContainer(c) \/ Bolt(c) \/ StopGraph(c)
        PROVE  SetupInv'
    BY <1>3, InspectMoves, BoltMoves, DockerMoves
  <1>4. ASSUME NEW c \in Commands,
               \/ LookForOpenKnowledge(c) \/ LookForApi(c) \/ Spawn(c) \/ Record(c) \/ Wait(c)
               \/ Serve(c) \/ Check(c) \/ Kill(c) \/ Unlink(c)
        PROVE  SetupInv'
    BY <1>4, LookForMoves, SpawnMoves, RecordMoves, WaitMoves, ServeMoves, CheckMoves, KillMoves, UnlinkMoves
  <1>5. ASSUME NEW c \in Commands, ReadHooks(c) \/ WriteHooks(c) \/ Finish(c) \/ Interrupt(c)
        PROVE  SetupInv'
    BY <1>5, HooksMove, FinishMoves, InterruptMoves
  <1>6. ASSUME NEW p \in Pids, Boot(p) \/ Exit(p) \/ Reuse(p)
        PROVE  SetupInv'
    BY <1>6, ProcessesMove
  <1>7. CASE (\E h \in Others : AgentWrites(h)) \/ Docker \/ RemoveContainer
    BY <1>7, OthersMove
  <1> QED
    BY <1>1, <1>2, <1>3, <1>4, <1>5, <1>6, <1>7 DEF Next

LEMMA SetupInvariant == Spec => []SetupInv
  BY SetupStarts, SetupPreserved, PTL DEF Spec

-----------------------------------------------------------------------------
\* The server `up` started is the one its pid file names, also when servers boot slowly,
\* crash or take another's pid: _spawn_detached and write_pid between any other steps.
THEOREM ServersFound == Spec => []ServersAreFound
  <1>1. SetupInv => ServersAreFound
    BY DEF SetupInv, Named
  <1> QED
    BY <1>1, SetupInvariant, PTL

\* ensure_neo4j leaves one password, whatever earlier commands wrote to .env while docker
\* was away.
THEOREM OnePassword == Spec => []PasswordsAgree
  <1>1. SetupInv => PasswordsAgree
    <2> SUFFICES ASSUME SetupInv, NEW c \in Commands, cmd[c].graph = "docker", ~overlap, ~removed
                 PROVE  EnvSays("password") = cmd[c].env.password /\ cmd[c].env.password = container.password
                        /\ container.password = volume
      BY DEF PasswordsAgree
    <2>1. container.at # "none" /\ volume = container.password /\ Agreed(cmd[c])
      BY DEF SetupInv, Database
    <2>2. container.password = cmd[c].env.password
      BY <2>1 DEF Agreed
    <2>3. Active(c) /\ cmd[c].at \in Working \cup {"end"}
      BY DEF SetupInv, Known, CommandKnown, Working, Active
    <2>4. ASSUME NEW d \in Commands, d # c PROVE cmd[d].at # "write"
      BY <2>3, <2>4, OthersRest DEF SetupInv, Active
    <2>5. EnvSays("password") = cmd[c].env.password
      <3>1. CASE cmd[c].at = "write"
        <4>1. {d \in Commands : cmd[d].at = "write"} = {c}
          BY <2>4, <3>1
        <4>2. EnvSays("password") = cmd[c].lines["password"]
          BY <4>1 DEF EnvSays
        <4> QED
          BY <2>1, <3>1, <4>2 DEF Agreed, Outcome, Working
      <3>2. CASE cmd[c].at # "write"
        <4>1. {d \in Commands : cmd[d].at = "write"} = {}
          BY <2>4, <3>2
        <4> QED
          BY <2>1, <3>2, <4>1 DEF Agreed, EnvSays
      <3> QED
        BY <3>1, <3>2
    <2> QED
      BY <2>1, <2>2, <2>5
  <1> QED
    BY <1>1, SetupInvariant, PTL

\* stop_server and stop_openknowledge signal the process they found alive only when that is
\* the server, or it is known why not.
THEOREM OnlyServersSignalled == Spec => OnlyServersAreSignalled
  <1>1. ASSUME SetupInv, NEW c \in Commands, cmd[c].at = "kill"
        PROVE  Runs(cmd[c].service, cmd[c].pid) \/ cmd[c].service \in stale \/ overlap
    <2> SUFFICES ASSUME ~overlap PROVE Runs(cmd[c].service, cmd[c].pid) \/ cmd[c].service \in stale
      OBVIOUS
    <2>1. PICK s \in Services : s = cmd[c].service /\ cmd[c].pid \in Pids /\ pidfile[s] = cmd[c].pid
      BY <1>1 DEF SetupInv, Known, CommandKnown, Named, Alone
    <2>2. Right(s)
      BY <1>1 DEF SetupInv, Named
    <2>3. pidfile[s] # NoPid
      BY <2>1, SetupAssumption
    <2>4. ASSUME NEW d \in Commands, cmd[d].at = "unlink"
          PROVE  FALSE
      <3>1. d # c /\ Active(d) /\ Active(c)
        BY <1>1, <2>4 DEF Active
      <3> QED
        BY <1>1, <3>1, OthersRest DEF SetupInv
    <2> QED
      BY <2>1, <2>2, <2>3, <2>4 DEF Right, Serves
  <1>2. SetupInv /\ [Next]_vars =>
          [\A c \in Commands : cmd[c].at = "kill" /\ cmd'[c].at = "unlink" =>
             LET s == cmd[c].service
             IN  Runs(s, cmd[c].pid) \/ s \in stale \/ overlap]_vars
    BY <1>1
  <1> QED
    BY <1>2, SetupInvariant, PTL DEF Spec, OnlyServersAreSignalled

\* connect_claude_code and connect_codex keep the entries of others, and back up what
\* merge_hooks drops from ours.
THEOREM OthersHooksKept == Spec => OthersAreKept
  <1>1. ASSUME SetupInv, Next, NEW e \in hooks, ~overlap'
        PROVE  IF "ours" \in e THEN e \subseteq UNION (hooks' \cup UNION Range(backups')) ELSE e \in hooks'
    <2>1. CASE e \in hooks'
      BY <2>1
    <2>2. CASE hooks' # hooks /\ e \notin hooks'
      <3>1. PICK c \in Commands : WriteHooks(c)
        BY <1>1, <2>2 DEF Next, Start, Read, Load, Truncate, Write, ChooseLLM, SkipLLM, Inspect, Create,
           StartContainer, Bolt, LookForOpenKnowledge, LookForApi, Spawn, Record, Wait, Serve, Check, Kill,
           Unlink, StopGraph, ReadHooks, AgentWrites, Finish, Interrupt, Boot, Exit, Reuse, Docker,
           RemoveContainer, Ended, agent
      <3>2. /\ hooks' = Merged(cmd[c].hooks) /\ backups' = backups /\ cmd[c].at = "merge"
            /\ UNCHANGED overlap
        BY <3>1 DEF WriteHooks, history
      <3>3. hooks \in Range(backups) /\ hooks = cmd[c].hooks
        BY <1>1, <3>2 DEF SetupInv, BackedUp
      <3>4. "ours" \in e
        BY <2>2, <3>2, <3>3 DEF Merged
      <3> QED
        BY <3>2, <3>3, <3>4
    <2> QED
      BY <2>1, <2>2
  <1>2. SetupInv /\ [Next]_vars =>
          [\A e \in hooks : overlap' \/
             IF "ours" \in e THEN e \subseteq UNION (hooks' \cup UNION Range(backups')) ELSE e \in hooks']_vars
    BY <1>1
  <1> QED
    BY <1>2, SetupInvariant, PTL DEF Spec, OthersAreKept

-----------------------------------------------------------------------------
LEMMA NothingForgotten == Next => cli' = cli /\ (overlap => overlap')
  <1> SUFFICES ASSUME Next PROVE cli' = cli /\ (overlap => overlap')
    OBVIOUS
  <1>1. ASSUME NEW c \in Commands, Start(c)
        PROVE  cli' = cli /\ (overlap => overlap')
    <2>1. overlap => overlap'
      BY <1>1, Zenon DEF Start
    <2> QED
      BY <1>1, <2>1 DEF Start
  <1>2. ASSUME NEW h \in Others, AgentWrites(h)
        PROVE  cli' = cli /\ (overlap => overlap')
    <2>1. overlap => overlap'
      BY <1>2, Zenon DEF AgentWrites
    <2> QED
      BY <1>2, <2>1 DEF AgentWrites
  <1>3. CASE UNCHANGED <<cli, overlap>>
    BY <1>3
  <1>4. UNCHANGED <<cli, overlap>> \/ (\E c \in Commands : Start(c)) \/ \E h \in Others : AgentWrites(h)
    BY DEF Next, Read, Load, Truncate, Write, ChooseLLM, SkipLLM, Inspect, Create,
       StartContainer, Bolt, LookForOpenKnowledge, LookForApi, Spawn, Record, Wait, Serve, Check, Kill,
       Unlink, StopGraph, ReadHooks, WriteHooks, Finish, Interrupt, Boot, Exit, Reuse, Docker,
       RemoveContainer, Ended, history
  <1> QED
    BY <1>1, <1>2, <1>3, <1>4

\* The steps of a command that leave the machine as it is.
Steady(c) ==
    \/ Start(c) \/ Read(c) \/ Load(c) \/ ChooseLLM(c) \/ SkipLLM(c) \/ Inspect(c) \/ Bolt(c)
    \/ LookForOpenKnowledge(c) \/ LookForApi(c) \/ Wait(c) \/ Serve(c) \/ Check(c)
    \/ ReadHooks(c) \/ WriteHooks(c) \/ Finish(c)

\* `up` after an `up` that went well changes nothing: the lookups of ensure_neo4j,
\* ensure_openknowledge and start_server_detached find what there is, also when several
\* run at once and ensure_env finds a file that write_env_values has just emptied; and
\* alone it leaves in .env what the first has written.
THEOREM SecondUpChangesNothing == Spec => UpTwiceIsOnce
  <1> DEFINE Same == UNCHANGED <<container, volume, Servers, pidfile>>
  <1>1. ASSUME SetupInv, Next, settled, settled'
        PROVE  Same
    <2>1. ASSUME NEW c \in Commands, Active(c)
          PROVE  NothingToDo(cmd[c])
      BY <1>1, <2>1 DEF SetupInv, Quiet
    <2>2. \A p \in Pids : proc[p].at # "booting"
      BY <1>1 DEF SetupInv, Quiet, Up
    <2>3. CASE UNCHANGED machine
      BY <2>3 DEF machine, Servers
    <2>4. ASSUME NEW c \in Commands, Truncate(c) \/ Write(c)
          PROVE  Same
      BY <2>4 DEF Truncate, Write, Servers
    <2>5. ASSUME NEW c \in Commands,
                 \/ Create(c) \/ StartContainer(c) \/ Spawn(c) \/ Record(c)
                 \/ Kill(c) \/ Unlink(c) \/ StopGraph(c)
          PROVE  FALSE
      <3>1. cmd[c].at \in {"create", "start", "spawn", "record", "kill", "unlink", "graph"}
        BY <2>5 DEF Create, StartContainer, Spawn, Record, Kill, Unlink, StopGraph
      <3> QED
        BY <2>1, <3>1 DEF Active, NothingToDo
    <2>6. ASSUME NEW c \in Commands, Steady(c)
          PROVE  UNCHANGED machine
      BY <2>6 DEF Steady, Start, Read, Load, ChooseLLM, SkipLLM, Inspect, Bolt, LookForOpenKnowledge,
         LookForApi, Wait, Serve, Check, ReadHooks, WriteHooks, Finish
    <2>7. ASSUME NEW c \in Commands, Interrupt(c)
          PROVE  FALSE
      BY <1>1, <2>7 DEF Interrupt
    <2>8. ASSUME NEW p \in Pids, Boot(p) \/ Exit(p)
          PROVE  FALSE
      BY <1>1, <2>2, <2>8 DEF Boot, Exit, Ended
    <2>9. ASSUME NEW p \in Pids, Reuse(p)
          PROVE  Same
      <3>1. proc \in [Pids -> Process] /\ (proc[p].what = "free" \/ p = NoPid)
        BY <1>1, <2>9 DEF SetupInv, Known, Reuse, Alive, Runs
      <3>2. proc' = [proc EXCEPT ![p] = [what |-> "foreign", at |-> "listening"]]
        BY <2>9 DEF Reuse
      <3>3. Servers' = Servers
        BY <3>1, <3>2, SetupAssumption DEF Servers, Services
      <3> QED
        BY <2>9, <3>3 DEF Reuse
    <2>10. CASE (\E h \in Others : AgentWrites(h)) \/ Docker \/ RemoveContainer
      BY <1>1, <2>10 DEF AgentWrites, Docker, RemoveContainer
    <2> QED
      BY <1>1, <2>3, <2>4, <2>5, <2>6, <2>7, <2>8, <2>9, <2>10 DEF Next, Steady
  <1>2. ASSUME SetupInv, settled, ~overlap
        PROVE  EnvSays("password") = container.password /\ EnvSays("url") = cli
    <2> DEFINE writing == {c \in Commands : cmd[c].at = "write"}
    <2>1. CASE writing = {}
      <3>1. EnvRight
        BY <1>2, <2>1 DEF SetupInv, Quiet, EnvKept
      <3> QED
        BY <2>1, <3>1 DEF EnvSays, EnvRight
    <2>2. CASE writing # {}
      <3>1. PICK c \in Commands : c = CHOOSE d \in writing : TRUE
        BY <2>2
      <3>2. cmd[c].at = "write" /\ EnvSays("password") = cmd[c].lines["password"]
            /\ EnvSays("url") = cmd[c].lines["url"]
        BY <2>2, <3>1 DEF EnvSays
      <3>3. Agreed(cmd[c]) /\ UrlKnown(cmd[c]) /\ InStep(cmd[c])
        BY <1>2 DEF SetupInv, Database, Quiet, EnvKept
      <3> QED
        BY <3>2, <3>3 DEF Agreed, UrlKnown, InStep, Outcome, Working
    <2> QED
      BY <2>1, <2>2
  <1>3. ASSUME SetupInv, Next, settled, settled', ~overlap'
        PROVE  UNCHANGED <<EnvSays("password"), EnvSays("url")>>
    <2>1. SetupInv' /\ ~overlap /\ cli' = cli /\ container' = container
      <3>1. SetupInv'
        BY <1>3, SetupPreserved
      <3>2. cli' = cli /\ (overlap => overlap')
        BY <1>3, NothingForgotten
      <3> QED
        BY <1>1, <1>3, <3>1, <3>2
    <2>2. (EnvSays("password") = container.password /\ EnvSays("url") = cli)'
      BY <1>2, <1>3, <2>1, PTL
    <2> QED
      BY <1>2, <1>3, <2>1, <2>2
  <1>4. SetupInv /\ [Next]_vars =>
          [settled /\ settled' =>
             Same /\ (overlap' \/ UNCHANGED <<EnvSays("password"), EnvSays("url")>>)]_vars
    BY <1>1, <1>3
  <1> QED
    BY <1>4, SetupInvariant, PTL DEF Spec, UpTwiceIsOnce

=============================================================================
