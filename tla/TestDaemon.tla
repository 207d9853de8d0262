----------------------------- MODULE TestDaemon -----------------------------
(***************************************************************************)
(* The warm test engine: jails processes that start, find, ask and stop a  *)
(* per-project test daemon (jails-drive `testd/client`), and the daemons   *)
(* (templates/testd/JailsTestDaemon.java).  They share two files: the      *)
(* socket's path, which the last daemon to bind owns, and the metadata a   *)
(* client writes of the daemon it started.  Nothing locks either.          *)
(*                                                                         *)
(* A daemon's name stands for its JVM and for the cookie it was started    *)
(* with; a name nobody refers to any more is free for the next JVM.  So    *)
(* the commands are unbounded, and `Daemon` bounds the JVMs alive at once. *)
(***************************************************************************)
EXTENDS Naturals

CONSTANTS
  Client,     \* jails processes
  Commands,   \* the commands each of them is used for
  Timed,      \* those that pass `--timeout`
  Daemon,     \* bound: JVMs at once
  Classpath,  \* what `pom.xml` may ask for
  Output,     \* the states of the compiled outputs
  MaxFaults,  \* bound: crashed JVMs, killed clients, answers that came too late to be read
  None

Goals == {"test", "start", "stop", "restart"}

ASSUME ClientAssumption ==
  /\ Commands \in [Client -> SUBSET Goals]
  /\ Timed \subseteq Client
ASSUME BoundAssumption == MaxFaults \in Nat

Alive == {"warming", "serving", "leaving"}   \* bound to a socket
Serving == {"serving", "leaving"}            \* accepts and answers
Kinds == {"hello", "run", "cancel", "stop"}
Waiting == {"queued", "open"}

RunRecord ==
  [by : Client \cup {None}, stage : {"verify", "run"}, snap : Output \cup {None}, cut : BOOLEAN]

Broken == [daemon |-> None, kind |-> "none", state |-> "broken"]

Exchange ==
  {Broken} \cup
  [daemon : Daemon, kind : Kinds, state : Waiting \cup {"ok", "spoiled", "refused"}]

ASSUME NoneAssumption ==
  /\ None \notin Client \cup Daemon \cup Classpath \cup Output \cup Goals
  /\ None \notin RunRecord
  /\ None \notin Exchange
  /\ None \notin [daemon : Daemon, classpath : Classpath]

VARIABLES
  outputs,  \* the compiled outputs on disk
  sock,     \* the daemon whose socket is at the path, or None: maybe a dead one
  meta,     \* the metadata file: a daemon and its classpath, or None
  jvm,      \* each daemon: life, its active run, the requests of clients that left
  pc,       \* where each client is
  goal,     \* what is left for it to do: a command, or None
  asked,    \* the classpath it was given
  key,      \* the daemon whose cookie it sends
  snap,     \* the outputs it took a snapshot of
  line,     \* its connection: the daemon, what it asked, what came of it
  faults

shared == <<outputs, sock, meta>>
own == <<pc, goal, asked, key, snap>>
vars == <<outputs, sock, meta, jvm, own, line, faults>>

Free == [life |-> "gone", run |-> None, left |-> {}]

Init ==
  /\ outputs \in Output
  /\ sock = None
  /\ meta = None
  /\ jvm = [d \in Daemon |-> Free]
  /\ pc = [c \in Client |-> "idle"]
  /\ goal = [c \in Client |-> None]
  /\ asked = [c \in Client |-> None]
  /\ key = [c \in Client |-> None]
  /\ snap = [c \in Client |-> None]
  /\ line = [c \in Client |-> None]
  /\ faults = 0

Goto(c, label) == pc' = [pc EXCEPT ![c] = label]

\* Mutant: a client that leaves keeps the cookie it used.
EndVariant(c) ==
  /\ Goto(c, "idle")
  /\ goal' = [goal EXCEPT ![c] = None]
  /\ asked' = [asked EXCEPT ![c] = None]
  /\ snap' = [snap EXCEPT ![c] = None]
  /\ UNCHANGED key

\* The end of a command: what it held in memory is gone.
End(c) ==
  /\ Goto(c, "idle")
  /\ goal' = [goal EXCEPT ![c] = None]
  /\ asked' = [asked EXCEPT ![c] = None]
  /\ key' = [key EXCEPT ![c] = None]
  /\ snap' = [snap EXCEPT ![c] = None]

\* `exchange` connects to whatever is at the path, and fails at once when
\* nobody listens there.
Connected(kind) ==
  IF sock # None /\ jvm[sock].life \in Alive
  THEN [daemon |-> sock, kind |-> kind, state |-> "queued"]
  ELSE Broken

Connect(c, kind) == line' = [line EXCEPT ![c] = Connected(kind)]
Close(c) == line' = [line EXCEPT ![c] = None]
Answered(c) == line[c].state \notin Waiting
Welcomed(c) == line[c].state = "ok"
TurnedAway(c) == Answered(c) /\ ~Welcomed(c)

\* Mutant: a daemon still answers the run of a client that has left.
AbandonedVariant(c) == jvm

\* What the daemon keeps of a client that closes its connection: a request it
\* has not read is read later all the same, and a run goes on for nobody.
Abandoned(c) ==
  IF line[c] = None \/ Answered(c) THEN jvm
  ELSE LET d == line[c].daemon IN
       IF line[c].state = "open" THEN [jvm EXCEPT ![d].run.by = None]
       ELSE IF line[c].kind = "stop" \/ (line[c].kind # "hello" /\ key[c] = d)
       THEN [jvm EXCEPT ![d].left = @ \cup {line[c].kind}]
       ELSE jvm

\* The daemon's process ends: every exchange it still owes an answer breaks.
Dies(d) ==
  /\ jvm' = [jvm EXCEPT ![d] = Free]
  /\ line' = [c \in Client |->
       IF line[c] # None /\ line[c].daemon = d /\ line[c].state \in Waiting
       THEN Broken ELSE line[c]]

Faulty ==
  /\ faults < MaxFaults
  /\ faults' = faults + 1

(* Commands. *)

\* `test --engine warm` and `testd run`; `testd start`, `stop` and `restart`.
\* Whoever wants a daemon asks the build for its classpath.  `staleness` may
\* turn a `test` away before that, which leaves no trace.
Command(c, command) ==
  /\ pc[c] = "idle"
  /\ command \in Commands[c]
  /\ Goto(c, IF command \in {"stop", "restart"} THEN "quit" ELSE "ensure")
  /\ goal' = [goal EXCEPT ![c] = command]
  /\ \E p \in IF command = "stop" THEN {None} ELSE Classpath : asked' = [asked EXCEPT ![c] = p]
  /\ UNCHANGED <<shared, jvm, key, snap, line, faults>>

\* `ensure_running`: a recorded daemon with this classpath is greeted, any
\* other is stopped and replaced.
Fits(c) == meta # None /\ meta.classpath = asked[c]

Ensure(c) ==
  /\ pc[c] = "ensure"
  /\ IF Fits(c)
     THEN /\ Goto(c, "hello")
          /\ key' = [key EXCEPT ![c] = meta.daemon]
          /\ Connect(c, "hello")
     ELSE Goto(c, "quit") /\ UNCHANGED <<key, line>>
  /\ UNCHANGED <<shared, jvm, goal, asked, snap, faults>>

\* Mutant: a daemon that does not greet is an error, and is not replaced.
QuitVariant(c) ==
  \/ /\ pc[c] = "hello"
     /\ TurnedAway(c)
     /\ End(c)
     /\ Close(c)
     /\ UNCHANGED <<shared, jvm, faults>>
  \/ /\ pc[c] = "quit" \/ (pc[c] = "cancelling" /\ Answered(c))
     /\ Goto(c, IF meta = None THEN "clear" ELSE "quitting")
     /\ key' = [key EXCEPT ![c] = IF meta = None THEN None ELSE meta.daemon]
     /\ line' = [line EXCEPT ![c] = IF meta = None THEN None ELSE Connected("stop")]
     /\ UNCHANGED <<shared, jvm, goal, asked, snap, faults>>

\* `stop_quietly`: the stop carries the cookie of the metadata and goes to
\* whoever holds the path; its answer does not matter.
Quit(c) ==
  /\ \/ pc[c] = "quit"
     \/ pc[c] = "hello" /\ TurnedAway(c)
     \/ pc[c] = "cancelling" /\ Answered(c)
  /\ IF meta = None
     THEN /\ Goto(c, "clear")
          /\ key' = [key EXCEPT ![c] = None]
          /\ Close(c)
     ELSE /\ Goto(c, "quitting")
          /\ key' = [key EXCEPT ![c] = meta.daemon]
          /\ Connect(c, "stop")
  /\ UNCHANGED <<shared, jvm, goal, asked, snap, faults>>

\* `remove_runtime_files`: the socket, then the metadata, whosever they are.
\* So it is too when the JVM exited before it was greeted.
ChildExited(c) == pc[c] = "knocking" /\ TurnedAway(c) /\ jvm[key[c]].life = "gone"

ClearSocket(c) ==
  /\ \/ pc[c] = "clear"
     \/ pc[c] = "quitting" /\ Answered(c)
     \/ ChildExited(c)
  /\ sock' = None
  /\ Goto(c, "clearing")
  /\ key' = [key EXCEPT ![c] = None]
  /\ Close(c)
  /\ goal' = [goal EXCEPT ![c] = IF ChildExited(c) THEN "stop" ELSE @]
  /\ UNCHANGED <<outputs, meta, jvm, asked, snap, faults>>

ClearMeta(c) ==
  /\ pc[c] = "clearing"
  /\ meta' = None
  /\ \/ goal[c] = "stop" /\ End(c)
     \/ /\ goal[c] = "restart"
        /\ Goto(c, "ensure")
        /\ goal' = [goal EXCEPT ![c] = "start"]
        /\ UNCHANGED <<asked, key, snap>>
     \/ /\ goal[c] \in {"test", "start"}
        /\ Goto(c, "start")
        /\ UNCHANGED <<goal, asked, key, snap>>
  /\ UNCHANGED <<outputs, sock, jvm, line, faults>>

\* `start`: a JVM with a fresh cookie.
Fresh(d) ==
  /\ jvm[d].life = "gone"
  /\ sock # d
  /\ meta # None => meta.daemon # d
  /\ \A c \in Client : key[c] # d /\ (line[c] # None => line[c].daemon # d)

Spawn(c) ==
  /\ pc[c] = "start"
  /\ \E d \in Daemon :
       /\ Fresh(d)
       /\ jvm' = [jvm EXCEPT ![d] = [Free EXCEPT !.life = "starting"]]
       /\ key' = [key EXCEPT ![c] = d]
  /\ Goto(c, "record")
  /\ UNCHANGED <<shared, goal, asked, snap, line, faults>>

WriteMeta(c) ==
  /\ pc[c] = "record"
  /\ meta' = [daemon |-> key[c], classpath |-> asked[c]]
  /\ Goto(c, "knock")
  /\ UNCHANGED <<outputs, sock, jvm, goal, asked, key, snap, line, faults>>

\* Its own hello is tried again until it is answered, the JVM has exited, or
\* `START_TIMEOUT` has passed.
Unheard(c) == pc[c] = "knocking" /\ TurnedAway(c) /\ jvm[key[c]].life # "gone"

Knock(c) ==
  /\ pc[c] = "knock" \/ Unheard(c)
  /\ Goto(c, "knocking")
  /\ Connect(c, "hello")
  /\ UNCHANGED <<shared, jvm, goal, asked, key, snap, faults>>

\* Mutant: a start that ran out of time is tried again.
StartTimeoutVariant(c) ==
  /\ Unheard(c)
  /\ Dies(key[c])
  /\ Goto(c, "clear")
  /\ key' = [key EXCEPT ![c] = None]
  /\ UNCHANGED <<shared, goal, asked, snap, faults>>

StartTimeout(c) ==
  /\ Unheard(c)
  /\ Dies(key[c])
  /\ Goto(c, "clear")
  /\ goal' = [goal EXCEPT ![c] = "stop"]
  /\ key' = [key EXCEPT ![c] = None]
  /\ UNCHANGED <<shared, asked, snap, faults>>

\* `run`: the metadata is read again, whatever it has become, and the outputs
\* are digested.
Greeted(c) == pc[c] \in {"hello", "knocking"} /\ Welcomed(c) /\ Close(c)

Ask(c) ==
  /\ Greeted(c)
  /\ goal[c] = "test"
  /\ IF meta = None
     THEN End(c)
     ELSE /\ Goto(c, "send")
          /\ key' = [key EXCEPT ![c] = meta.daemon]
          /\ snap' = [snap EXCEPT ![c] = outputs]
          /\ UNCHANGED <<goal, asked>>
  /\ UNCHANGED <<shared, jvm, faults>>

\* `testd start` and `testd restart` end here.
Started(c) ==
  /\ Greeted(c)
  /\ goal[c] = "start"
  /\ End(c)
  /\ UNCHANGED <<shared, jvm, faults>>

Send(c) ==
  /\ pc[c] = "send"
  /\ Goto(c, "await")
  /\ Connect(c, "run")
  /\ UNCHANGED <<shared, jvm, goal, asked, key, snap, faults>>

Returned(c, states) ==
  /\ pc[c] = "await"
  /\ line[c].state \in states
  /\ End(c)
  /\ Close(c)
  /\ UNCHANGED <<shared, jvm, faults>>

Report(c) == Returned(c, {"ok", "spoiled"})
Fail(c) == Returned(c, {"refused", "broken"})

\* An exchange without a time limit of its own gives up after `START_TIMEOUT`:
\* on a run that goes on, or on a JVM that has not come to answer.
HangUp(c, state) ==
  /\ line[c] # None
  /\ line[c].state = state
  /\ jvm' = Abandoned(c)
  /\ line' = [line EXCEPT ![c] = Broken]
  /\ UNCHANGED <<shared, own>>

RunTooLong(c) == c \notin Timed /\ HangUp(c, "open") /\ UNCHANGED faults
AnswerTooLate(c) == (pc[c] = "await" => c \notin Timed) /\ Faulty /\ HangUp(c, "queued")

\* `--timeout`: the daemon's active run is cancelled, and the daemon stopped.
TimedOut(c) ==
  /\ c \in Timed
  /\ pc[c] = "await"
  /\ line[c].state \in Waiting
  /\ jvm' = Abandoned(c)
  /\ Goto(c, "cancelling")
  /\ goal' = [goal EXCEPT ![c] = "stop"]
  /\ snap' = [snap EXCEPT ![c] = None]
  /\ Connect(c, "cancel")
  /\ UNCHANGED <<shared, asked, key, faults>>

\* Ctrl-C.  A JVM the client started goes on.
Kill(c) ==
  /\ Faulty
  /\ pc[c] # "idle"
  /\ jvm' = Abandoned(c)
  /\ End(c)
  /\ Close(c)
  /\ UNCHANGED shared

(* The daemon. *)

\* `deleteIfExists` and `bind` are two steps: another daemon may come between.
Unbind(d) ==
  /\ jvm[d].life = "starting"
  /\ sock' = None
  /\ jvm' = [jvm EXCEPT ![d].life = "binding"]
  /\ UNCHANGED <<outputs, meta, own, line, faults>>

Bind(d) ==
  /\ jvm[d].life = "binding"
  /\ sock = None
  /\ sock' = d
  /\ jvm' = [jvm EXCEPT ![d].life = "warming"]
  /\ UNCHANGED <<outputs, meta, own, line, faults>>

\* The path is taken: `bind` throws, and the `finally` of `main` removes the
\* socket of the daemon that came between.
BindFailed(d) ==
  /\ jvm[d].life = "binding"
  /\ sock # None
  /\ Dies(d)
  /\ sock' = None
  /\ UNCHANGED <<outputs, meta, own, faults>>

WarmedUp(d) ==
  /\ jvm[d].life = "warming"
  /\ jvm' = [jvm EXCEPT ![d].life = "serving"]
  /\ UNCHANGED <<shared, own, line, faults>>

Asks(c, d, kind) ==
  /\ jvm[d].life \in Serving
  /\ line[c] = [daemon |-> d, kind |-> kind, state |-> "queued"]

Reply(c, state) == line' = [line EXCEPT ![c].state = state]

AnswerHello(d, c) ==
  /\ Asks(c, d, "hello")
  /\ Reply(c, IF key[c] = d THEN "ok" ELSE "refused")
  /\ UNCHANGED <<shared, own, jvm, faults>>

\* `handle` stops on every stop request, the refused ones included.
AnswerStop(d, c) ==
  /\ Asks(c, d, "stop")
  /\ Reply(c, IF key[c] = d THEN "ok" ELSE "refused")
  /\ jvm' = [jvm EXCEPT ![d].life = "leaving"]
  /\ UNCHANGED <<shared, own, faults>>

\* `cancel` interrupts the active run, whoever asked for it.
AnswerCancel(d, c) ==
  /\ Asks(c, d, "cancel")
  /\ IF key[c] = d /\ jvm[d].run # None
     THEN /\ jvm' = [jvm EXCEPT ![d].run.cut = TRUE]
          /\ Reply(c, "ok")
     ELSE Reply(c, "refused") /\ UNCHANGED jvm
  /\ UNCHANGED <<shared, own, faults>>

\* After any answer to a run the JVM may be spent: fifty runs, a metaspace that
\* grew, a thread that was left behind.
Spent(d, last) == IF last THEN "leaving" ELSE jvm[d].life

AcceptRun(d, c) ==
  /\ Asks(c, d, "run")
  /\ key[c] = d
  /\ jvm[d].run = None
  /\ jvm' = [jvm EXCEPT ![d].run = [by |-> c, stage |-> "verify", snap |-> snap[c], cut |-> FALSE]]
  /\ Reply(c, "open")
  /\ UNCHANGED <<shared, own, faults>>

RefuseRun(d, c) ==
  /\ Asks(c, d, "run")
  /\ key[c] # d \/ jvm[d].run # None
  /\ Reply(c, "refused")
  /\ \E last \in BOOLEAN : jvm' = [jvm EXCEPT ![d].life = Spent(d, last)]
  /\ UNCHANGED <<shared, own, faults>>

ForNobody == [by |-> None, stage |-> "run", snap |-> None, cut |-> FALSE]

\* The requests of clients that have left are carried out like any other, but
\* the answer cannot be written, and `handle` throws before it comes to say that
\* the daemon is to stop.
AnswerLeft(d) ==
  /\ jvm[d].life \in Serving
  /\ \/ /\ "stop" \in jvm[d].left
        /\ jvm' = [jvm EXCEPT ![d].left = @ \ {"stop"}]
     \/ /\ "cancel" \in jvm[d].left
        /\ jvm' = [jvm EXCEPT ![d].left = @ \ {"cancel"},
                              ![d].run = IF @ = None THEN None ELSE [@ EXCEPT !.cut = TRUE]]
     \/ /\ "run" \in jvm[d].left
        /\ jvm' = [jvm EXCEPT ![d].left = @ \ {"run"},
                              ![d].run = IF @ = None THEN ForNobody ELSE @]
  /\ UNCHANGED <<shared, own, line, faults>>

\* Only a run whose answer was written is counted.
Ended(d, state, last) ==
  /\ last => jvm[d].run.by # None /\ state # "broken"
  /\ jvm' = [jvm EXCEPT ![d].run = None, ![d].life = Spent(d, last)]
  /\ line' = IF jvm[d].run.by = None THEN line
             ELSE [line EXCEPT ![jvm[d].run.by] =
                     IF state = "broken" THEN Broken ELSE [@ EXCEPT !.state = state]]
  /\ UNCHANGED <<shared, own, faults>>

AtStage(d, stage) == jvm[d].run # None /\ jvm[d].run.stage = stage

\* Mutant: the snapshot is not compared.
VerifiedVariant(d) ==
  /\ AtStage(d, "verify")
  /\ jvm' = [jvm EXCEPT ![d].run = [@ EXCEPT !.stage = "run", !.snap = None]]
  /\ UNCHANGED <<shared, own, line, faults>>

\* `verifyOutputs`: the outputs are what the snapshot says, and the newest class
\* in it is no older than the newest source.  The sources are not modelled: one
\* may be newer at any moment, and stay so.
Verified(d) ==
  /\ AtStage(d, "verify")
  /\ outputs = jvm[d].run.snap
  /\ jvm' = [jvm EXCEPT ![d].run = [@ EXCEPT !.stage = "run", !.snap = None]]
  /\ UNCHANGED <<shared, own, line, faults>>

RefuseStale(d, last) ==
  /\ AtStage(d, "verify")
  /\ outputs # jvm[d].run.snap
  /\ Ended(d, "refused", last)

\* There is no class, or a source has been saved since.
RefuseOutdated(d, last) ==
  /\ AtStage(d, "verify")
  /\ outputs = jvm[d].run.snap
  /\ Ended(d, "refused", last)

Finish(d, last) ==
  /\ AtStage(d, "run")
  /\ Ended(d, "ok", last)

\* JUnit leaves no case report.
FinishEmpty(d, last) ==
  /\ AtStage(d, "run")
  /\ Ended(d, "refused", last)

\* An interrupted run reports what the interrupt made of its tests, or breaks
\* off where the thread next touches a channel.
FinishCut(d, last) ==
  /\ jvm[d].run # None
  /\ jvm[d].run.cut
  /\ \/ AtStage(d, "run") /\ Ended(d, "spoiled", last)
     \/ Ended(d, "broken", last)

Exit(d) ==
  /\ jvm[d].life = "leaving"
  /\ Dies(d)
  /\ UNCHANGED <<shared, own, faults>>

\* Mutant: an idle daemon waits for its run to end.
IdleExitVariant(d) ==
  /\ jvm[d].life = "serving"
  /\ jvm[d].left = {} /\ jvm[d].run = None
  /\ \A c \in Client : line[c] # None => ~(line[c].daemon = d /\ line[c].state = "queued")
  /\ Dies(d)
  /\ sock' = None
  /\ UNCHANGED <<outputs, meta, own, faults>>

\* Nobody connected for `IDLE_SECONDS`, a run under way or not: `main` returns,
\* and removes the socket that is at the path by then.
IdleExit(d) ==
  /\ jvm[d].life = "serving"
  /\ jvm[d].left = {}
  /\ \A c \in Client : line[c] # None => ~(line[c].daemon = d /\ line[c].state = "queued")
  /\ Dies(d)
  /\ sock' = None
  /\ UNCHANGED <<outputs, meta, own, faults>>

Crash(d) ==
  /\ Faulty
  /\ jvm[d].life # "gone"
  /\ Dies(d)
  /\ UNCHANGED <<shared, own>>

\* Another compiler writes the outputs.
Recompile ==
  /\ outputs' \in Output \ {outputs}
  /\ UNCHANGED <<sock, meta, jvm, own, line, faults>>

Step(c) ==
  \/ Ensure(c) \/ Quit(c) \/ ClearSocket(c) \/ ClearMeta(c)
  \/ Spawn(c) \/ WriteMeta(c) \/ Knock(c)
  \/ Ask(c) \/ Started(c) \/ Send(c) \/ Report(c) \/ Fail(c)

\* Every connection has a thread of its own.
Answer(d, c) ==
  \/ AnswerHello(d, c) \/ AnswerStop(d, c) \/ AnswerCancel(d, c)
  \/ AcceptRun(d, c) \/ RefuseRun(d, c)

Boot(d) == Unbind(d) \/ Bind(d) \/ BindFailed(d) \/ WarmedUp(d)

Work(d) ==
  \/ Verified(d)
  \/ \E last \in BOOLEAN :
       \/ RefuseStale(d, last) \/ RefuseOutdated(d, last)
       \/ Finish(d, last) \/ FinishEmpty(d, last) \/ FinishCut(d, last)

Next ==
  \/ \E c \in Client, command \in Goals : Command(c, command)
  \/ \E c \in Client : Step(c) \/ StartTimeout(c) \/ RunTooLong(c) \/ AnswerTooLate(c) \/ TimedOut(c) \/ Kill(c)
  \/ \E d \in Daemon, c \in Client : Answer(d, c)
  \/ \E d \in Daemon : Boot(d) \/ AnswerLeft(d) \/ Work(d) \/ Exit(d) \/ IdleExit(d) \/ Crash(d)
  \/ Recompile

Spec == Init /\ [][Next]_vars

GiveUp(c) == RunTooLong(c) \/ TimedOut(c)

\* A client that can go on does, its timers go off, and a JVM's own thread and
\* those of its connections are scheduled.  JUnit itself may run for ever:
\* nothing is assumed of `Work`.  The timer of a start runs while the knocks come
\* and go, and `Spawn` waits for nothing but the bound on JVMs: both are strong.
FairSpec ==
  /\ Spec
  /\ \A c \in Client : WF_vars(Step(c) \/ GiveUp(c)) /\ SF_vars(StartTimeout(c)) /\ SF_vars(Spawn(c))
  /\ \A d \in Daemon :
       /\ WF_vars(Boot(d) \/ AnswerLeft(d) \/ Exit(d) \/ IdleExit(d))
       /\ \A c \in Client : WF_vars(Answer(d, c))

-----------------------------------------------------------------------------
Jvm ==
  [life : {"gone", "starting", "binding"} \cup Alive,
   run : RunRecord \cup {None}, left : SUBSET Kinds]

Label == {"idle", "ensure", "hello", "quit", "quitting", "clear", "clearing", "start",
          "record", "knock", "knocking", "send", "await", "cancelling"}

Connecting == {"hello", "quitting", "knocking", "await", "cancelling"}

\* What a client holds at each position.
Placed(c) ==
  /\ pc[c] \in Connecting => line[c] # None
  /\ line[c] # None /\ ~Answered(c) => pc[c] \in Connecting
  /\ key[c] # None <=> pc[c] \in Connecting \cup {"record", "knock", "send"}
  /\ snap[c] # None <=> pc[c] \in {"send", "await"}
  /\ goal[c] # None <=> pc[c] # "idle"
  /\ goal[c] \in Goals \ {"stop"} => asked[c] # None
  /\ pc[c] \in {"start", "record"} => goal[c] \in {"test", "start"}

\* Every variable has its type; what a client has connected is what its
\* position says, and it has a cookie to send wherever it connects.
TypeOK ==
  /\ outputs \in Output
  /\ sock \in Daemon \cup {None}
  /\ meta \in {None} \cup [daemon : Daemon, classpath : Classpath]
  /\ jvm \in [Daemon -> Jvm]
  /\ pc \in [Client -> Label]
  /\ goal \in [Client -> Goals \cup {None}]
  /\ asked \in [Client -> Classpath \cup {None}]
  /\ key \in [Client -> Daemon \cup {None}]
  /\ snap \in [Client -> Output \cup {None}]
  /\ line \in [Client -> Exchange \cup {None}]
  /\ faults \in 0..MaxFaults
  /\ \A c \in Client : Placed(c)

Open(c, d) == line[c] # None /\ line[c].daemon = d /\ line[c].state = "open"
RunsFor(d, c) == jvm[d].run # None /\ jvm[d].run.by = c

\* The daemon runs one request at a time and answers the client whose request
\* that is: a client waits for a run it was given exactly when that run is the
\* daemon's active one, and no run outlives its JVM.
OpenLineIsRun ==
  /\ \A c \in Client, d \in Daemon : Open(c, d) <=> RunsFor(d, c)
  /\ \A d \in Daemon : jvm[d].run # None => jvm[d].life \in Serving

\* A report is of one run, and that run began on the outputs the client had
\* taken its snapshot of: the promise of `WarmTests`.
Phase(c) ==
  IF pc[c] = "send" THEN "asked"
  ELSE IF pc[c] # "await" THEN "idle"
  ELSE IF line[c].state \in {"refused", "broken"} THEN "idle"
  ELSE IF Answered(c) THEN "reported"
  ELSE IF line[c].state = "open" /\ jvm[line[c].daemon].run.stage = "run" THEN "running"
  ELSE "asked"

Promise == INSTANCE WarmTests WITH
  phase <- [c \in Client |-> Phase(c)],
  snap <- [c \in Client |-> IF Phase(c) = "idle" THEN None ELSE snap[c]]

Implements == Promise!Spec

\* Every command ends, the run it asked for may hang and the daemons may come
\* and go as they like: no exchange waits for ever and no restart repeats.
EveryCommandEnds == \A c \in Client : []<>(pc[c] = "idle")

\* A daemon whose socket is no longer at the path is not left running: nobody
\* can reach it, and it goes by itself.
Orphan(d) == jvm[d].life \in Alive /\ sock # d

OrphansDie == \A d \in Daemon : []<>~Orphan(d)

\* What may keep a client from its report.  An idle exit does whenever some
\* daemon's socket is at the path: it removes that socket, and the daemon it
\* strands is the next one to do so.  So does a source that is newer than the
\* classes, for as long as nobody compiles it.
Disturbed(c) ==
  \/ \E o \in Client, command \in Goals : (o # c \/ command # "test") /\ Command(o, command)
  \/ Recompile
  \/ GiveUp(c)
  \/ StartTimeout(c) /\ (sock = key[c] \/ jvm[key[c]].life \in {"starting", "binding"})
  \/ \E d \in Daemon :
       \/ sock # None /\ IdleExit(d)
       \/ /\ RunsFor(d, c)
          /\ \E last \in BOOLEAN : RefuseOutdated(d, last) \/ FinishEmpty(d, last) \/ FinishCut(d, last)

\* Whatever others and crashes have left behind, one client on its own gets its
\* reports again: a dead socket, metadata that names the wrong daemon, a
\* daemon that answers to another cookie, an abandoned run.
SelfHeals ==
  (\A d \in Daemon : WF_vars(Work(d))) =>
    \A c \in Client :
      []<><<Command(c, "test")>>_vars => []<><<Report(c)>>_vars \/ []<><<Disturbed(c)>>_vars
=============================================================================
