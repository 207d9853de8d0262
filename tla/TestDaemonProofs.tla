-------------------------- MODULE TestDaemonProofs --------------------------
(***************************************************************************)
(* What the warm test engine keeps for any number of clients, daemons,     *)
(* classpaths, outputs and faults: the types, with what a client holds at  *)
(* each position, and the pairing of open runs with the clients they are   *)
(* for.  The two are inductive only together: that an answer may be given  *)
(* at all follows from the pairing, and the pairing from the exchange's    *)
(* type.  With two facts about requests they give the promise: whatever    *)
(* daemons do, what clients hear is what WarmTests allows.                 *)
(***************************************************************************)
EXTENDS TestDaemon, TLAPS

Inv == TypeOK /\ OpenLineIsRun

Jvms == [Daemon -> Jvm]

-----------------------------------------------------------------------------
(* Changes of one field of one JVM.                                        *)

(* A JVM moves to another stage of its life.                               *)
LEMMA SetLife ==
  ASSUME NEW j \in Jvms, NEW d \in Daemon,
         NEW life \in {"gone", "starting", "binding"} \cup Alive
  PROVE  [j EXCEPT ![d].life = life] \in Jvms
  BY DEF Jvms, Jvm

(* A JVM takes or drops its active run.                                    *)
LEMMA SetRun ==
  ASSUME NEW j \in Jvms, NEW d \in Daemon, NEW run \in RunRecord \cup {None}
  PROVE  [j EXCEPT ![d].run = run] \in Jvms
  BY DEF Jvms, Jvm

(* A JVM drops its run and moves on.                                       *)
LEMMA SetRunAndLife ==
  ASSUME NEW j \in Jvms, NEW d \in Daemon, NEW run \in RunRecord \cup {None},
         NEW life \in {"gone", "starting", "binding"} \cup Alive
  PROVE  [j EXCEPT ![d].run = run, ![d].life = life] \in Jvms
  BY DEF Jvms, Jvm

(* A JVM keeps other requests of clients that left.                        *)
LEMMA SetLeft ==
  ASSUME NEW j \in Jvms, NEW d \in Daemon, NEW left \in SUBSET Kinds
  PROVE  [j EXCEPT ![d].left = left] \in Jvms
  BY DEF Jvms, Jvm

(* The active run is interrupted.                                          *)
LEMMA CutJvm ==
  ASSUME NEW j \in Jvms, NEW d \in Daemon, j[d].run # None
  PROVE  [j EXCEPT ![d].run.cut = TRUE] \in Jvms
  BY DEF Jvms, Jvm, RunRecord

(* The active run goes on for nobody.                                      *)
LEMMA OrphanedJvm ==
  ASSUME NEW j \in Jvms, NEW d \in Daemon, j[d].run # None
  PROVE  [j EXCEPT ![d].run.by = None] \in Jvms
  BY DEF Jvms, Jvm, RunRecord

(* A JVM is started.                                                       *)
LEMMA StartedJvm ==
  ASSUME NEW j \in Jvms, NEW d \in Daemon
  PROVE  [j EXCEPT ![d] = [Free EXCEPT !.life = "starting"]] \in Jvms
<1>1. [Free EXCEPT !.life = "starting"] \in Jvm
  BY DEF Free, Jvm
<1> QED
  BY <1>1 DEF Jvms

(* The outputs of the active run have been verified.                       *)
LEMMA VerifiedJvm ==
  ASSUME NEW j \in Jvms, NEW d \in Daemon, j[d].run # None
  PROVE  [j EXCEPT ![d].run = [@ EXCEPT !.stage = "run", !.snap = None]] \in Jvms
<1>1. [j[d].run EXCEPT !.stage = "run", !.snap = None] \in RunRecord
  BY DEF Jvms, Jvm, RunRecord
<1> QED
  BY <1>1, SetRun

-----------------------------------------------------------------------------
(* Each step keeps the types.                                              *)

(* A client that leaves takes nothing of the daemon's type with it.        *)
LEMMA AbandonedType ==
  ASSUME Inv, NEW c \in Client
  PROVE  Abandoned(c) \in Jvms
<1>1. jvm \in Jvms
  BY DEF Inv, TypeOK, Jvms
<1>2. CASE line[c] = None \/ Answered(c)
  BY <1>1, <1>2 DEF Abandoned
<1>3. CASE line[c] # None /\ ~Answered(c)
  <2> DEFINE d == line[c].daemon
  <2>1. d \in Daemon /\ line[c].kind \in Kinds
    BY <1>3 DEF Inv, TypeOK, Placed, Exchange, Broken, Answered, Waiting
  <2>2. CASE line[c].state = "open"
    <3>1. jvm[d].run # None
      BY <1>3, <2>1, <2>2 DEF Inv, OpenLineIsRun, Open, RunsFor
    <3> QED
      BY <1>1, <1>3, <2>1, <2>2, <3>1, OrphanedJvm DEF Abandoned
  <2>3. CASE line[c].state # "open"
    <3>1. jvm[d].left \cup {line[c].kind} \in SUBSET Kinds
      BY <1>1, <2>1 DEF Jvms, Jvm
    <3>2. [jvm EXCEPT ![d].left = @ \cup {line[c].kind}] \in Jvms
      BY <1>1, <2>1, <3>1, SetLeft
    <3> QED
      BY <1>1, <1>3, <2>3, <3>2 DEF Abandoned
  <2> QED
    BY <2>2, <2>3
<1> QED
  BY <1>2, <1>3

(* The answer to a run is a step of the client it was for.                 *)
LEMMA EndedType ==
  ASSUME Inv, NEW d \in Daemon, jvm[d].run # None, NEW last \in BOOLEAN,
         NEW state \in {"ok", "spoiled", "refused", "broken"}, Ended(d, state, last)
  PROVE  TypeOK'
<1>0. TypeOK /\ jvm \in Jvms
  BY DEF Inv, TypeOK, Jvms
<1>1. jvm' \in Jvms
  <2>1. Spent(d, last) \in {"gone", "starting", "binding"} \cup Alive
    BY <1>0 DEF Jvms, Jvm, Spent, Alive
  <2> QED
    BY <1>0, <2>1, SetRunAndLife DEF Ended
<1> DEFINE b == jvm[d].run.by
<1>2. b \in Client \cup {None}
  BY <1>0 DEF Jvms, Jvm, RunRecord
<1>3. b # None => line[b] \in Exchange /\ line[b] # Broken /\ line[b].state = "open"
  BY <1>2, NoneAssumption DEF Inv, TypeOK, OpenLineIsRun, Open, RunsFor,
     Broken, Exchange
<1>4. b # None => line'[b] \in Exchange /\ line'[b].state = state /\ line'[b] # None
  BY <1>0, <1>2, <1>3, NoneAssumption DEF Ended, Exchange, Broken, TypeOK
<1>5. \A c \in Client : c # b => line'[c] = line[c]
  BY <1>0, <1>2, NoneAssumption DEF Ended, TypeOK
<1>6. line' \in [Client -> Exchange \cup {None}]
  BY <1>0, <1>2, <1>4, <1>5, NoneAssumption DEF Ended, TypeOK
<1>7. b # None => pc[b] \in Connecting
  BY <1>0, <1>2, <1>3, NoneAssumption DEF TypeOK, Placed, Answered, Waiting
<1>8. /\ outputs' = outputs /\ sock' = sock /\ meta' = meta /\ faults' = faults
      /\ pc' = pc /\ goal' = goal /\ asked' = asked /\ key' = key /\ snap' = snap
  BY DEF Ended, shared, own
<1>9. ASSUME NEW c \in Client PROVE Placed(c)'
  <2>1. Placed(c)
    BY <1>0 DEF TypeOK
  <2>2. CASE c = b
    BY <1>4, <1>7, <1>8, <2>1, <2>2, NoneAssumption DEF Placed
  <2>3. CASE c # b
    BY <1>5, <1>8, <2>1, <2>3 DEF Placed, Answered
  <2> QED
    BY <2>2, <2>3
<1> QED
  BY <1>0, <1>1, <1>6, <1>8, <1>9 DEF TypeOK, Jvms

(* Removing the metadata keeps the types.                                  *)
LEMMA ClearMetaType ==
  ASSUME Inv, NEW c \in Client, ClearMeta(c)
  PROVE  TypeOK'
<1>1. jvm \in Jvms /\ jvm' \in Jvms
  BY DEF Inv, TypeOK, Jvms, ClearMeta
<1>2. TypeOK
  BY DEF Inv
<1> QED
  BY <1>1, <1>2, NoneAssumption, BoundAssumption, SMTT(30) DEF ClearMeta,
     TypeOK, Placed, Jvms, Exchange, Broken, Label, Connecting, Waiting,
     Kinds, Goals, Goto, End, Answered

(* A stop keeps the types.                                                 *)
LEMMA AnswerStopType ==
  ASSUME Inv, NEW d \in Daemon, NEW c \in Client, AnswerStop(d, c)
  PROVE  TypeOK'
<1>1. jvm \in Jvms /\ jvm' \in Jvms
  BY SetLife DEF Inv, TypeOK, Jvms, AnswerStop, Alive
<1>2. TypeOK
  BY DEF Inv
<1> QED
  BY <1>1, <1>2, NoneAssumption, BoundAssumption, SMTT(30) DEF AnswerStop,
     Asks, Reply, TypeOK, Placed, Jvms, Exchange, Broken, Label, Connecting,
     Waiting, Kinds, Goals, shared, own, Answered

(* Starting a JVM keeps the types.                                         *)
LEMMA SpawnType ==
  ASSUME Inv, NEW c \in Client, Spawn(c)
  PROVE  TypeOK'
<1>1. TypeOK /\ jvm \in Jvms
  BY DEF Inv, TypeOK, Jvms
<1>2. PICK d \in Daemon :
        /\ jvm' = [jvm EXCEPT ![d] = [Free EXCEPT !.life = "starting"]]
        /\ key' = [key EXCEPT ![c] = d]
  BY DEF Spawn
<1>3. jvm' \in Jvms
  BY <1>1, <1>2, StartedJvm
<1> QED
  BY <1>1, <1>2, <1>3, NoneAssumption, BoundAssumption, SMTT(30) DEF Spawn,
     TypeOK, Placed, Jvms, Exchange, Broken, Label, Connecting, Waiting,
     Kinds, Goals, shared, Goto, Answered

(* Recording it keeps the types.                                           *)
LEMMA WriteMetaType ==
  ASSUME Inv, NEW c \in Client, WriteMeta(c)
  PROVE  TypeOK'
<1>1. jvm \in Jvms /\ jvm' \in Jvms
  BY DEF Inv, TypeOK, Jvms, WriteMeta
<1>2. TypeOK
  BY DEF Inv
<1> QED
  BY <1>1, <1>2, NoneAssumption, BoundAssumption, SMTT(30) DEF WriteMeta,
     TypeOK, Placed, Jvms, Exchange, Broken, Label, Connecting, Waiting,
     Kinds, Goals, Goto, Answered

(* Asking keeps the types.                                                 *)
LEMMA AskType ==
  ASSUME Inv, NEW c \in Client, Ask(c)
  PROVE  TypeOK'
<1>1. jvm \in Jvms /\ jvm' \in Jvms
  BY DEF Inv, TypeOK, Jvms, Ask
<1>2. TypeOK
  BY DEF Inv
<1> QED
  BY <1>1, <1>2, NoneAssumption, BoundAssumption, SMTT(30) DEF Ask, Greeted,
     TypeOK, Placed, Jvms, Exchange, Broken, Label, Connecting, Waiting,
     Kinds, Goals, shared, Goto, End, Close, Answered, Welcomed

(* Giving up on a run keeps the types.                                     *)
LEMMA RunTooLongType ==
  ASSUME Inv, NEW c \in Client, RunTooLong(c)
  PROVE  TypeOK'
<1>1. jvm \in Jvms /\ jvm' \in Jvms
  BY AbandonedType DEF Inv, TypeOK, Jvms, RunTooLong, HangUp
<1>2. TypeOK
  BY DEF Inv
<1> QED
  BY <1>1, <1>2, NoneAssumption, BoundAssumption, SMTT(30) DEF RunTooLong,
     HangUp, TypeOK, Placed, Jvms, Exchange, Broken, Label, Connecting,
     Waiting, Kinds, Goals, shared, own, Answered

(* Giving up on an answer keeps the types.                                 *)
LEMMA AnswerTooLateType ==
  ASSUME Inv, NEW c \in Client, AnswerTooLate(c)
  PROVE  TypeOK'
<1>1. jvm \in Jvms /\ jvm' \in Jvms
  BY AbandonedType DEF Inv, TypeOK, Jvms, AnswerTooLate, HangUp
<1>2. TypeOK
  BY DEF Inv
<1> QED
  BY <1>1, <1>2, NoneAssumption, BoundAssumption, SMTT(30) DEF AnswerTooLate,
     HangUp, TypeOK, Placed, Jvms, Exchange, Broken, Label, Connecting,
     Waiting, Kinds, Goals, shared, own, Answered, Faulty

(* A run's time limit keeps the types.                                     *)
LEMMA TimedOutType ==
  ASSUME Inv, NEW c \in Client, TimedOut(c)
  PROVE  TypeOK'
<1>1. jvm \in Jvms /\ jvm' \in Jvms
  BY AbandonedType DEF Inv, TypeOK, Jvms, TimedOut
<1>2. TypeOK
  BY DEF Inv
<1> QED
  BY <1>1, <1>2, NoneAssumption, BoundAssumption, SMTT(30) DEF TimedOut,
     TypeOK, Placed, Jvms, Exchange, Broken, Label, Connecting, Waiting,
     Kinds, Goals, shared, Goto, Connected, Connect, Answered

(* Ctrl-C keeps the types.                                                 *)
LEMMA KillType ==
  ASSUME Inv, NEW c \in Client, Kill(c)
  PROVE  TypeOK'
<1>1. jvm \in Jvms /\ jvm' \in Jvms
  BY AbandonedType DEF Inv, TypeOK, Jvms, Kill
<1>2. TypeOK
  BY DEF Inv
<1> QED
  BY <1>1, <1>2, NoneAssumption, BoundAssumption, SMTT(30) DEF Kill, TypeOK,
     Placed, Jvms, Exchange, Broken, Label, Connecting, Waiting, Kinds, Goals,
     shared, Goto, End, Close, Answered, Faulty

(* Removing the old socket keeps the types.                                *)
LEMMA UnbindType ==
  ASSUME Inv, NEW d \in Daemon, Unbind(d)
  PROVE  TypeOK'
<1>1. jvm \in Jvms /\ jvm' \in Jvms
  BY SetLife DEF Inv, TypeOK, Jvms, Unbind, Alive
<1>2. TypeOK
  BY DEF Inv
<1> QED
  BY <1>1, <1>2, NoneAssumption, BoundAssumption, SMTT(30) DEF Unbind, TypeOK,
     Placed, Jvms, Exchange, Broken, Label, Connecting, Waiting, Kinds, Goals,
     own, Answered

(* Binding keeps the types.                                                *)
LEMMA BindType ==
  ASSUME Inv, NEW d \in Daemon, Bind(d)
  PROVE  TypeOK'
<1>1. jvm \in Jvms /\ jvm' \in Jvms
  BY SetLife DEF Inv, TypeOK, Jvms, Bind, Alive
<1>2. TypeOK
  BY DEF Inv
<1> QED
  BY <1>1, <1>2, NoneAssumption, BoundAssumption, SMTT(30) DEF Bind, TypeOK,
     Placed, Jvms, Exchange, Broken, Label, Connecting, Waiting, Kinds, Goals,
     own, Answered

(* Warming up keeps the types.                                             *)
LEMMA WarmedUpType ==
  ASSUME Inv, NEW d \in Daemon, WarmedUp(d)
  PROVE  TypeOK'
<1>1. jvm \in Jvms /\ jvm' \in Jvms
  BY SetLife DEF Inv, TypeOK, Jvms, WarmedUp, Alive
<1>2. TypeOK
  BY DEF Inv
<1> QED
  BY <1>1, <1>2, NoneAssumption, BoundAssumption, SMTT(30) DEF WarmedUp,
     TypeOK, Placed, Jvms, Exchange, Broken, Label, Connecting, Waiting,
     Kinds, Goals, shared, own, Answered

(* Verifying the outputs keeps the types.                                  *)
LEMMA VerifiedType ==
  ASSUME Inv, NEW d \in Daemon, Verified(d)
  PROVE  TypeOK'
<1>1. jvm \in Jvms /\ jvm' \in Jvms
  BY VerifiedJvm DEF Inv, TypeOK, Jvms, Verified, AtStage
<1>2. TypeOK
  BY DEF Inv
<1> QED
  BY <1>1, <1>2, NoneAssumption, BoundAssumption, SMTT(30) DEF Verified,
     TypeOK, Placed, Jvms, Exchange, Broken, Label, Connecting, Waiting,
     Kinds, Goals, shared, own, Answered

(* A cancel keeps the types.                                               *)
LEMMA AnswerCancelType ==
  ASSUME Inv, NEW d \in Daemon, NEW c \in Client, AnswerCancel(d, c)
  PROVE  TypeOK'
<1>1. jvm \in Jvms /\ jvm' \in Jvms
  BY CutJvm DEF Inv, TypeOK, Jvms, AnswerCancel
<1>2. TypeOK
  BY DEF Inv
<1> QED
  BY <1>1, <1>2, NoneAssumption, BoundAssumption, SMTT(30) DEF AnswerCancel,
     Asks, Reply, TypeOK, Placed, Jvms, Exchange, Broken, Label, Connecting,
     Waiting, Kinds, Goals, shared, own, Answered

(* Taking a run on keeps the types.                                        *)
LEMMA AcceptRunType ==
  ASSUME Inv, NEW d \in Daemon, NEW c \in Client, AcceptRun(d, c)
  PROVE  TypeOK'
<1>1. jvm \in Jvms /\ jvm' \in Jvms
  BY SetRun DEF Inv, TypeOK, Jvms, AcceptRun, RunRecord
<1>2. TypeOK
  BY DEF Inv
<1> QED
  BY <1>1, <1>2, NoneAssumption, BoundAssumption, SMTT(30) DEF AcceptRun,
     Asks, Reply, TypeOK, Placed, Jvms, Exchange, Broken, Label, Connecting,
     Waiting, Kinds, Goals, shared, own, Answered

(* Refusing a run keeps the types.                                         *)
LEMMA RefuseRunType ==
  ASSUME Inv, NEW d \in Daemon, NEW c \in Client, RefuseRun(d, c)
  PROVE  TypeOK'
<1>1. TypeOK /\ jvm \in Jvms
  BY DEF Inv, TypeOK, Jvms
<1>2. PICK last \in BOOLEAN : jvm' = [jvm EXCEPT ![d].life = Spent(d, last)]
  BY DEF RefuseRun
<1>3. Spent(d, last) \in {"gone", "starting", "binding"} \cup Alive
  BY <1>1 DEF Jvms, Jvm, Spent, Alive
<1>4. jvm' \in Jvms
  BY <1>1, <1>2, <1>3, SetLife
<1> QED
  BY <1>1, <1>4, NoneAssumption, BoundAssumption, SMTT(30) DEF RefuseRun,
     Asks, Reply, TypeOK, Placed, Jvms, Exchange, Broken, Label, Connecting,
     Waiting, Kinds, Goals, shared, own, Answered

(* A request whose client has left keeps the types.                        *)
LEMMA AnswerLeftType ==
  ASSUME Inv, NEW d \in Daemon, AnswerLeft(d)
  PROVE  TypeOK'
<1>1. TypeOK /\ jvm \in Jvms
  BY DEF Inv, TypeOK, Jvms
<1>2. jvm' \in Jvms
  BY <1>1, NoneAssumption DEF AnswerLeft, ForNobody, Jvms, Jvm, RunRecord,
     Alive
<1> QED
  BY <1>1, <1>2, NoneAssumption, BoundAssumption, SMTT(30) DEF AnswerLeft,
     TypeOK, Placed, Jvms, Exchange, Broken, Label, Connecting, Waiting,
     Kinds, Goals, shared, own, Answered

(* A stale snapshot keeps the types.                                       *)
LEMMA RefuseStaleType ==
  ASSUME Inv, NEW d \in Daemon, NEW last \in BOOLEAN, RefuseStale(d, last)
  PROVE  TypeOK'
  BY EndedType DEF RefuseStale, AtStage

(* Classes older than a source keep the types.                            *)
LEMMA RefuseOutdatedType ==
  ASSUME Inv, NEW d \in Daemon, NEW last \in BOOLEAN, RefuseOutdated(d, last)
  PROVE  TypeOK'
  BY EndedType DEF RefuseOutdated, AtStage

(* A run's end keeps the types.                                            *)
LEMMA FinishType ==
  ASSUME Inv, NEW d \in Daemon, NEW last \in BOOLEAN, Finish(d, last)
  PROVE  TypeOK'
  BY EndedType DEF Finish, AtStage

(* A run without reports keeps the types.                                  *)
LEMMA FinishEmptyType ==
  ASSUME Inv, NEW d \in Daemon, NEW last \in BOOLEAN, FinishEmpty(d, last)
  PROVE  TypeOK'
  BY EndedType DEF FinishEmpty, AtStage

(* An interrupted run's end keeps the types.                               *)
LEMMA FinishCutType ==
  ASSUME Inv, NEW d \in Daemon, NEW last \in BOOLEAN, FinishCut(d, last)
  PROVE  TypeOK'
  BY EndedType DEF FinishCut, AtStage

-----------------------------------------------------------------------------
(* Each step keeps open runs and the clients they are for paired.          *)

(* A client that leaves gives up its own run and no other.                 *)
LEMMA AbandonedRuns ==
  ASSUME Inv, NEW c \in Client, jvm' = Abandoned(c)
  PROVE  /\ \A d \in Daemon, b \in Client : RunsFor(d, b)' <=> RunsFor(d, b) /\ b # c
         /\ \A d \in Daemon : jvm'[d].life = jvm[d].life
         /\ \A d \in Daemon : jvm'[d].run # None => jvm[d].run # None
<1>1. CASE line[c] = None \/ Answered(c)
  <2>1. \A d \in Daemon : ~RunsFor(d, c)
    BY <1>1, NoneAssumption DEF Inv, OpenLineIsRun, Open, Answered, Waiting
  <2> QED
    BY <1>1, <2>1 DEF Abandoned, RunsFor
<1>2. CASE line[c] # None /\ ~Answered(c)
  <2>1. PICK d \in Daemon : d = line[c].daemon
    BY <1>2 DEF Inv, TypeOK, Exchange, Broken, Answered, Waiting
  <2>2. CASE line[c].state = "open"
    <3>1. RunsFor(d, c)
      BY <1>2, <2>1, <2>2 DEF Inv, OpenLineIsRun, Open
    <3>2. jvm' = [jvm EXCEPT ![d].run.by = None]
      BY <1>2, <2>1, <2>2 DEF Abandoned
    <3>3. /\ jvm \in [Daemon -> Jvm]
          /\ jvm[d].run \in RunRecord
      BY <2>1, <3>1 DEF Inv, TypeOK, Jvm, RunsFor
    <3>4. /\ jvm'[d].run = [jvm[d].run EXCEPT !.by = None]
          /\ jvm'[d].life = jvm[d].life
          /\ \A e \in Daemon : e # d => jvm'[e] = jvm[e]
      BY <2>1, <3>2, <3>3 DEF Jvm
    <3>5. \A e \in Daemon : e # d => ~RunsFor(e, c)
      BY <1>2, <2>1 DEF Inv, OpenLineIsRun, Open
    <3>6. jvm'[d].run.by = None
      BY <3>3, <3>4 DEF RunRecord
    <3>7. \A b \in Client : ~RunsFor(d, b)' /\ (RunsFor(d, b) => b = c)
      BY <3>1, <3>6, NoneAssumption DEF RunsFor
    <3>8. \A e \in Daemon, b \in Client : e # d => (RunsFor(e, b)' <=> RunsFor(e, b))
      BY <3>4 DEF RunsFor
    <3>9. \A e \in Daemon, b \in Client : RunsFor(e, b)' <=> RunsFor(e, b) /\ b # c
      BY <3>5, <3>7, <3>8
    <3>10. \A e \in Daemon : jvm'[e].run # None => jvm[e].run # None
      BY <3>1, <3>4 DEF RunsFor
    <3>11. \A e \in Daemon : jvm'[e].life = jvm[e].life
      BY <3>4
    <3> QED
      BY <3>9, <3>10, <3>11
  <2>3. CASE line[c].state # "open"
    <3>1. \A e \in Daemon : ~RunsFor(e, c)
      BY <1>2, <2>3 DEF Inv, OpenLineIsRun, Open
    <3>2. \A e \in Daemon : jvm'[e].run = jvm[e].run /\ jvm'[e].life = jvm[e].life
      BY <1>2, <2>1, <2>3 DEF Inv, TypeOK, Jvm, Abandoned
    <3> QED
      BY <3>1, <3>2 DEF RunsFor
  <2> QED
    BY <2>2, <2>3
<1> QED
  BY <1>1, <1>2

(* So the pairing survives its leaving.                                    *)
LEMMA LeavesRun ==
  ASSUME Inv, TypeOK', NEW c \in Client, jvm' = Abandoned(c),
         \A d \in Daemon : ~Open(c, d)',
         \A b \in Client \ {c} : line'[b] = line[b]
  PROVE  OpenLineIsRun'
<1>1. ASSUME NEW b \in Client, NEW d \in Daemon
      PROVE  Open(b, d)' <=> RunsFor(d, b)'
  <2>1. Open(b, d) <=> RunsFor(d, b)
    BY DEF Inv, OpenLineIsRun
  <2>2. RunsFor(d, b)' <=> RunsFor(d, b) /\ b # c
    BY AbandonedRuns
  <2>3. b # c => (Open(b, d)' <=> Open(b, d))
    BY DEF Open
  <2> QED
    BY <2>1, <2>2, <2>3
<1>2. \A d \in Daemon : jvm'[d].run # None => jvm'[d].life \in Serving
  BY AbandonedRuns DEF Inv, OpenLineIsRun
<1> QED
  BY <1>1, <1>2 DEF OpenLineIsRun

(* The pairing depends on runs, their clients, and open exchanges only.    *)
LEMMA SameRuns ==
  ASSUME Inv, TypeOK',
         \A d \in Daemon : /\ jvm'[d].run = None <=> jvm[d].run = None
                           /\ jvm[d].run # None => jvm'[d].run.by = jvm[d].run.by
                           /\ jvm[d].life \in Serving => jvm'[d].life \in Serving,
         \A c \in Client, d \in Daemon : Open(c, d)' <=> Open(c, d)
  PROVE  OpenLineIsRun'
<1>1. \A d \in Daemon, c \in Client : RunsFor(d, c)' <=> RunsFor(d, c)
  BY DEF RunsFor
<1>2. \A d \in Daemon : jvm'[d].run # None => jvm'[d].life \in Serving
  BY DEF Inv, OpenLineIsRun
<1> QED
  BY <1>1, <1>2 DEF Inv, OpenLineIsRun

(* A verified run is a run.                                                *)
LEMMA RunsOn ==
  ASSUME NEW r \in RunRecord
  PROVE  [r EXCEPT !.stage = "run", !.snap = None] \in RunRecord
  BY DEF RunRecord

(* The answer to a run ends the run and the wait together.                 *)
LEMMA EndedRun ==
  ASSUME Inv, TypeOK', NEW d \in Daemon, jvm[d].run # None, NEW last \in BOOLEAN,
         NEW state \in {"ok", "spoiled", "refused", "broken"}, Ended(d, state, last)
  PROVE  OpenLineIsRun'
<1> DEFINE b == jvm[d].run.by
<1>1. /\ jvm \in [Daemon -> Jvm] /\ line \in [Client -> Exchange \cup {None}]
      /\ b \in Client \cup {None}
  BY DEF Inv, TypeOK, Jvm, RunRecord
<1>2. jvm'[d].run = None /\ \A e \in Daemon : e # d => jvm'[e] = jvm[e]
  BY <1>1 DEF Ended, Jvm
<1>3. b # None => line'[b].state = state /\ RunsFor(d, b)
  BY <1>1, NoneAssumption DEF Ended, Exchange, Broken, RunsFor, Inv,
     OpenLineIsRun, Open
<1>4. \A c \in Client : c # b => line'[c] = line[c]
  BY <1>1, NoneAssumption DEF Ended
<1>5. \A c \in Client : c # b => ~RunsFor(d, c)
  BY DEF RunsFor
<1>6. ASSUME NEW c \in Client, NEW e \in Daemon
      PROVE  Open(c, e)' <=> RunsFor(e, c)'
  <2>1. /\ Open(c, e) <=> RunsFor(e, c)
        /\ Open(c, d) <=> RunsFor(d, c)
    BY DEF Inv, OpenLineIsRun
  <2>2. CASE c = b
    <3>1. ~Open(c, e)' /\ Open(c, d) /\ ~RunsFor(d, c)'
      BY <1>2, <1>3, <2>1, <2>2, NoneAssumption DEF Open, RunsFor
    <3>2. e # d => ~RunsFor(e, c)'
      BY <1>2, <2>1, <3>1 DEF Open, RunsFor
    <3> QED
      BY <3>1, <3>2
  <2>3. CASE c # b
    BY <1>2, <1>4, <1>5, <2>1, <2>3 DEF Open, RunsFor
  <2> QED
    BY <2>2, <2>3
<1>7. \A e \in Daemon : jvm'[e].run # None => jvm'[e].life \in Serving
  BY <1>2 DEF Inv, OpenLineIsRun
<1> QED
  BY <1>6, <1>7 DEF OpenLineIsRun

(* Removing the metadata keeps the pairing.                                *)
LEMMA ClearMetaRun ==
  ASSUME Inv, TypeOK', NEW c \in Client, ClearMeta(c)
  PROVE  OpenLineIsRun'
  BY NoneAssumption DEF Inv, ClearMeta, TypeOK, Open, RunsFor, Placed,
     OpenLineIsRun, Exchange, Broken, Connecting, Waiting, Serving, Goto, End,
     Answered, Jvm, RunRecord

(* A stop keeps the pairing.                                               *)
LEMMA AnswerStopRun ==
  ASSUME Inv, TypeOK', NEW d \in Daemon, NEW c \in Client, AnswerStop(d, c)
  PROVE  OpenLineIsRun'
  BY NoneAssumption DEF Inv, AnswerStop, Asks, Reply, TypeOK, Open, RunsFor,
     Placed, OpenLineIsRun, Exchange, Broken, Connecting, Waiting, Serving,
     shared, own, Answered, Jvm, RunRecord

(* Starting a JVM keeps the pairing.                                       *)
LEMMA SpawnRun ==
  ASSUME Inv, TypeOK', NEW c \in Client, Spawn(c)
  PROVE  OpenLineIsRun'
  BY NoneAssumption DEF Inv, Spawn, Fresh, TypeOK, Open, RunsFor, Placed,
     OpenLineIsRun, Exchange, Broken, Connecting, Waiting, Serving, shared,
     Goto, Answered, Jvm, RunRecord, Free

(* Recording it keeps the pairing.                                         *)
LEMMA WriteMetaRun ==
  ASSUME Inv, TypeOK', NEW c \in Client, WriteMeta(c)
  PROVE  OpenLineIsRun'
  BY NoneAssumption DEF Inv, WriteMeta, TypeOK, Open, RunsFor, Placed,
     OpenLineIsRun, Exchange, Broken, Connecting, Waiting, Serving, Goto,
     Answered, Jvm, RunRecord

(* Asking keeps the pairing.                                               *)
LEMMA AskRun ==
  ASSUME Inv, TypeOK', NEW c \in Client, Ask(c)
  PROVE  OpenLineIsRun'
  BY NoneAssumption DEF Inv, Ask, Greeted, TypeOK, Open, RunsFor, Placed,
     OpenLineIsRun, Exchange, Broken, Connecting, Waiting, Serving, shared,
     Goto, End, Close, Answered, Welcomed, Jvm, RunRecord

(* Giving up on a run keeps the pairing.                                   *)
LEMMA RunTooLongRun ==
  ASSUME Inv, TypeOK', NEW c \in Client, RunTooLong(c)
  PROVE  OpenLineIsRun'
  BY LeavesRun DEF Inv, TypeOK, RunTooLong, HangUp, Broken, Open

(* Giving up on an answer keeps the pairing.                               *)
LEMMA AnswerTooLateRun ==
  ASSUME Inv, TypeOK', NEW c \in Client, AnswerTooLate(c)
  PROVE  OpenLineIsRun'
  BY LeavesRun DEF Inv, TypeOK, AnswerTooLate, HangUp, Broken, Open

(* A run's time limit keeps the pairing.                                   *)
LEMMA TimedOutRun ==
  ASSUME Inv, TypeOK', NEW c \in Client, TimedOut(c)
  PROVE  OpenLineIsRun'
  BY LeavesRun DEF Inv, TypeOK, TimedOut, Connect, Connected, Broken, Open

(* Ctrl-C keeps the pairing.                                               *)
LEMMA KillRun ==
  ASSUME Inv, TypeOK', NEW c \in Client, Kill(c)
  PROVE  OpenLineIsRun'
  BY LeavesRun DEF Inv, TypeOK, Kill, Close, Open

(* Removing the old socket keeps the pairing.                              *)
LEMMA UnbindRun ==
  ASSUME Inv, TypeOK', NEW d \in Daemon, Unbind(d)
  PROVE  OpenLineIsRun'
  BY NoneAssumption DEF Inv, Unbind, TypeOK, Open, RunsFor, Placed,
     OpenLineIsRun, Exchange, Broken, Connecting, Waiting, Serving, own,
     Answered, Jvm, RunRecord

(* Binding keeps the pairing.                                              *)
LEMMA BindRun ==
  ASSUME Inv, TypeOK', NEW d \in Daemon, Bind(d)
  PROVE  OpenLineIsRun'
  BY NoneAssumption DEF Inv, Bind, TypeOK, Open, RunsFor, Placed,
     OpenLineIsRun, Exchange, Broken, Connecting, Waiting, Serving, own,
     Answered, Jvm, RunRecord

(* Warming up keeps the pairing.                                           *)
LEMMA WarmedUpRun ==
  ASSUME Inv, TypeOK', NEW d \in Daemon, WarmedUp(d)
  PROVE  OpenLineIsRun'
  BY NoneAssumption DEF Inv, WarmedUp, TypeOK, Open, RunsFor, Placed,
     OpenLineIsRun, Exchange, Broken, Connecting, Waiting, Serving, shared,
     own, Answered, Jvm, RunRecord

(* Verifying the outputs keeps the pairing.                                *)
LEMMA VerifiedRun ==
  ASSUME Inv, TypeOK', NEW d \in Daemon, Verified(d)
  PROVE  OpenLineIsRun'
<1>1. \A e \in Daemon : /\ jvm'[e].run = None <=> jvm[e].run = None
                        /\ jvm[e].run # None => jvm'[e].run.by = jvm[e].run.by
                        /\ jvm'[e].life = jvm[e].life
  <2>1. /\ jvm \in [Daemon -> Jvm]
        /\ jvm[d].run \in RunRecord
        /\ jvm' = [jvm EXCEPT ![d].run = [@ EXCEPT !.stage = "run", !.snap = None]]
    BY DEF Inv, TypeOK, Jvm, Verified, AtStage
  <2>2. /\ jvm'[d].run = [jvm[d].run EXCEPT !.stage = "run", !.snap = None]
        /\ jvm'[d].life = jvm[d].life
        /\ \A e \in Daemon : e # d => jvm'[e] = jvm[e]
    BY <2>1 DEF Jvm
  <2>3. jvm'[d].run.by = jvm[d].run.by
    BY <2>1, <2>2 DEF RunRecord
  <2>4. jvm'[d].run \in RunRecord
    BY <2>1, <2>2, RunsOn
  <2> QED
    BY <2>1, <2>2, <2>3, <2>4, NoneAssumption
<1>2. \A c \in Client, e \in Daemon : Open(c, e)' <=> Open(c, e)
  BY DEF Verified, Open
<1> QED
  BY <1>1, <1>2, SameRuns

(* A cancel keeps the pairing.                                             *)
LEMMA AnswerCancelRun ==
  ASSUME Inv, TypeOK', NEW d \in Daemon, NEW c \in Client, AnswerCancel(d, c)
  PROVE  OpenLineIsRun'
<1>1. \A e \in Daemon : /\ jvm'[e].run = None <=> jvm[e].run = None
                        /\ jvm[e].run # None => jvm'[e].run.by = jvm[e].run.by
                        /\ jvm'[e].life = jvm[e].life
  <2>1. CASE jvm' = jvm
    BY <2>1
  <2>2. CASE jvm[d].run # None /\ jvm' = [jvm EXCEPT ![d].run.cut = TRUE]
    <3>1. jvm \in [Daemon -> Jvm] /\ jvm[d].run \in RunRecord
      BY <2>2 DEF Inv, TypeOK, Jvm
    <3>2. /\ jvm'[d].run = [jvm[d].run EXCEPT !.cut = TRUE]
          /\ jvm'[d].life = jvm[d].life
          /\ \A e \in Daemon : e # d => jvm'[e] = jvm[e]
      BY <2>2, <3>1 DEF Jvm
    <3>3. jvm'[d].run \in RunRecord /\ jvm'[d].run.by = jvm[d].run.by
      BY <3>1, <3>2 DEF RunRecord
    <3> QED
      BY <2>2, <3>2, <3>3, NoneAssumption
  <2> QED
    BY <2>1, <2>2 DEF AnswerCancel
<1>2. \A b \in Client, e \in Daemon : Open(b, e)' <=> Open(b, e)
  BY NoneAssumption DEF Inv, TypeOK, AnswerCancel, Asks, Reply, Open, Exchange
<1> QED
  BY <1>1, <1>2, SameRuns

(* Taking a run on keeps the pairing.                                      *)
LEMMA AcceptRunRun ==
  ASSUME Inv, TypeOK', NEW d \in Daemon, NEW c \in Client, AcceptRun(d, c)
  PROVE  OpenLineIsRun'
<1>1. /\ jvm'[d].run # None /\ jvm'[d].run.by = c /\ jvm'[d].life = jvm[d].life
      /\ \A e \in Daemon : e # d => jvm'[e] = jvm[e]
  <2> DEFINE r == [by |-> c, stage |-> "verify", snap |-> snap[c], cut |-> FALSE]
  <2>1. jvm \in [Daemon -> Jvm] /\ r \in RunRecord
    BY DEF Inv, TypeOK, RunRecord
  <2>2. jvm' = [jvm EXCEPT ![d].run = r]
    BY DEF AcceptRun
  <2>3. r # None
    BY <2>1, NoneAssumption
  <2> QED
    BY <2>1, <2>2, <2>3 DEF Jvm
<1>2. /\ line'[c] # None /\ line'[c].daemon = d /\ line'[c].state = "open"
      /\ \A b \in Client : b # c => line'[b] = line[b]
  <2>1. /\ line \in [Client -> Exchange \cup {None}]
        /\ line[c] = [daemon |-> d, kind |-> "run", state |-> "queued"]
        /\ line' = [line EXCEPT ![c].state = "open"]
    BY DEF Inv, TypeOK, AcceptRun, Asks, Reply
  <2>2. line'[c] = [daemon |-> d, kind |-> "run", state |-> "open"]
    BY <2>1
  <2>3. line'[c] \in Exchange
    BY <2>2 DEF Exchange, Kinds, Waiting
  <2> QED
    BY <2>1, <2>2, <2>3, NoneAssumption
<1>3. jvm[d].run = None /\ jvm[d].life \in Serving /\ \A e \in Daemon : ~Open(c, e)
  BY DEF AcceptRun, Asks, Open
<1>4. ASSUME NEW b \in Client, NEW e \in Daemon
      PROVE  Open(b, e)' <=> RunsFor(e, b)'
  <2>1. Open(b, e) <=> RunsFor(e, b)
    BY DEF Inv, OpenLineIsRun
  <2> QED
    BY <1>1, <1>2, <1>3, <2>1 DEF Open, RunsFor
<1>5. \A e \in Daemon : jvm'[e].run # None => jvm'[e].life \in Serving
  BY <1>1, <1>3 DEF Inv, OpenLineIsRun
<1> QED
  BY <1>4, <1>5 DEF OpenLineIsRun

(* Refusing a run keeps the pairing.                                       *)
LEMMA RefuseRunRun ==
  ASSUME Inv, TypeOK', NEW d \in Daemon, NEW c \in Client, RefuseRun(d, c)
  PROVE  OpenLineIsRun'
  BY NoneAssumption DEF Inv, RefuseRun, Asks, Reply, Spent, TypeOK, Open,
     RunsFor, Placed, OpenLineIsRun, Exchange, Broken, Connecting, Waiting,
     Serving, shared, own, Answered, Jvm, RunRecord

(* A request whose client has left keeps the pairing.                      *)
LEMMA AnswerLeftRun ==
  ASSUME Inv, TypeOK', NEW d \in Daemon, AnswerLeft(d)
  PROVE  OpenLineIsRun'
<1>1. /\ \A e \in Daemon : jvm[e].life \in Serving => jvm'[e].life \in Serving
      /\ \A e \in Daemon : e # d => jvm'[e] = jvm[e]
      /\ jvm[d].life \in Serving
  <2>1. jvm[d].life \in Serving /\ \A e \in Daemon : e # d => jvm'[e] = jvm[e]
    BY DEF Inv, TypeOK, AnswerLeft
  <2>2. jvm'[d].life = jvm[d].life
    BY DEF Inv, TypeOK, Jvm, AnswerLeft
  <2> QED
    BY <2>1, <2>2
<1>2. jvm[d].run # None => jvm'[d].run # None /\ jvm'[d].run.by = jvm[d].run.by
  BY NoneAssumption DEF Inv, TypeOK, Jvm, RunRecord, AnswerLeft
<1>3. jvm[d].run = None => jvm'[d].run \in {None, ForNobody}
  BY DEF Inv, TypeOK, Jvm, AnswerLeft
<1>4. \A b \in Client : RunsFor(d, b)' <=> RunsFor(d, b)
  BY <1>2, <1>3, NoneAssumption DEF RunsFor, ForNobody
<1>5. \A b \in Client, e \in Daemon : Open(b, e)' <=> Open(b, e)
  BY DEF AnswerLeft, Open
<1>6. \A b \in Client, e \in Daemon : RunsFor(e, b)' <=> RunsFor(e, b)
  BY <1>1, <1>4 DEF RunsFor
<1>7. \A e \in Daemon : jvm'[e].run # None => jvm'[e].life \in Serving
  BY <1>1 DEF Inv, OpenLineIsRun
<1> QED
  BY <1>5, <1>6, <1>7 DEF Inv, OpenLineIsRun

(* A stale snapshot keeps the pairing.                                     *)
LEMMA RefuseStaleRun ==
  ASSUME Inv, TypeOK', NEW d \in Daemon, NEW last \in BOOLEAN, RefuseStale(d, last)
  PROVE  OpenLineIsRun'
  BY EndedRun DEF RefuseStale, AtStage

(* Classes older than a source keep the pairing.                          *)
LEMMA RefuseOutdatedRun ==
  ASSUME Inv, TypeOK', NEW d \in Daemon, NEW last \in BOOLEAN, RefuseOutdated(d, last)
  PROVE  OpenLineIsRun'
  BY EndedRun DEF RefuseOutdated, AtStage

(* A run's end keeps the pairing.                                          *)
LEMMA FinishRun ==
  ASSUME Inv, TypeOK', NEW d \in Daemon, NEW last \in BOOLEAN, Finish(d, last)
  PROVE  OpenLineIsRun'
  BY EndedRun DEF Finish, AtStage

(* A run without reports keeps the pairing.                                *)
LEMMA FinishEmptyRun ==
  ASSUME Inv, TypeOK', NEW d \in Daemon, NEW last \in BOOLEAN, FinishEmpty(d, last)
  PROVE  OpenLineIsRun'
  BY EndedRun DEF FinishEmpty, AtStage

(* An interrupted run's end keeps the pairing.                             *)
LEMMA FinishCutRun ==
  ASSUME Inv, TypeOK', NEW d \in Daemon, NEW last \in BOOLEAN, FinishCut(d, last)
  PROVE  OpenLineIsRun'
  BY EndedRun DEF FinishCut, AtStage

-----------------------------------------------------------------------------
(* The remaining steps keep both.                                          *)

(* A command keeps both.                                                   *)
LEMMA CommandStep ==
  ASSUME Inv, NEW c \in Client, NEW command \in Goals, Command(c, command)
  PROVE  Inv'
<1>1. TypeOK'
  BY NoneAssumption, BoundAssumption, SMTT(30) DEF Inv, Command,
     OpenLineIsRun, Open, RunsFor, TypeOK, Placed, Jvm, RunRecord, Exchange,
     Broken, Label, Connecting, Waiting, Alive, Serving, Kinds, Goals, shared,
     Goto, Answered
<1>2. OpenLineIsRun'
  BY <1>1, NoneAssumption, SMTT(30) DEF Inv, Command, TypeOK, OpenLineIsRun,
     Open, RunsFor, Placed, Jvm, RunRecord, Exchange, Broken, Connecting,
     Waiting, Serving, shared, Goto, Answered
<1> QED
  BY <1>1, <1>2 DEF Inv

(* Looking for a recorded daemon keeps both.                               *)
LEMMA EnsureStep ==
  ASSUME Inv, NEW c \in Client, Ensure(c)
  PROVE  Inv'
<1>1. TypeOK'
  <2>1. TypeOK /\ jvm' = jvm
    BY DEF Inv, Ensure
  <2>2. CASE Fits(c)
    <3>1. Connected("hello") \in Exchange
      BY <2>1 DEF TypeOK, Connected, Exchange, Kinds, Waiting
    <3> QED
      BY <2>1, <2>2, <3>1, NoneAssumption, BoundAssumption, SMTT(30) DEF Ensure, Fits,
         TypeOK, Placed, Connecting, Label, shared, Goto, Connect, Answered
  <2>3. CASE ~Fits(c)
    BY <2>1, <2>3, NoneAssumption, BoundAssumption, SMTT(30) DEF Ensure, TypeOK,
       Placed, Connecting, Label, shared, Goto, Answered
  <2> QED
    BY <2>2, <2>3
<1>2. OpenLineIsRun'
  BY <1>1, NoneAssumption, SMTT(30) DEF Inv, Ensure, Fits, TypeOK,
     OpenLineIsRun, Open, RunsFor, Placed, Jvm, RunRecord, Exchange, Broken,
     Connecting, Waiting, Serving, shared, Goto, Connected, Connect, Answered
<1> QED
  BY <1>1, <1>2 DEF Inv

(* A quiet stop keeps both.                                                *)
LEMMA QuitStep ==
  ASSUME Inv, NEW c \in Client, Quit(c)
  PROVE  Inv'
<1>1. TypeOK'
  <2>1. TypeOK /\ jvm' = jvm
    BY DEF Inv, Quit
  <2>2. CASE meta = None
    BY <2>1, <2>2, NoneAssumption, BoundAssumption, SMTT(30) DEF Quit, TypeOK, Placed,
       Connecting, Label, Goals, shared, Goto, Close, Answered, TurnedAway
  <2>3. CASE meta # None
    <3>1. Connected("stop") \in Exchange
      BY <2>1 DEF TypeOK, Connected, Exchange, Kinds, Waiting
    <3> QED
      BY <2>1, <2>3, <3>1, NoneAssumption, BoundAssumption, SMTT(30) DEF Quit, TypeOK,
         Placed, Connecting, Label, Goals, shared, Goto, Connect, Answered, TurnedAway
  <2> QED
    BY <2>2, <2>3
<1>2. OpenLineIsRun'
  BY <1>1, NoneAssumption, SMTT(30) DEF Inv, Quit, TypeOK, OpenLineIsRun,
     Open, RunsFor, Placed, Jvm, RunRecord, Exchange, Broken, Connecting,
     Waiting, Serving, shared, Goto, Connected, Connect, Close, Answered,
     Welcomed, TurnedAway
<1> QED
  BY <1>1, <1>2 DEF Inv

(* Removing the socket keeps both.                                         *)
LEMMA ClearSocketStep ==
  ASSUME Inv, NEW c \in Client, ClearSocket(c)
  PROVE  Inv'
<1>1. TypeOK'
  BY NoneAssumption, BoundAssumption, SMTT(30) DEF Inv, ClearSocket,
     ChildExited, OpenLineIsRun, Open, RunsFor, TypeOK, Placed, Jvm,
     RunRecord, Exchange, Broken, Label, Connecting, Waiting, Alive, Serving,
     Kinds, Goals, Goto, Close, Answered, Welcomed, TurnedAway
<1>2. OpenLineIsRun'
  BY <1>1, NoneAssumption, SMTT(30) DEF Inv, ClearSocket, ChildExited, TypeOK,
     OpenLineIsRun, Open, RunsFor, Placed, Jvm, RunRecord, Exchange, Broken,
     Connecting, Waiting, Serving, Goto, Close, Answered, Welcomed, TurnedAway
<1> QED
  BY <1>1, <1>2 DEF Inv

(* The first hello keeps both.                                             *)
LEMMA KnockStep ==
  ASSUME Inv, NEW c \in Client, Knock(c)
  PROVE  Inv'
<1>1. TypeOK'
  BY NoneAssumption, BoundAssumption, SMTT(30) DEF Inv, Knock, Unheard,
     OpenLineIsRun, Open, RunsFor, TypeOK, Placed, Jvm, RunRecord, Exchange,
     Broken, Label, Connecting, Waiting, Alive, Serving, Kinds, Goals, shared,
     Goto, Connected, Connect, Answered, Welcomed, TurnedAway
<1>2. OpenLineIsRun'
  BY <1>1, NoneAssumption, SMTT(30) DEF Inv, Knock, Unheard, TypeOK,
     OpenLineIsRun, Open, RunsFor, Placed, Jvm, RunRecord, Exchange, Broken,
     Connecting, Waiting, Serving, shared, Goto, Connected, Connect, Answered,
     Welcomed, TurnedAway
<1> QED
  BY <1>1, <1>2 DEF Inv

(* A start's end keeps both.                                               *)
LEMMA StartedStep ==
  ASSUME Inv, NEW c \in Client, Started(c)
  PROVE  Inv'
<1>1. TypeOK'
  BY NoneAssumption, BoundAssumption, SMTT(30) DEF Inv, Started, Greeted,
     OpenLineIsRun, Open, RunsFor, TypeOK, Placed, Jvm, RunRecord, Exchange,
     Broken, Label, Connecting, Waiting, Alive, Serving, Kinds, Goals, shared,
     Goto, End, Close, Answered, Welcomed
<1>2. OpenLineIsRun'
  BY <1>1, NoneAssumption, SMTT(30) DEF Inv, Started, Greeted, TypeOK,
     OpenLineIsRun, Open, RunsFor, Placed, Jvm, RunRecord, Exchange, Broken,
     Connecting, Waiting, Serving, shared, Goto, End, Close, Answered,
     Welcomed
<1> QED
  BY <1>1, <1>2 DEF Inv

(* Sending the run keeps both.                                             *)
LEMMA SendStep ==
  ASSUME Inv, NEW c \in Client, Send(c)
  PROVE  Inv'
<1>1. TypeOK'
  BY NoneAssumption, BoundAssumption, SMTT(30) DEF Inv, Send, OpenLineIsRun,
     Open, RunsFor, TypeOK, Placed, Jvm, RunRecord, Exchange, Broken, Label,
     Connecting, Waiting, Alive, Serving, Kinds, Goals, shared, Goto,
     Connected, Connect, Answered
<1>2. OpenLineIsRun'
  BY <1>1, NoneAssumption, SMTT(30) DEF Inv, Send, TypeOK, OpenLineIsRun,
     Open, RunsFor, Placed, Jvm, RunRecord, Exchange, Broken, Connecting,
     Waiting, Serving, shared, Goto, Connected, Connect, Answered
<1> QED
  BY <1>1, <1>2 DEF Inv

(* A report keeps both.                                                    *)
LEMMA ReportStep ==
  ASSUME Inv, NEW c \in Client, Report(c)
  PROVE  Inv'
<1>1. TypeOK'
  BY NoneAssumption, BoundAssumption, SMTT(30) DEF Inv, Report, Returned,
     OpenLineIsRun, Open, RunsFor, TypeOK, Placed, Jvm, RunRecord, Exchange,
     Broken, Label, Connecting, Waiting, Alive, Serving, Kinds, Goals, shared,
     Goto, End, Close, Answered
<1>2. OpenLineIsRun'
  BY <1>1, NoneAssumption, SMTT(30) DEF Inv, Report, Returned, TypeOK,
     OpenLineIsRun, Open, RunsFor, Placed, Jvm, RunRecord, Exchange, Broken,
     Connecting, Waiting, Serving, shared, Goto, End, Close, Answered
<1> QED
  BY <1>1, <1>2 DEF Inv

(* A refusal keeps both.                                                   *)
LEMMA FailStep ==
  ASSUME Inv, NEW c \in Client, Fail(c)
  PROVE  Inv'
<1>1. TypeOK'
  BY NoneAssumption, BoundAssumption, SMTT(30) DEF Inv, Fail, Returned,
     OpenLineIsRun, Open, RunsFor, TypeOK, Placed, Jvm, RunRecord, Exchange,
     Broken, Label, Connecting, Waiting, Alive, Serving, Kinds, Goals, shared,
     Goto, End, Close, Answered
<1>2. OpenLineIsRun'
  BY <1>1, NoneAssumption, SMTT(30) DEF Inv, Fail, Returned, TypeOK,
     OpenLineIsRun, Open, RunsFor, Placed, Jvm, RunRecord, Exchange, Broken,
     Connecting, Waiting, Serving, shared, Goto, End, Close, Answered
<1> QED
  BY <1>1, <1>2 DEF Inv

(* A start's time limit keeps both.                                        *)
LEMMA StartTimeoutStep ==
  ASSUME Inv, NEW c \in Client, StartTimeout(c)
  PROVE  Inv'
<1>1. TypeOK'
  BY NoneAssumption, BoundAssumption, SMTT(30) DEF Inv, StartTimeout, Unheard,
     OpenLineIsRun, Open, RunsFor, TypeOK, Placed, Jvm, RunRecord, Exchange,
     Broken, Free, Label, Connecting, Waiting, Alive, Serving, Kinds, Goals,
     shared, Goto, Answered, Welcomed, TurnedAway, Dies
<1>2. OpenLineIsRun'
  BY <1>1, NoneAssumption, SMTT(30) DEF Inv, StartTimeout, Unheard, TypeOK,
     OpenLineIsRun, Open, RunsFor, Placed, Jvm, RunRecord, Exchange, Broken,
     Free, Connecting, Waiting, Serving, shared, Goto, Answered, Welcomed,
     TurnedAway, Dies
<1> QED
  BY <1>1, <1>2 DEF Inv

(* A failed bind keeps both.                                               *)
LEMMA BindFailedStep ==
  ASSUME Inv, NEW d \in Daemon, BindFailed(d)
  PROVE  Inv'
<1>1. TypeOK'
  BY NoneAssumption, BoundAssumption, SMTT(30) DEF Inv, BindFailed,
     OpenLineIsRun, Open, RunsFor, TypeOK, Placed, Jvm, RunRecord, Exchange,
     Broken, Free, Label, Connecting, Waiting, Alive, Serving, Kinds, Goals,
     shared, own, Answered, Dies
<1>2. OpenLineIsRun'
  BY <1>1, NoneAssumption, SMTT(30) DEF Inv, BindFailed, TypeOK,
     OpenLineIsRun, Open, RunsFor, Placed, Jvm, RunRecord, Exchange, Broken,
     Free, Connecting, Waiting, Serving, shared, own, Answered, Dies
<1> QED
  BY <1>1, <1>2 DEF Inv

(* A daemon's exit keeps both.                                             *)
LEMMA ExitStep ==
  ASSUME Inv, NEW d \in Daemon, Exit(d)
  PROVE  Inv'
<1>1. TypeOK'
  BY NoneAssumption, BoundAssumption, SMTT(30) DEF Inv, Exit, OpenLineIsRun,
     Open, RunsFor, TypeOK, Placed, Jvm, RunRecord, Exchange, Broken, Free,
     Label, Connecting, Waiting, Alive, Serving, Kinds, Goals, shared, own,
     Answered, Dies
<1>2. OpenLineIsRun'
  BY <1>1, NoneAssumption, SMTT(30) DEF Inv, Exit, TypeOK, OpenLineIsRun,
     Open, RunsFor, Placed, Jvm, RunRecord, Exchange, Broken, Free,
     Connecting, Waiting, Serving, shared, own, Answered, Dies
<1> QED
  BY <1>1, <1>2 DEF Inv

(* An idle exit keeps both.                                                *)
LEMMA IdleExitStep ==
  ASSUME Inv, NEW d \in Daemon, IdleExit(d)
  PROVE  Inv'
<1>1. TypeOK'
  BY NoneAssumption, BoundAssumption, SMTT(30) DEF Inv, IdleExit,
     OpenLineIsRun, Open, RunsFor, TypeOK, Placed, Jvm, RunRecord, Exchange,
     Broken, Free, Label, Connecting, Waiting, Alive, Serving, Kinds, Goals,
     own, Answered, Dies
<1>2. OpenLineIsRun'
  BY <1>1, NoneAssumption, SMTT(30) DEF Inv, IdleExit, TypeOK, OpenLineIsRun,
     Open, RunsFor, Placed, Jvm, RunRecord, Exchange, Broken, Free,
     Connecting, Waiting, Serving, own, Answered, Dies
<1> QED
  BY <1>1, <1>2 DEF Inv

(* A crash keeps both.                                                     *)
LEMMA CrashStep ==
  ASSUME Inv, NEW d \in Daemon, Crash(d)
  PROVE  Inv'
<1>1. TypeOK'
  BY NoneAssumption, BoundAssumption, SMTT(30) DEF Inv, Crash, OpenLineIsRun,
     Open, RunsFor, TypeOK, Placed, Jvm, RunRecord, Exchange, Broken, Free,
     Label, Connecting, Waiting, Alive, Serving, Kinds, Goals, shared, own,
     Answered, Dies, Faulty
<1>2. OpenLineIsRun'
  BY <1>1, NoneAssumption, SMTT(30) DEF Inv, Crash, TypeOK, OpenLineIsRun,
     Open, RunsFor, Placed, Jvm, RunRecord, Exchange, Broken, Free,
     Connecting, Waiting, Serving, shared, own, Answered, Faulty, Dies
<1> QED
  BY <1>1, <1>2 DEF Inv

(* A hello keeps both.                                                     *)
LEMMA AnswerHelloStep ==
  ASSUME Inv, NEW d \in Daemon, NEW c \in Client, AnswerHello(d, c)
  PROVE  Inv'
<1>1. TypeOK'
  BY NoneAssumption, BoundAssumption, SMTT(30) DEF Inv, AnswerHello, Asks,
     Reply, OpenLineIsRun, Open, RunsFor, TypeOK, Placed, Jvm, RunRecord,
     Exchange, Broken, Label, Connecting, Waiting, Alive, Serving, Kinds,
     Goals, shared, own, Answered
<1>2. OpenLineIsRun'
  BY <1>1, NoneAssumption, SMTT(30) DEF Inv, AnswerHello, Asks, Reply, TypeOK,
     OpenLineIsRun, Open, RunsFor, Placed, Jvm, RunRecord, Exchange, Broken,
     Connecting, Waiting, Serving, shared, own, Answered
<1> QED
  BY <1>1, <1>2 DEF Inv

-----------------------------------------------------------------------------
(* Nothing runs and nobody waits at first.                                 *)
LEMMA Initially == Init => Inv
  BY NoneAssumption, BoundAssumption DEF Inv, Init, TypeOK, Placed,
     OpenLineIsRun, Open, RunsFor, Jvm, Free, Label, Connecting, Goals,
     Serving, Answered

(* Every step of the engine keeps both.                                    *)
LEMMA Inductive == Inv /\ [Next]_vars => Inv'
<1> SUFFICES ASSUME Inv, [Next]_vars
             PROVE  Inv'
  OBVIOUS
<1>1. ASSUME NEW c \in Client, Step(c)
      PROVE  Inv'
  <2>1. CASE Ensure(c)
    BY <2>1, EnsureStep
  <2>2. CASE Quit(c)
    BY <2>2, QuitStep
  <2>3. CASE ClearSocket(c)
    BY <2>3, ClearSocketStep
  <2>4. CASE ClearMeta(c)
    BY <2>4, ClearMetaType, ClearMetaRun DEF Inv
  <2>5. CASE Spawn(c)
    BY <2>5, SpawnType, SpawnRun DEF Inv
  <2>6. CASE WriteMeta(c)
    BY <2>6, WriteMetaType, WriteMetaRun DEF Inv
  <2>7. CASE Knock(c)
    BY <2>7, KnockStep
  <2>8. CASE Ask(c)
    BY <2>8, AskType, AskRun DEF Inv
  <2>9. CASE Started(c)
    BY <2>9, StartedStep
  <2>10. CASE Send(c)
    BY <2>10, SendStep
  <2>11. CASE Report(c)
    BY <2>11, ReportStep
  <2>12. CASE Fail(c)
    BY <2>12, FailStep
  <2> QED
    BY <1>1, <2>1, <2>2, <2>3, <2>4, <2>5, <2>6, <2>7, <2>8, <2>9, <2>10,
       <2>11, <2>12 DEF Step
<1>2. ASSUME NEW c \in Client,
             StartTimeout(c) \/ RunTooLong(c) \/ AnswerTooLate(c) \/ TimedOut(c) \/ Kill(c)
      PROVE  Inv'
  <2>1. CASE StartTimeout(c)
    BY <2>1, StartTimeoutStep
  <2>2. CASE RunTooLong(c)
    BY <2>2, RunTooLongType, RunTooLongRun DEF Inv
  <2>3. CASE AnswerTooLate(c)
    BY <2>3, AnswerTooLateType, AnswerTooLateRun DEF Inv
  <2>4. CASE TimedOut(c)
    BY <2>4, TimedOutType, TimedOutRun DEF Inv
  <2>5. CASE Kill(c)
    BY <2>5, KillType, KillRun DEF Inv
  <2> QED
    BY <1>2, <2>1, <2>2, <2>3, <2>4, <2>5
<1>3. ASSUME NEW d \in Daemon, NEW c \in Client, Answer(d, c)
      PROVE  Inv'
  <2>1. CASE AnswerHello(d, c)
    BY <2>1, AnswerHelloStep
  <2>2. CASE AnswerStop(d, c)
    BY <2>2, AnswerStopType, AnswerStopRun DEF Inv
  <2>3. CASE AnswerCancel(d, c)
    BY <2>3, AnswerCancelType, AnswerCancelRun DEF Inv
  <2>4. CASE AcceptRun(d, c)
    BY <2>4, AcceptRunType, AcceptRunRun DEF Inv
  <2>5. CASE RefuseRun(d, c)
    BY <2>5, RefuseRunType, RefuseRunRun DEF Inv
  <2> QED
    BY <1>3, <2>1, <2>2, <2>3, <2>4, <2>5 DEF Answer
<1>4. ASSUME NEW d \in Daemon, Boot(d) \/ AnswerLeft(d) \/ Exit(d) \/ IdleExit(d) \/ Crash(d)
      PROVE  Inv'
  <2>1. CASE Unbind(d)
    BY <2>1, UnbindType, UnbindRun DEF Inv
  <2>2. CASE Bind(d)
    BY <2>2, BindType, BindRun DEF Inv
  <2>3. CASE BindFailed(d)
    BY <2>3, BindFailedStep
  <2>4. CASE WarmedUp(d)
    BY <2>4, WarmedUpType, WarmedUpRun DEF Inv
  <2>5. CASE AnswerLeft(d)
    BY <2>5, AnswerLeftType, AnswerLeftRun DEF Inv
  <2>6. CASE Exit(d)
    BY <2>6, ExitStep
  <2>7. CASE IdleExit(d)
    BY <2>7, IdleExitStep
  <2>8. CASE Crash(d)
    BY <2>8, CrashStep
  <2> QED
    BY <1>4, <2>1, <2>2, <2>3, <2>4, <2>5, <2>6, <2>7, <2>8 DEF Boot
<1>5. ASSUME NEW d \in Daemon, Work(d)
      PROVE  Inv'
  <2>1. CASE Verified(d)
    BY <2>1, VerifiedType, VerifiedRun DEF Inv
  <2>2. ASSUME NEW last \in BOOLEAN,
               \/ RefuseStale(d, last) \/ RefuseOutdated(d, last)
               \/ Finish(d, last) \/ FinishEmpty(d, last) \/ FinishCut(d, last)
        PROVE  Inv'
    <3>1. CASE RefuseStale(d, last)
      BY <3>1, RefuseStaleType, RefuseStaleRun DEF Inv
    <3>2. CASE Finish(d, last)
      BY <3>2, FinishType, FinishRun DEF Inv
    <3>3. CASE FinishEmpty(d, last)
      BY <3>3, FinishEmptyType, FinishEmptyRun DEF Inv
    <3>4. CASE FinishCut(d, last)
      BY <3>4, FinishCutType, FinishCutRun DEF Inv
    <3>5. CASE RefuseOutdated(d, last)
      BY <3>5, RefuseOutdatedType, RefuseOutdatedRun DEF Inv
    <3> QED
      BY <2>2, <3>1, <3>2, <3>3, <3>4, <3>5
  <2> QED
    BY <1>5, <2>1, <2>2 DEF Work
<1>6. ASSUME NEW c \in Client, NEW command \in Goals, Command(c, command)
      PROVE  Inv'
  BY <1>6, CommandStep
<1>7. CASE Recompile
  BY <1>7 DEF Recompile, own, Inv, TypeOK, Placed, Answered, OpenLineIsRun,
     Open, RunsFor
<1>8. CASE UNCHANGED vars
  BY <1>8 DEF vars, own, Inv, TypeOK, Placed, Answered, OpenLineIsRun, Open, RunsFor
<1> QED
  BY <1>1, <1>2, <1>3, <1>4, <1>5, <1>6, <1>7, <1>8 DEF Next

(* A client that waits holds an exchange, a cookie and what its position   *)
(* needs, and a daemon's record stays one, whatever crashes, is killed or   *)
(* arrives late.                                                           *)
THEOREM TypeSafe == Spec => []TypeOK
<1>1. Inv => TypeOK
  BY DEF Inv
<1> QED
  BY <1>1, Initially, Inductive, PTL DEF Spec

(* A daemon never answers a run to a client it is not for, no client waits  *)
(* for a run its daemon has dropped, and no run outlives its daemon.        *)
THEOREM OneRunOneClient == Spec => []OpenLineIsRun
<1>1. Inv => OpenLineIsRun
  BY DEF Inv
<1> QED
  BY <1>1, Initially, Inductive, PTL DEF Spec

-----------------------------------------------------------------------------
(* The promise: what a client hears of its run, whatever daemons do.       *)

(* A run that waits for its outputs to be verified carries the snapshot    *)
(* its client holds.                                                       *)
SnapshotIsSent ==
  \A d \in Daemon, c \in Client :
    RunsFor(d, c) /\ jvm[d].run.stage = "verify" => jvm[d].run.snap = snap[c]

(* Who awaits has asked for a run, or holds a broken connection.           *)
AwaitsRun ==
  \A c \in Client : pc[c] = "await" => line[c] = Broken \/ line[c].kind = "run"

PInv == Inv /\ SnapshotIsSent /\ AwaitsRun

Simulated == Promise!Next \/ UNCHANGED Promise!vars

(* What a step leaves of a client, and of every run somebody waits for.    *)
Carried(c) == pc'[c] = pc[c] /\ line'[c] = line[c] /\ snap'[c] = snap[c]

RunsCarried ==
  \A d \in Daemon, c \in Client :
    RunsFor(d, c)' =>
      /\ RunsFor(d, c)
      /\ jvm'[d].run.stage = jvm[d].run.stage
      /\ jvm'[d].run.snap = jvm[d].run.snap

(* What has come of a client's request: it goes on, or the client has      *)
(* nothing to wait for any more.                                           *)
GoesOn(c) ==
  \/ Phase(c)' = "idle"
  \/ Phase(c)' = Phase(c) /\ snap'[c] = snap[c]

(* The promise's view of every request.                                    *)
Phases == [c \in Client |-> Phase(c)]
Bars == [c \in Client |-> IF Phase(c) = "idle" THEN None ELSE snap[c]]

LEMMA Views ==
  /\ \A c \in Client : Phases[c] = Phase(c) /\ Bars[c] = IF Phase(c) = "idle" THEN None ELSE snap[c]
  /\ \A c \in Client : Phases'[c] = Phase(c)' /\ Bars'[c] = IF Phase(c)' = "idle" THEN None ELSE snap'[c]
  /\ Phases = [c \in Client |-> Phases[c]] /\ Bars = [c \in Client |-> Bars[c]]
  /\ Phases' = [c \in Client |-> Phases'[c]] /\ Bars' = [c \in Client |-> Bars'[c]]
  BY DEF Phases, Bars, Phase

(* Requests that end, and nothing else, are a step of the promise.         *)
LEMMA Quietly ==
  ASSUME outputs' = outputs, \A c \in Client : GoesOn(c)
  PROVE  Simulated
<1>0. PICK C \in SUBSET Client : C = {c \in Client : Phases'[c] = "idle"}
  OBVIOUS
<1>1. /\ Phases' = [c \in Client |-> IF c \in C THEN "idle" ELSE Phases[c]]
      /\ Bars' = [c \in Client |-> IF c \in C THEN None ELSE Bars[c]]
  BY <1>0, Views DEF GoesOn
<1>2. CASE C = {}
  <2>1. Phases' = Phases /\ Bars' = Bars
    BY <1>1, <1>2, Views
  <2> QED
    BY <2>1 DEF Simulated, Promise!vars, Phases, Bars
<1>3. CASE C # {}
  <2>1. Promise!LeaveAll(C)
    BY <1>1, <1>3 DEF Promise!LeaveAll, Phases, Bars
  <2> QED
    BY <2>1 DEF Simulated, Promise!Next
<1> QED
  BY <1>2, <1>3

(* A client is where it was when a step leaves it alone, and the stage of  *)
(* its run.                                                                *)
LEMMA SamePhase ==
  ASSUME Inv, NEW c \in Client, Carried(c),
         \A d \in Daemon : RunsFor(d, c) => jvm'[d].run.stage = jvm[d].run.stage
  PROVE  Phase(c)' = Phase(c) /\ GoesOn(c)
<1>1. CASE line[c] # None /\ line[c].state = "open"
  <2>1. PICK d \in Daemon : d = line[c].daemon
    BY <1>1 DEF Inv, TypeOK, Exchange, Broken
  <2>2. RunsFor(d, c)
    BY <1>1, <2>1 DEF Inv, OpenLineIsRun, Open
  <2>3. jvm'[d].run.stage = jvm[d].run.stage
    BY <2>2
  <2> QED
    BY <2>1, <2>3 DEF Carried, Phase, Answered, GoesOn
<1>2. CASE ~(line[c] # None /\ line[c].state = "open")
  <2>1. pc[c] = "await" => line[c].state # "open"
    BY <1>2 DEF Inv, TypeOK, Placed, Connecting
  <2> QED
    BY <2>1 DEF Carried, Phase, Answered, GoesOn
<1> QED
  BY <1>1, <1>2

(* So it is when every run is carried over.                                *)
LEMMA CarriedPhase ==
  ASSUME Inv, Inv', RunsCarried, NEW c \in Client, Carried(c)
  PROVE  Phase(c)' = Phase(c) /\ GoesOn(c)
<1>1. ASSUME NEW d \in Daemon, RunsFor(d, c)
      PROVE  jvm'[d].run.stage = jvm[d].run.stage
  <2>1. Open(c, d)'
    BY <1>1 DEF Inv, OpenLineIsRun, Open, Carried
  <2>2. RunsFor(d, c)'
    BY <2>1 DEF Inv, OpenLineIsRun
  <2> QED
    BY <2>2 DEF RunsCarried
<1> QED
  BY <1>1, SamePhase

(* A step of one client, or of one daemon towards one client: the others   *)
(* are carried over, and what they hold stays as it was.                   *)
LEMMA OneKeeps ==
  ASSUME PInv, Inv', NEW c, RunsCarried,
         \A b \in Client : b # c => Carried(b),
         c \in Client =>
           /\ pc'[c] = "await" => line'[c] = Broken \/ line'[c].kind = "run"
           /\ snap'[c] = snap[c] \/ \A d \in Daemon : ~RunsFor(d, c)'
  PROVE  PInv'
<1>1. SnapshotIsSent'
  <2> SUFFICES ASSUME NEW d \in Daemon, NEW b \in Client, RunsFor(d, b)',
                      jvm'[d].run.stage = "verify"
               PROVE  jvm'[d].run.snap = snap'[b]
    BY DEF SnapshotIsSent
  <2>1. snap'[b] = snap[b]
    BY DEF Carried
  <2> QED
    BY <2>1 DEF RunsCarried, PInv, SnapshotIsSent
<1>2. AwaitsRun'
  BY DEF AwaitsRun, PInv, Carried
<1> QED
  BY <1>1, <1>2 DEF PInv

(* If its own request only goes on or ends, so do all.                     *)
LEMMA OneMoves ==
  ASSUME PInv, Inv', NEW c, outputs' = outputs, RunsCarried,
         \A b \in Client : b # c => Carried(b),
         c \in Client =>
           /\ GoesOn(c)
           /\ pc'[c] = "await" => line'[c] = Broken \/ line'[c].kind = "run"
           /\ snap'[c] = snap[c] \/ \A d \in Daemon : ~RunsFor(d, c)'
  PROVE  Simulated /\ PInv'
<1>1. \A b \in Client : GoesOn(b)
  BY CarriedPhase DEF PInv
<1>2. Simulated
  BY <1>1, Quietly
<1>3. PInv'
  BY OneKeeps
<1> QED
  BY <1>2, <1>3

(* One request moves to another phase.                                     *)
LEMMA OneAdvances ==
  ASSUME NEW c \in Client, NEW to, to # "idle", Phase(c)' = to,
         \A b \in Client : b # c => Phase(b)' = Phase(b) /\ snap'[b] = snap[b]
  PROVE  /\ Phases' = [Phases EXCEPT ![c] = to]
         /\ Bars' = [Bars EXCEPT ![c] = snap'[c]]
  BY Views

(* The end of a client's waiting has no run.                               *)
LEMMA NoRun ==
  ASSUME Inv, NEW c \in Client, line[c] = None \/ line[c].state # "open"
  PROVE  \A d \in Daemon : ~RunsFor(d, c)
  BY DEF Inv, OpenLineIsRun, Open

(* A client on its own: no JVM's run changes, and its own request ends or  *)
(* goes on.                                                                *)
LEMMA ClientMoves ==
  ASSUME PInv, Inv', NEW c \in Client, outputs' = outputs,
         \A d \in Daemon : jvm'[d].run = jvm[d].run,
         \A b \in Client : b # c => Carried(b),
         line[c] = None \/ Answered(c),
         GoesOn(c),
         pc'[c] = "await" => line'[c] = Broken \/ line'[c].kind = "run"
  PROVE  Simulated /\ PInv'
<1>1. RunsCarried
  BY DEF RunsCarried, RunsFor
<1>2. \A d \in Daemon : ~RunsFor(d, c)
  BY NoRun DEF PInv, Answered, Waiting
<1>3. \A d \in Daemon : ~RunsFor(d, c)'
  BY <1>1, <1>2 DEF RunsCarried
<1> QED
  BY <1>1, <1>3, OneMoves

(* The steps of a client that has nobody to answer it.                     *)
LEMMA StepsSimulated ==
  ASSUME PInv, Inv', NEW c \in Client,
         \/ \E command \in Goals : Command(c, command)
         \/ Ensure(c) \/ Quit(c) \/ ClearSocket(c) \/ ClearMeta(c) \/ Spawn(c)
         \/ WriteMeta(c) \/ Knock(c) \/ Started(c) \/ Send(c) \/ Report(c) \/ Fail(c)
  PROVE  Simulated /\ PInv'
<1>0. TypeOK /\ Placed(c) /\ TypeOK' /\ Placed(c)'
  BY DEF PInv, Inv, TypeOK
<1>1. outputs' = outputs
  BY DEF Command, Ensure, Quit, ClearSocket, ClearMeta, Spawn, WriteMeta, Knock, Started,
     Send, Report, Fail, Returned, shared, Greeted
<1>2. \A d \in Daemon : jvm'[d].run = jvm[d].run
  <2>1. CASE Spawn(c)
    <3>1. PICK d \in Daemon :
            Fresh(d) /\ jvm' = [jvm EXCEPT ![d] = [Free EXCEPT !.life = "starting"]]
      BY <2>1 DEF Spawn
    <3>2. jvm[d].run = None
      BY <3>1 DEF Fresh, PInv, Inv, OpenLineIsRun, Serving
    <3>3. jvm'[d].run = None
      BY <1>0, <3>1 DEF TypeOK, Free
    <3> QED
      BY <1>0, <3>1, <3>2, <3>3 DEF TypeOK
  <2>2. CASE ~Spawn(c)
    BY <2>2 DEF Command, Ensure, Quit, ClearSocket, ClearMeta, WriteMeta, Knock, Started,
       Send, Report, Fail, Returned, Greeted
  <2> QED
    BY <2>1, <2>2
<1>3. \A b \in Client : b # c => Carried(b)
  <2>1. CASE \E command \in Goals : Command(c, command)
    BY <1>0, <2>1 DEF TypeOK, Carried, Command, Goto
  <2>2. CASE Ensure(c)
    BY <1>0, <2>2 DEF TypeOK, Carried, Ensure, Goto, Connect
  <2>3. CASE Quit(c)
    BY <1>0, <2>3 DEF TypeOK, Carried, Quit, Goto, Connect, Close
  <2>4. CASE ClearSocket(c)
    BY <1>0, <2>4 DEF TypeOK, Carried, ClearSocket, Goto, Close
  <2>5. CASE ClearMeta(c)
    BY <1>0, <2>5 DEF TypeOK, Carried, ClearMeta, Goto, End
  <2>6. CASE Spawn(c) \/ WriteMeta(c)
    BY <1>0, <2>6 DEF TypeOK, Carried, Spawn, WriteMeta, Goto
  <2>7. CASE Knock(c) \/ Send(c)
    BY <1>0, <2>7 DEF TypeOK, Carried, Knock, Send, Goto, Connect
  <2>8. CASE Started(c) \/ Report(c) \/ Fail(c)
    BY <1>0, <2>8 DEF TypeOK, Carried, Started, Greeted, Report, Fail, Returned, Goto, End, Close
  <2> QED
    BY <2>1, <2>2, <2>3, <2>4, <2>5, <2>6, <2>7, <2>8
<1>4. line[c] = None \/ Answered(c)
  BY <1>0 DEF Placed, Connecting, Command, Ensure, Quit, ClearSocket, ClearMeta, Spawn,
     WriteMeta, Knock, Started, Send, Report, Fail, Returned, Greeted, ChildExited, Unheard,
     TurnedAway, Welcomed, Answered, Waiting
<1>5. CASE Send(c)
  <2>1. /\ pc[c] = "send" /\ pc'[c] = "await" /\ line'[c] = Connected("run")
        /\ snap'[c] = snap[c]
    BY <1>0, <1>5 DEF TypeOK, Send, Goto, Connect
  <2>2. line'[c] = Broken \/ (line'[c].kind = "run" /\ line'[c].state = "queued")
    BY <2>1 DEF Connected
  <2>3. Phase(c) = "asked"
    BY <2>1 DEF Phase
  <2>4. Phase(c)' \in {"idle", "asked"}
    BY <2>1, <2>2 DEF Phase, Broken, Answered, Waiting
  <2>5. GoesOn(c)
    BY <2>1, <2>3, <2>4 DEF GoesOn
  <2> QED
    BY <1>1, <1>2, <1>3, <1>4, <2>2, <2>5, ClientMoves
<1>6. CASE ~Send(c)
  <2>1. pc'[c] \notin {"send", "await"}
    BY <1>0, <1>6 DEF TypeOK, Command, Ensure, Quit, ClearSocket, ClearMeta, Spawn, WriteMeta,
       Knock, Started, Report, Fail, Returned, Greeted, Goto, End
  <2>2. GoesOn(c)
    BY <2>1 DEF GoesOn, Phase
  <2> QED
    BY <1>1, <1>2, <1>3, <1>4, <2>1, <2>2, ClientMoves
<1> QED
  BY <1>5, <1>6

(* A client that leaves takes no run of another with it.                   *)
LEMMA AbandonedCarries ==
  ASSUME Inv, NEW c \in Client, jvm' = Abandoned(c)
  PROVE  RunsCarried /\ \A d \in Daemon : ~RunsFor(d, c)'
<1>1. \A d \in Daemon, b \in Client : RunsFor(d, b)' => RunsFor(d, b) /\ b # c
  BY AbandonedRuns
<1>2. jvm \in [Daemon -> Jvm]
  BY DEF Inv, TypeOK
<1>3. ASSUME NEW d \in Daemon, NEW b \in Client, RunsFor(d, b), b # c
      PROVE  jvm'[d].run = jvm[d].run
  <2>1. CASE line[c] = None \/ Answered(c)
    BY <2>1 DEF Abandoned
  <2>2. CASE line[c] # None /\ ~Answered(c) /\ line[c].state = "open"
    <3>1. line[c].daemon # d
      <4>1. line[c].daemon \in Daemon
        BY <2>2 DEF Inv, TypeOK, Exchange, Broken
      <4>2. RunsFor(line[c].daemon, c)
        BY <2>2, <4>1 DEF Inv, OpenLineIsRun, Open
      <4> QED
        BY <1>3, <4>2 DEF RunsFor
    <3> QED
      BY <1>2, <2>2, <3>1 DEF Abandoned
  <2>3. CASE line[c] # None /\ ~Answered(c) /\ line[c].state # "open"
    BY <1>2, <2>3 DEF Abandoned, Jvm
  <2> QED
    BY <2>1, <2>2, <2>3
<1> QED
  BY <1>1, <1>3 DEF RunsCarried

(* A client that gives up, runs out of time or is killed only leaves.      *)
LEMMA LeavingSimulated ==
  ASSUME PInv, Inv', NEW c \in Client,
         RunTooLong(c) \/ AnswerTooLate(c) \/ TimedOut(c) \/ Kill(c)
  PROVE  Simulated /\ PInv'
<1>0. TypeOK
  BY DEF PInv, Inv
<1>1. outputs' = outputs /\ jvm' = Abandoned(c)
  BY DEF RunTooLong, AnswerTooLate, HangUp, TimedOut, Kill, shared
<1>2. RunsCarried /\ \A d \in Daemon : ~RunsFor(d, c)'
  BY <1>1, AbandonedCarries DEF PInv
<1>3. \A b \in Client : b # c => Carried(b)
  BY <1>0 DEF TypeOK, Carried, RunTooLong, AnswerTooLate, HangUp, TimedOut, Kill, own, Goto,
     Connect, End, Close
<1>4. line'[c] = Broken \/ pc'[c] \in {"cancelling", "idle"}
  BY <1>0 DEF TypeOK, RunTooLong, AnswerTooLate, HangUp, TimedOut, Kill, Goto, End
<1>5. Phase(c)' = "idle" \/ pc'[c] = "send"
  BY <1>4 DEF Phase, Broken
<1>6. GoesOn(c)
  <2>1. CASE pc'[c] = "send"
    <3>1. pc[c] = "send" /\ snap'[c] = snap[c]
      BY <1>0, <2>1 DEF TypeOK, RunTooLong, AnswerTooLate, HangUp, TimedOut, Kill, own, Goto, End
    <3> QED
      BY <2>1, <3>1 DEF GoesOn, Phase
  <2> QED
    BY <1>5, <2>1 DEF GoesOn
<1> QED
  BY <1>1, <1>2, <1>3, <1>4, <1>6, OneMoves


(* A daemon that dies breaks what was asked of it, and nothing else.       *)
LEMMA DeathSimulated ==
  ASSUME PInv, Inv', NEW d \in Daemon, Dies(d), outputs' = outputs,
         snap' = snap, \A c \in Client : pc'[c] = pc[c] \/ pc'[c] = "clear"
  PROVE  Simulated /\ PInv'
<1>0. TypeOK /\ TypeOK'
  BY DEF PInv, Inv
<1>1. jvm'[d].run = None /\ \A e \in Daemon : e # d => jvm'[e] = jvm[e]
  BY <1>0 DEF TypeOK, Dies, Free
<1>2. RunsCarried
  BY <1>1 DEF RunsCarried, RunsFor
<1>3. ASSUME NEW c \in Client
      PROVE  /\ GoesOn(c)
             /\ pc'[c] = "await" => line'[c] = Broken \/ line'[c].kind = "run"
             /\ snap'[c] = snap[c]
  <2>1. snap'[c] = snap[c]
    OBVIOUS
  <2>0. CASE pc'[c] = "clear"
    BY <2>0, <2>1 DEF GoesOn, Phase
  <2>2. CASE pc'[c] = pc[c] /\ line'[c] = line[c]
    <3>1. Carried(c)
      BY <2>1, <2>2 DEF Carried
    <3> QED
      BY <1>2, <2>1, <2>2, <3>1, CarriedPhase DEF PInv, AwaitsRun
  <2>3. CASE pc'[c] = pc[c] /\ line'[c] # line[c]
    <3>1. /\ line'[c] = Broken
          /\ line[c] # None /\ line[c].state \in Waiting
      BY <1>0, <2>3 DEF TypeOK, Dies
    <3>2. pc[c] # "send"
      BY <1>0, <3>1 DEF TypeOK, Placed, Answered, Connecting
    <3>3. Phase(c)' = "idle"
      BY <2>3, <3>1, <3>2 DEF Phase, Broken
    <3> QED
      BY <2>1, <3>1, <3>3 DEF GoesOn
  <2> QED
    BY <2>0, <2>2, <2>3
<1>4. Simulated
  BY <1>3, Quietly
<1>5. SnapshotIsSent'
  BY <1>2, <1>3 DEF PInv, SnapshotIsSent, RunsCarried
<1>6. AwaitsRun'
  BY <1>3 DEF AwaitsRun
<1> QED
  BY <1>4, <1>5, <1>6 DEF PInv

(* A daemon's own steps leave its run, or interrupt it.                    *)
LEMMA DaemonSimulated ==
  ASSUME PInv, Inv', NEW d \in Daemon,
         Unbind(d) \/ Bind(d) \/ WarmedUp(d) \/ AnswerLeft(d)
  PROVE  Simulated /\ PInv'
<1>0. TypeOK
  BY DEF PInv, Inv
<1>1. outputs' = outputs /\ \A b \in Client : Carried(b)
  BY DEF Unbind, Bind, WarmedUp, AnswerLeft, shared, own, Carried
<1>2. RunsCarried
  <2>1. CASE Unbind(d) \/ Bind(d) \/ WarmedUp(d)
    <3>1. \A e \in Daemon : jvm'[e].run = jvm[e].run
      BY <1>0, <2>1 DEF TypeOK, Jvm, Unbind, Bind, WarmedUp
    <3> QED
      BY <3>1 DEF RunsCarried, RunsFor
  <2>2. CASE AnswerLeft(d)
    <3>1. /\ \A e \in Daemon : e # d => jvm'[e] = jvm[e]
          /\ \/ jvm'[d].run = jvm[d].run
             \/ jvm[d].run # None /\ jvm'[d].run = [jvm[d].run EXCEPT !.cut = TRUE]
             \/ jvm'[d].run = ForNobody
      BY <1>0, <2>2 DEF TypeOK, Jvm, AnswerLeft
    <3>2. jvm[d].run # None => jvm[d].run \in RunRecord
      BY <1>0 DEF TypeOK, Jvm
    <3>3. \A c \in Client : RunsFor(d, c)' =>
            /\ RunsFor(d, c)
            /\ jvm'[d].run.stage = jvm[d].run.stage
            /\ jvm'[d].run.snap = jvm[d].run.snap
      BY <3>1, <3>2, NoneAssumption DEF RunsFor, ForNobody, RunRecord
    <3> QED
      BY <3>1, <3>3 DEF RunsCarried, RunsFor
  <2> QED
    BY <2>1, <2>2
<1>3. None \notin Client
  BY NoneAssumption
<1> QED
  BY <1>1, <1>2, <1>3, OneMoves

(* An answer that is no report of a run.                                   *)
LEMMA AnswersSimulated ==
  ASSUME PInv, Inv', NEW d \in Daemon, NEW c \in Client, Answer(d, c)
  PROVE  Simulated /\ PInv'
<1>0. TypeOK /\ Placed(c) /\ line[c] \in Exchange \cup {None}
  BY DEF PInv, Inv, TypeOK
<1>1. /\ outputs' = outputs /\ pc' = pc /\ snap' = snap
      /\ \A b \in Client : b # c => Carried(b)
  BY <1>0 DEF TypeOK, Answer, AnswerHello, AnswerStop, AnswerCancel, AcceptRun, RefuseRun, Reply,
     shared, own, Carried
<1>2. /\ line[c] \in Exchange /\ line[c] # Broken /\ line[c].state = "queued"
      /\ line[c].daemon = d
      /\ pc[c] \in Connecting
  <2>1. \E kind \in Kinds : Asks(c, d, kind)
    BY DEF Answer, AnswerHello, AnswerStop, AnswerCancel, AcceptRun, RefuseRun, Kinds
  <2> QED
    BY <1>0, <2>1, NoneAssumption DEF Asks, Placed, Answered, Waiting, Broken, Exchange, Kinds
<1>3. /\ line'[c].kind = line[c].kind
      /\ line'[c].state \in {"ok", "refused", "open"}
  BY <1>0, <1>2 DEF TypeOK, Answer, AnswerHello, AnswerStop, AnswerCancel, AcceptRun, RefuseRun,
     Reply, Exchange, Broken
<1>4. pc[c] = "await" => Phase(c) = "asked" /\ line[c].kind = "run"
  BY <1>2 DEF Phase, PInv, AwaitsRun, Answered, Waiting
<1>5. CASE ~AcceptRun(d, c)
  <2>1. RunsCarried
    <3>1. CASE ~AnswerCancel(d, c)
      <4>1. \A e \in Daemon : jvm'[e].run = jvm[e].run
        BY <1>0, <1>5, <3>1 DEF TypeOK, Jvm, Answer, AnswerHello, AnswerStop, RefuseRun
      <4> QED
        BY <4>1 DEF RunsCarried, RunsFor
    <3>2. CASE AnswerCancel(d, c)
      <4>1. /\ \A e \in Daemon : e # d => jvm'[e] = jvm[e]
            /\ \/ jvm'[d].run = jvm[d].run
               \/ jvm[d].run # None /\ jvm'[d].run = [jvm[d].run EXCEPT !.cut = TRUE]
        BY <1>0, <3>2 DEF TypeOK, Jvm, AnswerCancel
      <4>2. jvm[d].run # None => jvm[d].run \in RunRecord
        BY <1>0 DEF TypeOK, Jvm
      <4>3. \A b \in Client : RunsFor(d, b)' =>
              /\ RunsFor(d, b)
              /\ jvm'[d].run.stage = jvm[d].run.stage
              /\ jvm'[d].run.snap = jvm[d].run.snap
        BY <4>1, <4>2 DEF RunsFor, RunRecord
      <4> QED
        BY <4>1, <4>3 DEF RunsCarried, RunsFor
    <3> QED
      BY <3>1, <3>2
  <2>2. pc[c] = "await" => line'[c].state = "refused"
    BY <1>0, <1>2, <1>4, <1>5 DEF TypeOK, Answer, AnswerHello, AnswerStop, AnswerCancel, RefuseRun,
       Reply, Asks
  <2>3. GoesOn(c)
    BY <1>1, <2>2 DEF GoesOn, Phase
  <2> QED
    BY <1>1, <1>3, <1>4, <2>1, <2>3, OneMoves
<1>6. CASE AcceptRun(d, c)
  <2>1. /\ \A e \in Daemon : e # d => jvm'[e] = jvm[e]
        /\ jvm[d].run = None
        /\ jvm'[d].run = [by |-> c, stage |-> "verify", snap |-> snap[c], cut |-> FALSE]
        /\ line'[c] = [line[c] EXCEPT !.state = "open"]
    BY <1>0, <1>6 DEF TypeOK, Jvm, AcceptRun, Reply
  <2>2. line'[c].daemon = d /\ line'[c].state = "open"
    BY <1>2, <2>1 DEF Exchange, Broken
  <2>3. GoesOn(c)
    BY <1>1, <1>4, <2>1, <2>2 DEF GoesOn, Phase, Answered, Waiting
  <2>4. ASSUME NEW b \in Client, b # c
        PROVE  Phase(b)' = Phase(b)
    <3>1. Carried(b)
      BY <1>1, <2>4
    <3>2. \A e \in Daemon : RunsFor(e, b) => jvm'[e].run.stage = jvm[e].run.stage
      BY <2>1 DEF RunsFor
    <3> QED
      BY <3>1, <3>2, SamePhase DEF PInv
  <2>5. Simulated
    <3>1. \A b \in Client : GoesOn(b)
      BY <1>1, <2>3, <2>4 DEF GoesOn
    <3> QED
      BY <1>1, <3>1, Quietly
  <2>6. SnapshotIsSent'
    BY <1>1, <2>1 DEF PInv, SnapshotIsSent, RunsFor
  <2>7. AwaitsRun'
    BY <1>1, <1>3, <1>4 DEF PInv, AwaitsRun, Carried
  <2> QED
    BY <2>5, <2>6, <2>7 DEF PInv
<1> QED
  BY <1>5, <1>6


(* The answer to a run: its report, or the end of the wait for it.         *)
LEMMA EndSimulated ==
  ASSUME PInv, Inv', NEW d \in Daemon, jvm[d].run # None, NEW last \in BOOLEAN,
         NEW state \in {"ok", "spoiled", "refused", "broken"}, Ended(d, state, last),
         state \in {"ok", "spoiled"} => AtStage(d, "run")
  PROVE  Simulated /\ PInv'
<1>b. PICK b : b = jvm[d].run.by
  OBVIOUS
<1>0. TypeOK /\ b \in Client \cup {None} /\ None \notin Client
  BY <1>b, NoneAssumption DEF PInv, Inv, TypeOK, Jvm, RunRecord
<1>1. outputs' = outputs /\ pc' = pc /\ snap' = snap
  BY DEF Ended, shared, own
<1>2. jvm'[d].run = None /\ \A e \in Daemon : e # d => jvm'[e] = jvm[e]
  BY <1>0 DEF TypeOK, Jvm, Ended
<1>3. RunsCarried
  BY <1>2 DEF RunsCarried, RunsFor
<1>4. \A c \in Client : c # b => Carried(c)
  BY <1>b, <1>0, <1>1 DEF TypeOK, Ended, Carried
<1>5. CASE b = None
  BY <1>0, <1>1, <1>3, <1>4, <1>5, OneMoves
<1>6. CASE b \in Client
  <2>1. /\ line[b] \in Exchange /\ line[b] # Broken /\ line[b] # None
        /\ line[b].daemon = d /\ line[b].state = "open"
    BY <1>b, <1>0, <1>6, NoneAssumption DEF PInv, Inv, TypeOK, OpenLineIsRun, Open, RunsFor, Broken,
       Exchange
  <2>2. pc[b] \in Connecting
    BY <1>0, <1>6, <2>1 DEF TypeOK, Placed, Answered, Waiting
  <2>3. line'[b].state = state /\ (line'[b] = Broken \/ line'[b].kind = line[b].kind)
    BY <1>b, <1>0, <1>6, <2>1 DEF TypeOK, Ended, Exchange, Broken
  <2>4. pc'[b] = "await" => line'[b] = Broken \/ line'[b].kind = "run"
    BY <1>1, <1>6, <2>1, <2>3 DEF PInv, AwaitsRun
  <2>5. CASE pc[b] # "await" \/ state \in {"refused", "broken"}
    <3>1. Phase(b)' = "idle"
      BY <1>1, <2>2, <2>3, <2>5 DEF Phase, Connecting
    <3> QED
      BY <1>1, <1>3, <1>4, <2>4, <3>1, OneMoves DEF GoesOn
  <2>6. CASE pc[b] = "await" /\ state \in {"ok", "spoiled"}
    <3>1. Phase(b) = "running"
      BY <2>1, <2>6 DEF Phase, Answered, Waiting, AtStage
    <3>2. Phase(b)' = "reported"
      BY <1>1, <2>3, <2>6 DEF Phase, Answered, Waiting
    <3>3. \A c \in Client : c # b => Phase(c)' = Phase(c) /\ snap'[c] = snap[c]
      BY <1>1, <1>3, <1>4, CarriedPhase DEF PInv
    <3>4. Phases' = [Phases EXCEPT ![b] = "reported"] /\ Bars' = [Bars EXCEPT ![b] = snap'[b]]
      BY <1>6, <3>2, <3>3, OneAdvances
    <3>5. Bars' = Bars /\ Phases[b] = "running"
      BY <1>1, <1>6, <3>1, <3>4, Views
    <3>6. Promise!Report(b)
      BY <1>1, <3>4, <3>5 DEF Promise!Report, Promise!Move, Phases, Bars
    <3>7. Simulated
      BY <1>6, <3>6 DEF Simulated, Promise!Next
    <3>8. PInv'
      BY <1>1, <1>3, <1>4, <2>4, OneKeeps
    <3> QED
      BY <3>7, <3>8
  <2> QED
    BY <2>5, <2>6
<1> QED
  BY <1>0, <1>5, <1>6

(* Verified outputs are the ones the client took its snapshot of: the run  *)
(* begins.                                                                 *)
LEMMA VerifiedSimulated ==
  ASSUME PInv, Inv', NEW d \in Daemon, Verified(d)
  PROVE  Simulated /\ PInv'
<1>b. PICK b : b = jvm[d].run.by
  OBVIOUS
<1>0. TypeOK /\ jvm[d].run \in RunRecord /\ b \in Client \cup {None}
  BY <1>b DEF PInv, Inv, TypeOK, Jvm, RunRecord, Verified, AtStage
<1>1. outputs' = outputs /\ pc' = pc /\ snap' = snap /\ \A c \in Client : Carried(c)
  BY DEF Verified, shared, own, Carried
<1>2. /\ jvm'[d].run.by = b /\ jvm'[d].run.stage = "run"
      /\ jvm[d].run.stage = "verify" /\ jvm[d].run.snap = outputs /\ jvm[d].run # None
      /\ \A e \in Daemon : e # d => jvm'[e] = jvm[e]
  BY <1>b, <1>0 DEF TypeOK, Jvm, RunRecord, Verified, AtStage
<1>3. PInv'
  <2>1. SnapshotIsSent'
    BY <1>1, <1>2 DEF PInv, SnapshotIsSent, RunsFor
  <2>2. AwaitsRun'
    BY <1>1 DEF PInv, AwaitsRun, Carried
  <2> QED
    BY <2>1, <2>2 DEF PInv
<1>4. \A c \in Client : c # b => Phase(c)' = Phase(c) /\ GoesOn(c)
  <2> SUFFICES ASSUME NEW c \in Client, c # b
               PROVE  Phase(c)' = Phase(c) /\ GoesOn(c)
    OBVIOUS
  <2>1. \A e \in Daemon : RunsFor(e, c) => jvm'[e].run.stage = jvm[e].run.stage
    BY <1>b, <1>2 DEF RunsFor
  <2> QED
    BY <1>1, <2>1, SamePhase DEF PInv
<1>5. CASE b = None
  BY <1>1, <1>3, <1>4, <1>5, NoneAssumption, Quietly
<1>6. CASE b \in Client /\ pc[b] # "await"
  <2>1. GoesOn(b)
    BY <1>1, <1>6 DEF GoesOn, Phase
  <2> QED
    BY <1>1, <1>3, <1>4, <2>1, Quietly
<1>7. CASE b \in Client /\ pc[b] = "await"
  <2>1. RunsFor(d, b) /\ line[b] # None /\ line[b].daemon = d /\ line[b].state = "open"
    BY <1>b, <1>2, <1>7 DEF PInv, Inv, OpenLineIsRun, Open, RunsFor
  <2>2. snap[b] = outputs
    BY <1>2, <1>7, <2>1 DEF PInv, SnapshotIsSent
  <2>3. Phase(b) = "asked"
    BY <1>2, <1>7, <2>1 DEF Phase, Answered, Waiting
  <2>4. Phase(b)' = "running"
    BY <1>1, <1>2, <1>7, <2>1 DEF Carried, Phase, Answered, Waiting
  <2>5. Phases' = [Phases EXCEPT ![b] = "running"] /\ Bars' = [Bars EXCEPT ![b] = snap'[b]]
    BY <1>1, <1>4, <1>7, <2>4, OneAdvances
  <2>6. Bars' = Bars /\ Phases[b] = "asked" /\ Bars[b] = outputs
    BY <1>1, <1>7, <2>2, <2>3, <2>5, Views
  <2>7. Promise!Run(b)
    BY <1>1, <2>5, <2>6 DEF Promise!Run, Promise!Move, Phases, Bars
  <2> QED
    BY <1>3, <1>7, <2>7 DEF Simulated, Promise!Next
<1> QED
  BY <1>0, <1>5, <1>6, <1>7

(* A client that has been greeted asks with the outputs as they are, or    *)
(* leaves for want of metadata.                                            *)
LEMMA AskSimulated ==
  ASSUME PInv, Inv', NEW c \in Client, Ask(c)
  PROVE  Simulated /\ PInv'
<1>0. TypeOK
  BY DEF PInv, Inv
<1>1. /\ outputs' = outputs /\ jvm' = jvm /\ line'[c] = None
      /\ pc[c] \in {"hello", "knocking"} /\ Answered(c)
      /\ \A b \in Client : b # c => Carried(b)
  BY <1>0 DEF TypeOK, Ask, Greeted, Welcomed, Answered, Waiting, Close, Goto, End, shared, Carried
<1>2. RunsCarried
  BY <1>1 DEF RunsCarried, RunsFor
<1>3. \A d \in Daemon : ~RunsFor(d, c)'
  BY <1>1, NoneAssumption DEF Inv, OpenLineIsRun, Open
<1>4. pc'[c] \in {"idle", "send"}
  BY <1>0 DEF TypeOK, Ask, Goto, End
<1>5. PInv'
  BY <1>1, <1>2, <1>3, <1>4, OneKeeps
<1>6. CASE pc'[c] = "idle"
  <2>1. GoesOn(c)
    BY <1>6 DEF GoesOn, Phase
  <2> QED
    BY <1>1, <1>2, <1>3, <1>4, <1>6, <2>1, OneMoves
<1>7. CASE pc'[c] = "send"
  <2>1. snap'[c] = outputs
    BY <1>0, <1>7 DEF TypeOK, Ask, Goto, End
  <2>2. Phase(c) = "idle"
    BY <1>1 DEF Phase
  <2>3. Phase(c)' = "asked"
    BY <1>7 DEF Phase
  <2>4. \A b \in Client : b # c => Phase(b)' = Phase(b) /\ snap'[b] = snap[b]
    BY <1>1, <1>2, CarriedPhase DEF PInv, Carried
  <2>5. Phases' = [Phases EXCEPT ![c] = "asked"] /\ Bars' = [Bars EXCEPT ![c] = snap'[c]]
    BY <2>3, <2>4, OneAdvances
  <2>6. Phases[c] = "idle"
    BY <2>2, Views
  <2>7. Promise!Ask(c)
    BY <1>1, <2>1, <2>5, <2>6 DEF Promise!Ask, Promise!Move, Phases, Bars
  <2> QED
    BY <1>5, <2>7 DEF Simulated, Promise!Next
<1> QED
  BY <1>4, <1>6, <1>7

(* Another compiler's outputs, and nothing else.                           *)
LEMMA RecompileSimulated ==
  ASSUME PInv, Inv', Recompile
  PROVE  Simulated /\ PInv'
<1>1. outputs' \in Output /\ jvm' = jvm /\ line' = line /\ pc' = pc /\ snap' = snap
  BY DEF Recompile, own
<1>2. \A c \in Client : Phase(c)' = Phase(c)
  BY <1>1 DEF Phase, Answered
<1>3. Phases' = Phases /\ Bars' = Bars
  BY <1>1, <1>2, Views
<1>4. Promise!Recompile
  BY <1>1, <1>3 DEF Promise!Recompile, Phases, Bars
<1>5. PInv'
  BY <1>1 DEF PInv, SnapshotIsSent, AwaitsRun, RunsFor
<1> QED
  BY <1>4, <1>5 DEF Simulated, Promise!Next

(* Every step of the engine is a step of the promise, or none.             *)
LEMMA Simulation == PInv /\ [Next]_vars => [Promise!Next]_(Promise!vars) /\ PInv'
<1> SUFFICES ASSUME PInv, [Next]_vars
             PROVE  Simulated /\ PInv'
  BY DEF Simulated
<1>0. Inv'
  BY Inductive DEF PInv
<1>1. ASSUME NEW c \in Client, Step(c)
      PROVE  Simulated /\ PInv'
  <2>1. CASE Ask(c)
    BY <1>0, <2>1, AskSimulated
  <2>2. CASE ~Ask(c)
    BY <1>0, <1>1, <2>2, StepsSimulated DEF Step
  <2> QED
    BY <2>1, <2>2
<1>2. ASSUME NEW c \in Client, StartTimeout(c)
      PROVE  Simulated /\ PInv'
  <2>1. pc[c] = "knocking" /\ key[c] \in Daemon /\ Dies(key[c])
    BY <1>2 DEF PInv, Inv, TypeOK, Placed, Connecting, StartTimeout, Unheard
  <2>2. /\ outputs' = outputs /\ snap' = snap
        /\ \A b \in Client : pc'[b] = pc[b] \/ pc'[b] = "clear"
    BY <1>2 DEF PInv, Inv, TypeOK, StartTimeout, Goto, shared
  <2> QED
    BY <1>0, <2>1, <2>2, DeathSimulated
<1>3. ASSUME NEW c \in Client, RunTooLong(c) \/ AnswerTooLate(c) \/ TimedOut(c) \/ Kill(c)
      PROVE  Simulated /\ PInv'
  BY <1>0, <1>3, LeavingSimulated
<1>4. ASSUME NEW d \in Daemon, NEW c \in Client, Answer(d, c)
      PROVE  Simulated /\ PInv'
  BY <1>0, <1>4, AnswersSimulated
<1>5. ASSUME NEW d \in Daemon, Boot(d) \/ AnswerLeft(d) \/ Exit(d) \/ IdleExit(d) \/ Crash(d)
      PROVE  Simulated /\ PInv'
  <2>1. CASE Unbind(d) \/ Bind(d) \/ WarmedUp(d) \/ AnswerLeft(d)
    BY <1>0, <2>1, DaemonSimulated
  <2>2. CASE BindFailed(d) \/ Exit(d) \/ IdleExit(d) \/ Crash(d)
    <3>1. Dies(d) /\ outputs' = outputs /\ snap' = snap /\ pc' = pc
      BY <2>2 DEF BindFailed, Exit, IdleExit, Crash, shared, own
    <3> QED
      BY <1>0, <3>1, DeathSimulated
  <2> QED
    BY <1>5, <2>1, <2>2 DEF Boot
<1>6. ASSUME NEW d \in Daemon, Work(d)
      PROVE  Simulated /\ PInv'
  <2>1. CASE Verified(d)
    BY <1>0, <2>1, VerifiedSimulated
  <2>2. CASE ~Verified(d)
    <3>1. PICK last \in BOOLEAN :
            \/ RefuseStale(d, last) \/ RefuseOutdated(d, last)
            \/ Finish(d, last) \/ FinishEmpty(d, last) \/ FinishCut(d, last)
      BY <1>6, <2>2 DEF Work
    <3>2. \E state \in {"ok", "spoiled", "refused", "broken"} :
            /\ Ended(d, state, last) /\ jvm[d].run # None
            /\ state \in {"ok", "spoiled"} => AtStage(d, "run")
      BY <3>1 DEF RefuseStale, RefuseOutdated, Finish, FinishEmpty, FinishCut, AtStage
    <3> QED
      BY <1>0, <3>2, EndSimulated
  <2> QED
    BY <2>1, <2>2
<1>7. ASSUME NEW c \in Client, NEW command \in Goals, Command(c, command)
      PROVE  Simulated /\ PInv'
  BY <1>0, <1>7, StepsSimulated
<1>8. CASE Recompile
  BY <1>0, <1>8, RecompileSimulated
<1>9. CASE UNCHANGED vars
  <2>1. outputs' = outputs /\ RunsCarried /\ \A c \in Client : Carried(c)
    BY <1>9 DEF vars, own, RunsCarried, RunsFor, Carried
  <2> QED
    BY <1>0, <2>1, NoneAssumption, OneMoves
<1> QED
  BY <1>1, <1>2, <1>3, <1>4, <1>5, <1>6, <1>7, <1>8, <1>9 DEF Next

(* A report is of one run, and that run began on the outputs the client    *)
(* had taken its snapshot of, whichever daemons started, stopped, crashed  *)
(* or took over the socket meanwhile: the engine implements WarmTests.     *)
THEOREM EngineKeepsPromise == Spec => Implements
<1>1. Init => PInv /\ Promise!Init
  <2> SUFFICES ASSUME Init
               PROVE  PInv /\ Promise!Init
    OBVIOUS
  <2>1. PInv
    BY Initially DEF Init, PInv, SnapshotIsSent, AwaitsRun, RunsFor, Free
  <2>2. \A c \in Client : Phase(c) = "idle"
    <3>1. \A c \in Client : pc[c] = "idle"
      BY DEF Init
    <3> QED
      BY <3>1 DEF Phase
  <2>3. Phases = [c \in Client |-> "idle"] /\ Bars = [c \in Client |-> None]
    BY <2>2, Views
  <2>4. Promise!Init
    BY <2>3 DEF Init, Promise!Init, Phases, Bars
  <2> QED
    BY <2>1, <2>4
<1> QED
  BY <1>1, Simulation, PTL DEF Spec, Implements, Promise!Spec
=============================================================================
