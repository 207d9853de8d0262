--------------------------- MODULE PipelineProofs ---------------------------
(***************************************************************************)
(* What whole commands keep, for any project, models, migrations and       *)
(* number of processes: every plan a command makes is one the executor's   *)
(* theorems are about, a plan that was cut short is accepted again, no two *)
(* published migrations share a number and the sealed ones are one chain,  *)
(* what was accepted is settled, what the reader typed stays, and undo     *)
(* puts back what it found.                                                *)
(***************************************************************************)
EXTENDS Undo, ExecutorProofs, SequenceTheorems

-----------------------------------------------------------------------------
(* What the lock and the projections hold.                                 *)

IsProjection(projection) ==
  \A a \in DOMAIN projection :
    projection[a].path \in DOMAIN BaseOf /\ projection[a].text \in Text

(* A lock seals migrations.                                                *)
LEMMA SealableAreSlots == Sealable \subseteq DOMAIN Slot
  BY DEF Sealable

(* What a lock that jails wrote says.                                      *)
LEMMA LockSays ==
  ASSUME NEW m \in Model, NEW slots \in SUBSET DOMAIN Slot
  PROVE  /\ LockOf(m, slots).model = m
         /\ LockOf(m, slots).projection = Renders[m]
         /\ DOMAIN LockOf(m, slots).sealed = {Slot[s] : s \in slots}
         /\ \A s \in slots : LockOf(m, slots).sealed[Slot[s]] = s[2]
<1>1. ASSUME NEW s \in slots PROVE (CHOOSE t \in slots : Slot[t] = Slot[s]) = s
  BY SlotAssumption
<1> QED
  BY <1>1 DEF LockOf

(* A lock as jails writes it, or as the formatter does, for which the      *)
(* texts are those on disk; and what a plan can read: managed files are    *)
(* texts, and the lock is one of those.                                    *)
IsLock(lock) ==
  \E m \in Model : \E slots \in SUBSET Sealable, texts \in [DOMAIN Renders[m] -> Text] :
    lock = [model |-> m,
            projection |-> [a \in DOMAIN Renders[m] |-> [path |-> Renders[m][a].path, text |-> texts[a]]],
            sealed |-> LockOf(m, slots).sealed]

Readable(tree) ==
  /\ \A w \in DOMAIN BaseOf : tree[w] \in Text \cup {Absent}
  /\ tree[LockFile] = Absent \/ IsLock(tree[LockFile])

(* A lock jails writes says what its model renders, so a project jails     *)
(* left can be read.                                                       *)
LEMMA LockIsLock ==
  ASSUME NEW lock \in Locks
  PROVE  IsLock(lock)
<1>1. PICK m \in Model, slots \in SUBSET Sealable : lock = LockOf(m, slots)
  BY DEF Locks
<1> DEFINE texts == [a \in DOMAIN Renders[m] |-> Renders[m][a].text]
<1>2. \A a \in DOMAIN Renders[m] : Renders[m][a] \in [path : DOMAIN BaseOf, text : Text]
  BY RendersAssumption
<1>3. texts \in [DOMAIN Renders[m] -> Text]
  BY <1>2
<1>4. Renders[m] = [a \in DOMAIN Renders[m] |-> [path |-> Renders[m][a].path, text |-> texts[a]]]
  BY <1>2, RendersAssumption
<1>5. lock = [model |-> m, projection |-> Renders[m], sealed |-> LockOf(m, slots).sealed]
  BY <1>1 DEF LockOf
<1> HIDE DEF texts
<1> QED
  BY <1>3, <1>4, <1>5 DEF IsLock

LEMMA LegibleIsReadable ==
  ASSUME NEW tree, Legible(tree)
  PROVE  Readable(tree)
  BY LockIsLock DEF Legible, Readable

(* What it says: a declared model, what that renders and where, if not the *)
(* texts.                                                                  *)
LEMMA AcceptedTyped ==
  ASSUME NEW tree, Readable(tree)
  PROVE  /\ Accepted(tree) \in Model \cup {Absent}
         /\ IsProjection(AcceptedProjection(tree))
         /\ tree[LockFile] # Absent =>
              /\ Accepted(tree) \in Model
              /\ DOMAIN AcceptedProjection(tree) = DOMAIN Renders[Accepted(tree)]
              /\ \A a \in DOMAIN AcceptedProjection(tree) :
                   AcceptedProjection(tree)[a].path = Renders[Accepted(tree)][a].path
<1>1. CASE tree[LockFile] = Absent
  BY <1>1 DEF Accepted, AcceptedProjection, IsProjection
<1>2. CASE tree[LockFile] # Absent
  <2> DEFINE lock == tree[LockFile]
  <2>0. PICK m \in Model : \E slots \in SUBSET Sealable, texts \in [DOMAIN Renders[m] -> Text] :
          lock = [model |-> m,
                  projection |-> [a \in DOMAIN Renders[m] |-> [path |-> Renders[m][a].path, text |-> texts[a]]],
                  sealed |-> LockOf(m, slots).sealed]
    BY <1>2 DEF Readable, IsLock
  <2>1. /\ lock.model = m /\ DOMAIN lock.projection = DOMAIN Renders[m]
        /\ \A a \in DOMAIN Renders[m] : lock.projection[a] \in [path : {Renders[m][a].path}, text : Text]
    BY <2>0
  <2>2. Accepted(tree) = m /\ AcceptedProjection(tree) = lock.projection
    BY <1>2, <2>1 DEF Accepted, AcceptedProjection
  <2>3. \A a \in DOMAIN Renders[m] : Renders[m][a].path \in DOMAIN BaseOf
    BY RendersAssumption
  <2> HIDE DEF lock
  <2>4. \A a \in DOMAIN lock.projection :
          lock.projection[a].path = Renders[m][a].path /\ lock.projection[a].text \in Text
    BY <2>1
  <2> QED
    BY <1>2, <2>1, <2>2, <2>3, <2>4 DEF IsProjection, lock
<1> QED
  BY <1>1, <1>2

(* The lock jails wrote has those texts too.                               *)
LEMMA LegibleAccepts ==
  ASSUME NEW tree, Legible(tree), tree[LockFile] # Absent
  PROVE  Accepted(tree) \in Model /\ AcceptedProjection(tree) = Renders[Accepted(tree)]
<1>1. PICK m \in Model, slots \in SUBSET Sealable : tree[LockFile] = LockOf(m, slots)
  BY DEF Legible, Locks
<1> QED
  BY <1>1, LockSays, SealableAreSlots DEF Accepted, AcceptedProjection

(* The migrations it seals are migrations, under their own names.          *)
LEMMA SealedTyped ==
  ASSUME NEW tree, Readable(tree)
  PROVE  \E slots \in SUBSET Sealable :
           /\ DOMAIN Sealed(tree) = {Slot[s] : s \in slots}
           /\ \A s \in slots : Sealed(tree)[Slot[s]] = s[2]
<1>1. CASE tree[LockFile] = Absent
  BY <1>1 DEF Sealed
<1>2. CASE tree[LockFile] # Absent
  <2>0. PICK m \in Model : \E slots \in SUBSET Sealable, texts \in [DOMAIN Renders[m] -> Text] :
          tree[LockFile] =
            [model |-> m,
             projection |-> [a \in DOMAIN Renders[m] |-> [path |-> Renders[m][a].path, text |-> texts[a]]],
             sealed |-> LockOf(m, slots).sealed]
    BY <1>2 DEF Readable, IsLock
  <2>1. PICK slots \in SUBSET Sealable : tree[LockFile].sealed = LockOf(m, slots).sealed
    BY <2>0
  <2>2. Sealed(tree) = LockOf(m, slots).sealed
    BY <1>2, <2>1 DEF Sealed
  <2> QED
    BY <2>2, LockSays, SealableAreSlots
<1> QED
  BY <1>1, <1>2

(* A lock seals migrations and nothing else.                               *)
LEMMA SealedMigrations ==
  ASSUME NEW tree, Readable(tree), NEW w \in DOMAIN Sealed(tree)
  PROVE  w \in MigrationPaths
<1>1. PICK slots \in SUBSET Sealable : DOMAIN Sealed(tree) = {Slot[s] : s \in slots}
  BY SealedTyped
<1> QED
  BY <1>1, SealableAreSlots DEF MigrationPaths

(* A merge base is a text at a base path.                                  *)
LEMMA BaseTyped ==
  ASSUME NEW projection, IsProjection(projection)
  PROVE  PartialFunction(BaseTree(projection), BasePaths, Text)
<1> DEFINE base == BaseTree(projection)
<1>1. DOMAIN base = {BaseOf[v] : v \in PathsIn(projection)}
  BY DEF BaseTree
<1>2. DOMAIN base \subseteq BasePaths
  BY <1>1 DEF PathsIn, BasePaths, IsProjection
<1>3. ASSUME NEW w \in DOMAIN base PROVE base[w] \in Text
  <2>1. \E a \in DOMAIN projection : BaseOf[projection[a].path] = w
    BY <1>1 DEF PathsIn
  <2> QED
    BY <1>1, <2>1 DEF BaseTree, IsProjection
<1> QED
  BY <1>2, <1>3 DEF PartialFunction, BaseTree

(* What becomes of a managed file is a text, none, or a refusal.           *)
LEMMA VerdictTyped ==
  ASSUME NEW tree, Readable(tree), NEW cmd, IsCommand(cmd), NEW a \in Artifacts(tree, cmd)
  PROVE  /\ LivePath(tree, cmd.to, a) \in DOMAIN BaseOf
         /\ OutputPath(tree, cmd.to, a) \in DOMAIN BaseOf
         /\ Verdict(tree, cmd, a) \in Text \cup {Absent, Refused}
<1> DEFINE old == AcceptedProjection(tree)
           next == Renders[cmd.to]
           live == LivePath(tree, cmd.to, a)
<1>1. IsProjection(old) /\ IsProjection(next)
  BY AcceptedTyped, RendersAssumption DEF IsCommand, IsProjection
<1>2. a \in DOMAIN old \/ a \in DOMAIN next
  BY DEF Artifacts, OldArtifacts
<1>3. live \in DOMAIN BaseOf /\ OutputPath(tree, cmd.to, a) \in DOMAIN BaseOf
  BY <1>1, <1>2 DEF LivePath, OutputPath, OldArtifacts, IsProjection
<1>4. tree[live] \in Text \cup {Absent}
  BY <1>3 DEF Readable
<1>5. TextIn(old, a) \in Text \cup {Absent} /\ TextIn(next, a) \in Text \cup {Absent}
  BY <1>1 DEF TextIn, IsProjection
<1>6. ASSUME NEW base \in Text, NEW ours \in Text, NEW theirs \in Text
      PROVE  ThreeWay(base, ours, theirs) \in Text \cup {Refused}
  BY DEF ThreeWay, Merged, Text
<1>7. ASSUME NEW base \in Text \cup {Absent}, NEW ours \in Text \cup {Absent}, NEW theirs \in Text \cup {Absent},
             NEW ejected
      PROVE  Settled(base, ours, theirs, ejected, cmd.restore) \in Text \cup {Absent, Refused}
  BY <1>6 DEF Settled, Claimed, Dropped, Deleted
<1> QED
  BY <1>3, <1>4, <1>5, <1>7 DEF Verdict

-----------------------------------------------------------------------------
(* A plan can be made.                                                     *)
Plannable(tree, cmd) ==
  /\ tree \in Tree
  /\ Readable(tree)
  /\ IsCommand(cmd)
  /\ ~PlanRefused(tree, cmd)
  /\ Named(tree, cmd)

(* They are a sequence, the derived ones first.                            *)
LEMMA DraftedTyped ==
  ASSUME NEW tree, NEW cmd, Plannable(tree, cmd)
  PROVE  /\ Len(Drafted(tree, cmd)) \in Nat /\ DOMAIN Drafted(tree, cmd) = 1 .. Len(Drafted(tree, cmd))
         /\ Len(Derived(tree, cmd)) \in Nat /\ DOMAIN Derived(tree, cmd) = 1 .. Len(Derived(tree, cmd))
         /\ DOMAIN Derived(tree, cmd) \subseteq DOMAIN Drafted(tree, cmd)
         /\ \A i \in DOMAIN Derived(tree, cmd) :
              Drafted(tree, cmd)[i] = Derived(tree, cmd)[i] /\ Derived(tree, cmd)[i] \notin Authored
         /\ \A i \in DOMAIN Drafted(tree, cmd) \ DOMAIN Derived(tree, cmd) : Drafted(tree, cmd)[i] \in Authored
         /\ cmd.authored = << >> => Drafted(tree, cmd) = Derived(tree, cmd)
<1> DEFINE derived == Derived(tree, cmd)
           authored == cmd.authored
           S == Image \cup Authored
<1>1. derived \in Seq(Image \ Authored)
  BY DerivesAssumption DEF Plannable, PlanRefused, Derived
<1>2. authored = << >> \/ \E m \in Authored : authored = <<m>>
  BY DEF Plannable, IsCommand
<1>3. /\ Len(derived) \in Nat /\ DOMAIN derived = 1 .. Len(derived)
      /\ \A i \in DOMAIN derived : derived[i] \in Image \ Authored
  BY <1>1
<1>4. /\ Len(authored) \in Nat /\ DOMAIN authored = 1 .. Len(authored)
      /\ \A i \in DOMAIN authored : authored[i] \in Authored
  BY <1>2
<1>5. derived \in Seq(S) /\ authored \in Seq(S)
  <2>1. Image \ Authored \subseteq S
    OBVIOUS
  <2>2. derived \in Seq(S)
    BY <1>1, <2>1, SeqMonotonic
  <2>3. << >> \in Seq(S) /\ \A m \in S : <<m>> \in Seq(S)
    OBVIOUS
  <2>4. authored \in Seq(S)
    BY <1>2, <2>3
  <2> QED
    BY <2>2, <2>4
<1>6. Drafted(tree, cmd) = derived \o authored
  BY DEF Drafted
<1> HIDE DEF derived, authored, S
<1>7. /\ derived \o authored \in Seq(S)
      /\ Len(derived \o authored) = Len(derived) + Len(authored)
      /\ \A i \in 1 .. Len(derived) + Len(authored) :
           (derived \o authored)[i] = IF i <= Len(derived) THEN derived[i] ELSE authored[i - Len(derived)]
  BY <1>5, ConcatProperties
<1>8. DOMAIN (derived \o authored) = 1 .. Len(derived) + Len(authored)
  BY <1>7
<1>9. \A i \in DOMAIN derived : i \in DOMAIN (derived \o authored) /\ (derived \o authored)[i] = derived[i]
  BY <1>3, <1>4, <1>7, <1>8
<1>10. ASSUME NEW i \in DOMAIN (derived \o authored) \ DOMAIN derived PROVE (derived \o authored)[i] \in Authored
  <2>1. i - Len(derived) \in DOMAIN authored /\ ~(i <= Len(derived))
    BY <1>3, <1>4, <1>8
  <2> QED
    BY <1>4, <1>7, <1>8, <2>1
<1>11. authored = << >> => derived \o authored = derived
  BY <1>5, ConcatEmptySeq
<1> DEFINE drafted == derived \o authored
<1>12. /\ Len(drafted) \in Nat /\ DOMAIN drafted = 1 .. Len(drafted)
       /\ Len(derived) \in Nat /\ DOMAIN derived = 1 .. Len(derived)
       /\ DOMAIN derived \subseteq DOMAIN drafted
       /\ \A i \in DOMAIN derived : drafted[i] = derived[i] /\ derived[i] \notin Authored
       /\ \A i \in DOMAIN drafted \ DOMAIN derived : drafted[i] \in Authored
       /\ authored = << >> => drafted = derived
  <2> HIDE DEF drafted
  <2>1. Len(drafted) = Len(derived) + Len(authored) /\ DOMAIN drafted = 1 .. Len(derived) + Len(authored)
    BY <1>7, <1>8 DEF drafted
  <2>2. Len(drafted) \in Nat /\ DOMAIN drafted = 1 .. Len(drafted)
    BY <1>3, <1>4, <2>1
  <2> QED
    BY <1>3, <1>9, <1>10, <1>11, <2>2 DEF drafted
<1> QED
  BY <1>6, <1>12 DEF derived, authored

(* The migrations it appends, and the numbers they get.                    *)
Fresh(tree, cmd) == {Allotted(tree, cmd, i) : i \in DOMAIN Drafted(tree, cmd)}

(* No migration of the project is numbered after the newest, and that is   *)
(* one of them if there are any.                                           *)
LEMMA NewestIsNumber ==
  ASSUME NEW tree
  PROVE  /\ Newest(tree) \in Nat
         /\ \A slot \in Taken(tree) : slot[1] \in Nat /\ slot[1] <= Newest(tree)
         /\ Newest(tree) = 0 \/ \E slot \in Taken(tree) : slot[1] = Newest(tree)
<1>1. \A slot \in Taken(tree) : slot[1] \in Number /\ slot[1] \in Nat
  BY SlotAssumption DEF Taken, Number
<1>2. CASE Taken(tree) = {}
  BY <1>2 DEF Newest
<1>3. CASE Taken(tree) # {}
  <2> DEFINE some == {slot[1] : slot \in Taken(tree)}
  <2>1. some \in (SUBSET Number) \ {{}}
    <3>1. some \subseteq Number
      BY <1>1
    <3>2. PICK t \in Taken(tree) : TRUE
      BY <1>3
    <3>3. t[1] \in some
      BY <3>2
    <3> QED
      BY <3>1, <3>3
  <2>2. \E n \in some : \A k \in some : k <= n
    BY <2>1, SlotAssumption
  <2>3. \E n \in Number : (\E slot \in Taken(tree) : slot[1] = n) /\ \A slot \in Taken(tree) : slot[1] <= n
    BY <1>1, <2>2
  <2>4. /\ Newest(tree) \in Number /\ \E slot \in Taken(tree) : slot[1] = Newest(tree)
        /\ \A slot \in Taken(tree) : slot[1] <= Newest(tree)
    BY <1>3, <2>3 DEF Newest
  <2> QED
    BY <1>1, <2>4
<1> QED
  BY <1>2, <1>3

(* They are new: their numbers are beyond all that are taken, and no two   *)
(* are the same.                                                           *)
LEMMA FreshIsNew ==
  ASSUME NEW tree, NEW cmd, Plannable(tree, cmd)
  PROVE  /\ Fresh(tree, cmd) \subseteq DOMAIN Slot
         /\ \A i \in DOMAIN Drafted(tree, cmd) :
              /\ i \in Nat \ {0}
              /\ Allotted(tree, cmd, i)[1] = Newest(tree) + i
              /\ Allotted(tree, cmd, i)[2] = Drafted(tree, cmd)[i]
         /\ \A s \in Fresh(tree, cmd) : s[1] \in Nat /\ s[1] > Newest(tree) /\ s \notin Taken(tree)
         /\ \A s, t \in Fresh(tree, cmd) : s[1] = t[1] => s = t
<1>2. \A i \in DOMAIN Drafted(tree, cmd) : i \in Nat \ {0}
  BY DraftedTyped
<1>3. \A i \in DOMAIN Drafted(tree, cmd) :
        /\ Allotted(tree, cmd, i)[1] = Newest(tree) + i
        /\ Allotted(tree, cmd, i)[2] = Drafted(tree, cmd)[i]
  BY DEF Allotted
<1>4. Fresh(tree, cmd) \subseteq DOMAIN Slot
  BY DEF Fresh, Plannable, Named
<1>5. Newest(tree) \in Nat
  BY NewestIsNumber
<1>6. ASSUME NEW s \in Fresh(tree, cmd) PROVE s[1] \in Nat /\ s[1] > Newest(tree) /\ s \notin Taken(tree)
  <2>1. s[1] \in Nat /\ s[1] > Newest(tree)
    BY <1>2, <1>3, <1>5 DEF Fresh
  <2>2. s \in Taken(tree) => s[1] <= Newest(tree)
    BY NewestIsNumber
  <2> QED
    BY <1>5, <2>1, <2>2
<1>7. ASSUME NEW s \in Fresh(tree, cmd), NEW t \in Fresh(tree, cmd), s[1] = t[1] PROVE s = t
  <2>1. PICK i \in DOMAIN Drafted(tree, cmd) : s = Allotted(tree, cmd, i)
    BY DEF Fresh
  <2>2. PICK j \in DOMAIN Drafted(tree, cmd) : t = Allotted(tree, cmd, j)
    BY DEF Fresh
  <2>3. i = j
    BY <1>2, <1>3, <1>5, <1>7, <2>1, <2>2
  <2> QED
    BY <2>1, <2>2, <2>3
<1> QED
  BY <1>2, <1>3, <1>4, <1>6, <1>7

(* The migrations as the plan leaves them: the sealed ones as the last lock *)
(* seals them, and the fresh ones.                                         *)
MigrationsAfter(tree, cmd) ==
  [w \in DOMAIN Sealed(tree) \cup {Slot[s] : s \in Fresh(tree, cmd)} |->
     IF \E s \in Fresh(tree, cmd) : Slot[s] = w
       THEN (CHOOSE s \in Fresh(tree, cmd) : Slot[s] = w)[2] ELSE Sealed(tree)[w]]

(* A fresh one is the text it was drafted with.                            *)
LEMMA FreshAfter ==
  ASSUME NEW tree, NEW cmd, Plannable(tree, cmd), NEW s \in Fresh(tree, cmd)
  PROVE  MigrationsAfter(tree, cmd)[Slot[s]] = s[2]
<1> DEFINE fresh == Fresh(tree, cmd)
<1>1. fresh \subseteq DOMAIN Slot
  BY FreshIsNew
<1>2. (CHOOSE t \in fresh : Slot[t] = Slot[s]) = s
  BY <1>1, SlotAssumption
<1> QED
  BY <1>2 DEF MigrationsAfter

(* Any other is as it was sealed.                                          *)
LEMMA MigrationsAfterTyped ==
  ASSUME NEW tree, NEW cmd
  PROVE  /\ DOMAIN MigrationsAfter(tree, cmd) = DOMAIN Sealed(tree) \cup {Slot[s] : s \in Fresh(tree, cmd)}
         /\ \A w \in DOMAIN Sealed(tree) \ {Slot[s] : s \in Fresh(tree, cmd)} :
              MigrationsAfter(tree, cmd)[w] = Sealed(tree)[w]
  BY DEF MigrationsAfter

(* What the next lock seals: what the last one did, and the fresh ones     *)
(* that jails derived, all as the plan leaves them.                        *)
LEMMA SealedAfterTyped ==
  ASSUME NEW tree, NEW cmd, Plannable(tree, cmd)
  PROVE  /\ \E slots \in SUBSET Sealable :
              /\ DOMAIN SealedAfter(tree, cmd) = {Slot[s] : s \in slots}
              /\ \A s \in slots : SealedAfter(tree, cmd)[Slot[s]] = s[2]
              /\ LockOf(cmd.to, slots).sealed = SealedAfter(tree, cmd)
         /\ DOMAIN SealedAfter(tree, cmd) =
              DOMAIN Sealed(tree) \cup {Slot[s] : s \in Fresh(tree, cmd) \cap Sealable}
         /\ \A w \in DOMAIN SealedAfter(tree, cmd) :
              w \in DOMAIN MigrationsAfter(tree, cmd) /\ SealedAfter(tree, cmd)[w] = MigrationsAfter(tree, cmd)[w]
<1> DEFINE fresh == Fresh(tree, cmd) \cap Sealable
           next == SealedAfter(tree, cmd)
<1>1. Readable(tree) /\ fresh \subseteq Sealable /\ fresh \subseteq DOMAIN Slot
  BY FreshIsNew DEF Plannable
<1>2. PICK old \in SUBSET Sealable :
        /\ DOMAIN Sealed(tree) = {Slot[s] : s \in old}
        /\ \A s \in old : Sealed(tree)[Slot[s]] = s[2]
  BY <1>1, SealedTyped
<1> DEFINE slots == old \cup fresh
<1>3. next = [w \in DOMAIN Sealed(tree) \cup {Slot[s] : s \in fresh} |->
                IF \E s \in fresh : Slot[s] = w THEN (CHOOSE s \in fresh : Slot[s] = w)[2] ELSE Sealed(tree)[w]]
  BY DEF SealedAfter, Fresh, Allotments
<1>4. ASSUME NEW s \in fresh PROVE next[Slot[s]] = s[2]
  <2>1. (CHOOSE t \in fresh : Slot[t] = Slot[s]) = s
    BY <1>1, SlotAssumption
  <2> QED
    BY <1>3, <2>1
<1>5. ASSUME NEW w \in DOMAIN Sealed(tree) \ {Slot[s] : s \in fresh} PROVE next[w] = Sealed(tree)[w]
  BY <1>3
<1>6. DOMAIN next = {Slot[s] : s \in slots}
  BY <1>2, <1>3
<1>7. ASSUME NEW s \in slots PROVE next[Slot[s]] = s[2]
  <2>1. CASE \E t \in fresh : Slot[t] = Slot[s]
    BY <1>1, <1>2, <1>4, <2>1, SlotAssumption, SealableAreSlots
  <2>2. CASE ~\E t \in fresh : Slot[t] = Slot[s]
    BY <1>2, <1>5, <2>2
  <2> QED
    BY <2>1, <2>2
<1>8. LockOf(cmd.to, slots).sealed = next
  <2>1. LockOf(cmd.to, slots).sealed = [w \in {Slot[s] : s \in slots} |-> (CHOOSE s \in slots : Slot[s] = w)[2]]
    BY DEF LockOf
  <2>2. ASSUME NEW w \in {Slot[s] : s \in slots} PROVE (CHOOSE s \in slots : Slot[s] = w)[2] = next[w]
    BY <1>7
  <2>3. next = [w \in {Slot[s] : s \in slots} |-> next[w]]
    BY <1>3, <1>6
  <2> QED
    BY <2>1, <2>2, <2>3
<1>9. slots \in SUBSET Sealable
  BY <1>1
<1>10. DOMAIN MigrationsAfter(tree, cmd) = DOMAIN Sealed(tree) \cup {Slot[t] : t \in Fresh(tree, cmd)}
  BY MigrationsAfterTyped
<1>11. \A t \in Fresh(tree, cmd) : MigrationsAfter(tree, cmd)[Slot[t]] = t[2]
  BY FreshAfter
<1>12. \A w \in DOMAIN Sealed(tree) \ {Slot[t] : t \in Fresh(tree, cmd)} :
         MigrationsAfter(tree, cmd)[w] = Sealed(tree)[w]
  BY MigrationsAfterTyped
<1>13. ASSUME NEW s \in slots
       PROVE  Slot[s] \in DOMAIN MigrationsAfter(tree, cmd) /\ MigrationsAfter(tree, cmd)[Slot[s]] = s[2]
  <2>1. /\ Fresh(tree, cmd) \subseteq DOMAIN Slot /\ s \in DOMAIN Slot
        /\ \A t \in DOMAIN Slot : Slot[t] = Slot[s] => t = s
    BY <1>9, FreshIsNew, SealableAreSlots, SlotAssumption
  <2>2. CASE s \in Fresh(tree, cmd)
    BY <1>10, <1>11, <2>2
  <2>3. CASE s \notin Fresh(tree, cmd)
    <3>1. s \in old /\ Slot[s] \in DOMAIN Sealed(tree) /\ Sealed(tree)[Slot[s]] = s[2]
      BY <1>2, <2>3
    <3>2. Slot[s] \notin {Slot[t] : t \in Fresh(tree, cmd)}
      BY <2>1, <2>3
    <3> QED
      BY <1>10, <1>12, <3>1, <3>2
  <2> QED
    BY <2>2, <2>3
<1> HIDE DEF slots, fresh, next
<1>14. \E x \in SUBSET Sealable :
         DOMAIN next = {Slot[s] : s \in x} /\ (\A s \in x : next[Slot[s]] = s[2]) /\ LockOf(cmd.to, x).sealed = next
  BY <1>6, <1>7, <1>8, <1>9
<1>15. ASSUME NEW w \in DOMAIN next
       PROVE  w \in DOMAIN MigrationsAfter(tree, cmd) /\ next[w] = MigrationsAfter(tree, cmd)[w]
  BY <1>6, <1>7, <1>13
<1> QED
  BY <1>3, <1>14, <1>15 DEF fresh, next

(* It seals a migration as the plan leaves it.                             *)
LEMMA SealedAsLeft ==
  ASSUME NEW tree, NEW cmd, Plannable(tree, cmd), NEW w \in DOMAIN SealedAfter(tree, cmd)
  PROVE  w \in DOMAIN MigrationsAfter(tree, cmd) /\ SealedAfter(tree, cmd)[w] = MigrationsAfter(tree, cmd)[w]
  BY SealedAfterTyped

(* The fresh ones it seals are those that jails derived.                   *)
LEMMA FreshDerived ==
  ASSUME NEW tree, NEW cmd, Plannable(tree, cmd)
  PROVE  /\ \A i \in DOMAIN Derived(tree, cmd) : Allotted(tree, cmd, i) \in Fresh(tree, cmd) \cap Sealable
         /\ \A s \in Fresh(tree, cmd) \cap Sealable :
              \E i \in DOMAIN Derived(tree, cmd) : s = Allotted(tree, cmd, i)
         /\ \A s \in Fresh(tree, cmd) \ Sealable : s[2] \in Authored
<1>1. ASSUME NEW i \in DOMAIN Drafted(tree, cmd)
      PROVE  /\ Allotted(tree, cmd, i) \in Fresh(tree, cmd) /\ Allotted(tree, cmd, i) \in DOMAIN Slot
             /\ Allotted(tree, cmd, i)[2] = Drafted(tree, cmd)[i]
             /\ i \in DOMAIN Derived(tree, cmd) => Allotted(tree, cmd, i)[2] \notin Authored
             /\ i \notin DOMAIN Derived(tree, cmd) => Allotted(tree, cmd, i)[2] \in Authored
  <2>1. Allotted(tree, cmd, i) \in Fresh(tree, cmd)
    BY DEF Fresh
  <2>2. Allotted(tree, cmd, i) \in DOMAIN Slot /\ Allotted(tree, cmd, i)[2] = Drafted(tree, cmd)[i]
    BY <2>1, FreshIsNew
  <2>3. /\ i \in DOMAIN Derived(tree, cmd) => Drafted(tree, cmd)[i] \notin Authored
        /\ i \notin DOMAIN Derived(tree, cmd) => Drafted(tree, cmd)[i] \in Authored
    BY DraftedTyped
  <2> QED
    BY <2>1, <2>2, <2>3
<1>2. DOMAIN Derived(tree, cmd) \subseteq DOMAIN Drafted(tree, cmd)
  BY DraftedTyped
<1>3. \A i \in DOMAIN Derived(tree, cmd) : Allotted(tree, cmd, i) \in Fresh(tree, cmd) \cap Sealable
  BY <1>1, <1>2 DEF Sealable
<1>4. ASSUME NEW s \in Fresh(tree, cmd)
      PROVE  /\ s \in Sealable => \E i \in DOMAIN Derived(tree, cmd) : s = Allotted(tree, cmd, i)
             /\ s \notin Sealable => s[2] \in Authored
  <2>1. PICK i \in DOMAIN Drafted(tree, cmd) : s = Allotted(tree, cmd, i)
    BY DEF Fresh
  <2> QED
    BY <1>1, <2>1 DEF Sealable
<1> QED
  BY <1>3, <1>4

(* A migration that the next lock seals and that is not fresh, the last    *)
(* one sealed.                                                             *)
LEMMA SealedBefore ==
  ASSUME NEW tree, NEW cmd, Plannable(tree, cmd),
         NEW w \in DOMAIN SealedAfter(tree, cmd), w \notin {Slot[s] : s \in Fresh(tree, cmd)}
  PROVE  w \in DOMAIN Sealed(tree) /\ SealedAfter(tree, cmd)[w] = Sealed(tree)[w]
<1>1. w \in DOMAIN MigrationsAfter(tree, cmd) /\ SealedAfter(tree, cmd)[w] = MigrationsAfter(tree, cmd)[w]
  BY SealedAsLeft
<1>2. DOMAIN MigrationsAfter(tree, cmd) = DOMAIN Sealed(tree) \cup {Slot[s] : s \in Fresh(tree, cmd)}
  BY MigrationsAfterTyped
<1>3. \A v \in DOMAIN Sealed(tree) \ {Slot[s] : s \in Fresh(tree, cmd)} :
        MigrationsAfter(tree, cmd)[v] = Sealed(tree)[v]
  BY MigrationsAfterTyped
<1> QED
  BY <1>1, <1>2, <1>3

-----------------------------------------------------------------------------
(* The operations of a plan all lead to one tree: what they write is what  *)
(* it holds, and what they take away it does not hold.                     *)
LockAfter(tree, cmd) ==
  [model |-> cmd.to, projection |-> Renders[cmd.to], sealed |-> SealedAfter(tree, cmd)]

Target(tree, cmd, w) ==
  IF w \in DOMAIN BaseOf
    THEN IF w \in DOMAIN TreeAfter(tree, cmd) THEN TreeAfter(tree, cmd)[w] ELSE Absent
  ELSE IF w \in BasePaths
    THEN IF w \in DOMAIN BaseTree(Renders[cmd.to]) THEN BaseTree(Renders[cmd.to])[w] ELSE Absent
  ELSE IF w = ModelFile THEN cmd.to
  ELSE IF w = LockFile THEN LockAfter(tree, cmd)
  ELSE MigrationsAfter(tree, cmd)[w]

Follows(op, tree, cmd) ==
  /\ IsOperation(op)
  /\ \A w \in Written(op) : op.after[w] = Target(tree, cmd, w)
  /\ \A w \in Retired(op) : Target(tree, cmd, w) = Absent
  /\ op.kind \in {"file", "append"} => Retired(op) = {}

Entries(s) == {s[i] : i \in DOMAIN s}

(* An operation that may be left out is a sequence of one or of none.      *)
LEMMA WhenSaysOne ==
  ASSUME NEW condition, NEW op
  PROVE  /\ Entries(When(condition, op)) \subseteq {op}
         /\ Entries(When(condition, op)) # {} => condition
         /\ When(condition, op) \in Seq(Entries(When(condition, op)))
         /\ Len(When(condition, op)) <= 1
         /\ condition => When(condition, op) = <<op>>
         /\ ~condition => When(condition, op) = << >>
<1>1. CASE condition
  <2>1. When(condition, op) = <<op>>
    BY <1>1 DEF When
  <2>2. DOMAIN <<op>> = {1} /\ <<op>>[1] = op /\ <<op>> \in Seq({op}) /\ Len(<<op>>) <= 1
    OBVIOUS
  <2>3. Entries(<<op>>) = {op}
    <3>1. Entries(<<op>>) = {<<op>>[i] : i \in {1}}
      BY <2>2 DEF Entries
    <3> QED
      BY <2>2, <3>1
  <2> QED
    BY <1>1, <2>1, <2>2, <2>3, Zenon
<1>2. CASE ~condition
  <2>1. When(condition, op) = << >>
    BY <1>2 DEF When
  <2>2. Entries(<< >>) = {} /\ << >> \in Seq({}) /\ Len(<< >>) <= 1
    BY DEF Entries
  <2> QED
    BY <1>2, <2>1, <2>2, Zenon
<1> QED
  BY <1>1, <1>2

(* Which kind of file a path is, one at most.                              *)
LEMMA KindsOfPath ==
  /\ DOMAIN BaseOf \cap MigrationPaths = {} /\ BasePaths \cap MigrationPaths = {}
  /\ ModelFile \notin MigrationPaths /\ LockFile \notin MigrationPaths
  BY PathsAssumption

(* A text of the projection is an image, and so is what a tree holds.      *)
LEMMA Images ==
  ASSUME NEW tree \in Tree
  PROVE  /\ Text \subseteq Image
         /\ \A w \in Path : tree[w] # Absent => tree[w] \in Image
  BY ImagesAssumption DEF Tree, Content

(* A map from some paths to some images is a map from paths to images.     *)
LEMMA WidenedFunction ==
  ASSUME NEW f, NEW S, NEW T, PartialFunction(f, S, T), S \subseteq Path, T \subseteq Image
  PROVE  PartialFunction(f, Path, Image)
  BY DEF PartialFunction

(* The images of the files found at some paths.                            *)
LEMMA PresentTyped ==
  ASSUME NEW tree \in Tree, NEW paths, paths \subseteq Path
  PROVE  PartialFunction(Present(tree, paths), Path, Image) /\ DOMAIN Present(tree, paths) \subseteq paths
<1>1. DOMAIN Present(tree, paths) = {v \in paths : tree[v] # Absent}
  BY DEF Present
<1>2. \A w \in DOMAIN Present(tree, paths) : Present(tree, paths)[w] \in Image
  BY <1>1, Images DEF Present
<1> QED
  BY <1>1, <1>2 DEF PartialFunction, Present

(* The managed files: what is kept is a text, where the next projection or *)
(* the last one had it.                                                    *)
LEMMA ManagedTrees ==
  ASSUME NEW tree, NEW cmd, Plannable(tree, cmd)
  PROVE  /\ PartialFunction(TreeBefore(tree, cmd), DOMAIN BaseOf, Text)
         /\ PartialFunction(TreeAfter(tree, cmd), DOMAIN BaseOf, Text)
<1>1. Readable(tree) /\ IsCommand(cmd)
  BY DEF Plannable
<1>2. PartialFunction(TreeBefore(tree, cmd), DOMAIN BaseOf, Text)
  <2>1. DOMAIN TreeBefore(tree, cmd) =
          {v \in {LivePath(tree, cmd.to, a) : a \in OldArtifacts(tree) \ Ejects[cmd.to]} : tree[v] # Absent}
    BY DEF TreeBefore
  <2>2. \A a \in OldArtifacts(tree) : LivePath(tree, cmd.to, a) \in DOMAIN BaseOf
    BY <1>1, VerdictTyped DEF Artifacts
  <2>3. DOMAIN TreeBefore(tree, cmd) \subseteq DOMAIN BaseOf
    BY <2>1, <2>2
  <2>4. \A w \in DOMAIN TreeBefore(tree, cmd) : TreeBefore(tree, cmd)[w] = tree[w] /\ tree[w] # Absent
    BY <2>1 DEF TreeBefore
  <2>5. \A w \in DOMAIN TreeBefore(tree, cmd) : TreeBefore(tree, cmd)[w] \in Text
    BY <1>1, <2>3, <2>4 DEF Readable
  <2> QED
    BY <2>3, <2>5 DEF PartialFunction, TreeBefore
<1>3. PartialFunction(TreeAfter(tree, cmd), DOMAIN BaseOf, Text)
  <2> DEFINE stays == {a \in Artifacts(tree, cmd) : Verdict(tree, cmd, a) # Absent}
  <2>1. \A a \in stays : Verdict(tree, cmd, a) \in Text /\ OutputPath(tree, cmd.to, a) \in DOMAIN BaseOf
    <3>1. \A a \in stays : Verdict(tree, cmd, a) # Refused
      BY DEF Plannable, PlanRefused
    <3> QED
      BY <1>1, <3>1, VerdictTyped
  <2>2. TreeAfter(tree, cmd) =
          [w \in {OutputPath(tree, cmd.to, a) : a \in stays} |->
             Verdict(tree, cmd, CHOOSE a \in stays : OutputPath(tree, cmd.to, a) = w)]
    BY DEF TreeAfter
  <2> HIDE DEF stays
  <2>3. DOMAIN TreeAfter(tree, cmd) = {OutputPath(tree, cmd.to, a) : a \in stays}
    BY <2>2
  <2>4. ASSUME NEW w \in DOMAIN TreeAfter(tree, cmd) PROVE TreeAfter(tree, cmd)[w] \in Text
    <3>1. \E a \in stays : OutputPath(tree, cmd.to, a) = w
      BY <2>3
    <3> QED
      BY <2>1, <2>2, <2>3, <3>1
  <2>5. DOMAIN TreeAfter(tree, cmd) \subseteq DOMAIN BaseOf
    BY <2>1, <2>3
  <2>6. TreeAfter(tree, cmd) = [w \in DOMAIN TreeAfter(tree, cmd) |-> TreeAfter(tree, cmd)[w]]
    BY <2>2, <2>3
  <2> QED
    BY <2>4, <2>5, <2>6 DEF PartialFunction
<1> QED
  BY <1>2, <1>3

(* Publishing the managed files leads each to its verdict, and touches     *)
(* none but those.                                                         *)
LEMMA ManagedMoves ==
  ASSUME NEW tree, NEW cmd, Plannable(tree, cmd), NEW op \in Entries(PublishManaged(tree, cmd))
  PROVE  Follows(op, tree, cmd) /\ Touched(op) \subseteq DOMAIN BaseOf
<1>1. op = [kind |-> "tree", before |-> TreeBefore(tree, cmd), after |-> TreeAfter(tree, cmd)]
  BY WhenSaysOne DEF PublishManaged
<1>2. /\ PartialFunction(TreeBefore(tree, cmd), DOMAIN BaseOf, Text)
      /\ PartialFunction(TreeAfter(tree, cmd), DOMAIN BaseOf, Text)
  BY ManagedTrees
<1>3. PartialFunction(op.before, Path, Image) /\ PartialFunction(op.after, Path, Image)
  BY <1>1, <1>2, WidenedFunction, PathsAssumption, ImagesAssumption
<1>4. Written(op) \subseteq DOMAIN BaseOf /\ Retired(op) \subseteq DOMAIN BaseOf
  BY <1>1, <1>2 DEF PartialFunction, Written, Retired
<1>5. \A w \in Written(op) : op.after[w] = Target(tree, cmd, w)
  BY <1>1, <1>4 DEF Written, Target
<1>6. \A w \in Retired(op) : Target(tree, cmd, w) = Absent
  BY <1>1, <1>4 DEF Retired, Target
<1> QED
  BY <1>1, <1>3, <1>4, <1>5, <1>6 DEF Follows, IsOperation, Touched

(* The merge base: what the next projection renders, and no stray.         *)
LEMMA BaseMoves ==
  ASSUME NEW tree, NEW cmd, Plannable(tree, cmd),
         NEW op \in Entries(PublishBase(tree, cmd)) \cup Entries(RetireStrays(tree, cmd))
  PROVE  Follows(op, tree, cmd) /\ Touched(op) \subseteq BasePaths
<1> DEFINE old == BaseTree(AcceptedProjection(tree))
           new == BaseTree(Renders[cmd.to])
           strays == {w \in BasePaths \ (DOMAIN old \cup DOMAIN new) : tree[w] # Absent}
<1>1. Readable(tree) /\ IsCommand(cmd) /\ tree \in Tree
  BY DEF Plannable
<1>2. PartialFunction(old, BasePaths, Text) /\ PartialFunction(new, BasePaths, Text)
  BY <1>1, AcceptedTyped, BaseTyped, RendersAssumption DEF IsProjection, IsCommand
<1>3. \A w \in BasePaths : Target(tree, cmd, w) = IF w \in DOMAIN new THEN new[w] ELSE Absent
  BY PathsAssumption DEF Target
<1>4. CASE op \in Entries(PublishBase(tree, cmd))
  <2>1. op = [kind |-> "tree", before |-> old, after |-> new]
    BY <1>4, WhenSaysOne DEF PublishBase
  <2>2. PartialFunction(op.before, Path, Image) /\ PartialFunction(op.after, Path, Image)
    BY <1>2, <2>1, WidenedFunction, PathsAssumption, ImagesAssumption
  <2>3. Written(op) = DOMAIN new /\ Retired(op) = DOMAIN old \ DOMAIN new
    BY <2>1 DEF Written, Retired
  <2>4. Written(op) \subseteq BasePaths /\ Retired(op) \subseteq BasePaths
    BY <1>2, <2>3 DEF PartialFunction
  <2> QED
    BY <1>3, <2>1, <2>2, <2>3, <2>4 DEF Follows, IsOperation, Touched
<1>5. CASE op \in Entries(RetireStrays(tree, cmd))
  <2> DEFINE retire == [kind |-> "remove", before |-> Present(tree, strays), after |-> << >>]
  <2>1. op = retire
    <3>1. RetireStrays(tree, cmd) = When(strays # {}, retire)
      BY DEF RetireStrays
    <3>2. op \in Entries(When(strays # {}, retire))
      BY <1>5, <3>1
    <3> HIDE DEF retire, strays
    <3> QED
      BY <3>2, WhenSaysOne
  <2>2. PartialFunction(Present(tree, strays), Path, Image) /\ DOMAIN Present(tree, strays) \subseteq strays
    BY <1>1, PresentTyped, PathsAssumption
  <2>3. PartialFunction(<< >>, Path, Image)
    BY DEF PartialFunction
  <2>4. Written(op) = {} /\ Retired(op) \subseteq strays
    BY <2>1, <2>2 DEF Written, Retired
  <2>5. \A w \in Retired(op) : Target(tree, cmd, w) = Absent
    BY <1>3, <2>4
  <2> QED
    BY <2>1, <2>2, <2>3, <2>4, <2>5 DEF Follows, IsOperation, Touched
<1> QED
  BY <1>4, <1>5

(* A migration path leads to what the plan leaves there.                   *)
LEMMA MigrationTarget ==
  ASSUME NEW tree, NEW cmd, NEW w \in MigrationPaths
  PROVE  Target(tree, cmd, w) = MigrationsAfter(tree, cmd)[w]
  BY KindsOfPath DEF Target

(* What the next lock seals is migrations, each with an image.             *)
LEMMA SealedImages ==
  ASSUME NEW tree, NEW cmd, Plannable(tree, cmd), NEW w \in DOMAIN SealedAfter(tree, cmd)
  PROVE  w \in MigrationPaths /\ w \in Path /\ SealedAfter(tree, cmd)[w] \in Image
<1>1. PICK slots \in SUBSET Sealable :
        /\ DOMAIN SealedAfter(tree, cmd) = {Slot[s] : s \in slots}
        /\ \A s \in slots : SealedAfter(tree, cmd)[Slot[s]] = s[2]
        /\ LockOf(cmd.to, slots).sealed = SealedAfter(tree, cmd)
  BY SealedAfterTyped, Zenon
<1>2. PICK s \in slots : w = Slot[s]
  BY <1>1
<1>3. w \in MigrationPaths
  BY <1>2, SealableAreSlots DEF MigrationPaths
<1> QED
  BY <1>1, <1>2, <1>3, SealableAreSlots, PathsAssumption, ImagesAssumption

(* The migrations: a fresh one is appended, a sealed one is put back.      *)
LEMMA AppendMoves ==
  ASSUME NEW tree, NEW cmd, Plannable(tree, cmd)
  PROVE  /\ Appends(tree, cmd) \in Seq(Entries(Appends(tree, cmd)))
         /\ \A op \in Entries(Appends(tree, cmd)) :
              Follows(op, tree, cmd) /\ Touched(op) \subseteq MigrationPaths
         /\ \A op \in Entries(Appends(tree, cmd)) : \E s \in Fresh(tree, cmd) : Touched(op) = {Slot[s]}
         /\ \A s \in Fresh(tree, cmd) :
              \E op \in Entries(Appends(tree, cmd)) : op.kind = "append" /\ Slot[s] \in Written(op)
         /\ DOMAIN Appends(tree, cmd) = DOMAIN Drafted(tree, cmd)
         /\ \A i \in DOMAIN Drafted(tree, cmd) :
              Touched(Appends(tree, cmd)[i]) = {Slot[Allotted(tree, cmd, i)]}
<1> DEFINE appends == Appends(tree, cmd)
           drafted == Drafted(tree, cmd)
<1>1. /\ DOMAIN appends = DOMAIN drafted
      /\ \A i \in DOMAIN drafted :
           appends[i] = [kind |-> "append", before |-> << >>,
                         after |-> [w \in {Slot[Allotted(tree, cmd, i)]} |-> drafted[i]]]
  BY DEF Appends
<1>2. Len(drafted) \in Nat /\ DOMAIN drafted = 1 .. Len(drafted)
  BY DraftedTyped
<1>3. appends \in Seq(Entries(appends))
  <2>1. appends \in [1 .. Len(drafted) -> Entries(appends)]
    BY <1>1, <1>2 DEF Entries, Appends
  <2> HIDE DEF appends
  <2> QED
    BY <1>2, <2>1, SeqDef
<1>4. ASSUME NEW i \in DOMAIN drafted
      PROVE  /\ Follows(appends[i], tree, cmd) /\ Touched(appends[i]) \subseteq MigrationPaths
             /\ Written(appends[i]) = {Slot[Allotted(tree, cmd, i)]} /\ appends[i].kind = "append"
             /\ Touched(appends[i]) = {Slot[Allotted(tree, cmd, i)]}
  <2> DEFINE s == Allotted(tree, cmd, i)
             op == appends[i]
  <2>1. op.kind = "append" /\ op.before = << >> /\ op.after = [w \in {Slot[s]} |-> drafted[i]]
    <3>1. appends[i] = [kind |-> "append", before |-> << >>, after |-> [w \in {Slot[s]} |-> drafted[i]]]
      BY <1>1
    <3> HIDE DEF appends, s, drafted
    <3> QED
      BY <3>1
  <2>2. s \in Fresh(tree, cmd) /\ s[2] = drafted[i]
    BY FreshIsNew DEF Fresh
  <2>3. MigrationsAfter(tree, cmd)[Slot[s]] = drafted[i]
    BY <2>2, FreshAfter
  <2>4. Slot[s] \in MigrationPaths /\ Slot[s] \in Path /\ drafted[i] \in Image
    <3>1. s \in DOMAIN Slot
      BY <2>2, FreshIsNew
    <3> QED
      BY <2>2, <3>1, PathsAssumption, ImagesAssumption DEF MigrationPaths
  <2>5. Written(op) = {Slot[s]} /\ Retired(op) = {}
    BY <2>1 DEF Written, Retired
  <2>6. PartialFunction(<< >>, Path, Image) /\ PartialFunction([w \in {Slot[s]} |-> drafted[i]], Path, Image)
    BY <2>4 DEF PartialFunction
  <2>7. op.after[Slot[s]] = Target(tree, cmd, Slot[s])
    BY <2>1, <2>3, <2>4, MigrationTarget
  <2> HIDE DEF op, s
  <2>8. Follows(op, tree, cmd) /\ Touched(op) \subseteq MigrationPaths
    BY <2>1, <2>4, <2>5, <2>6, <2>7 DEF Follows, IsOperation, Touched
  <2>9. Touched(op) = {Slot[s]}
    BY <2>5 DEF Touched
  <2> QED
    BY <2>1, <2>5, <2>8, <2>9 DEF op, s
<1>5. ASSUME NEW op \in Entries(appends) PROVE Follows(op, tree, cmd) /\ Touched(op) \subseteq MigrationPaths
  BY <1>1, <1>4 DEF Entries
<1>6. ASSUME NEW op \in Entries(appends) PROVE \E s \in Fresh(tree, cmd) : Touched(op) = {Slot[s]}
  <2>1. PICK i \in DOMAIN drafted : op = appends[i]
    BY <1>1 DEF Entries
  <2> QED
    BY <1>4, <2>1 DEF Fresh
<1>7. ASSUME NEW s \in Fresh(tree, cmd)
      PROVE  \E op \in Entries(appends) : op.kind = "append" /\ Slot[s] \in Written(op)
  <2>1. PICK i \in DOMAIN drafted : s = Allotted(tree, cmd, i)
    BY DEF Fresh
  <2>2. appends[i] \in Entries(appends)
    BY <1>1 DEF Entries
  <2> QED
    BY <1>4, <2>1, <2>2
<1> QED
  BY <1>1, <1>3, <1>4, <1>5, <1>6, <1>7

(* Restoring writes sealed migrations as the next lock seals them, and     *)
(* takes nothing away.                                                     *)
LEMMA RestoreMoves ==
  ASSUME NEW tree, NEW cmd, Plannable(tree, cmd), NEW op \in Entries(RestoreSealed(tree, cmd))
  PROVE  /\ Follows(op, tree, cmd) /\ Touched(op) \subseteq MigrationPaths
         /\ Written(op) = Restored(tree, cmd) /\ Retired(op) = {}
<1> DEFINE paths == Restored(tree, cmd)
<1>1. op = [kind |-> "file", before |-> Present(tree, paths), after |-> [w \in paths |-> SealedAfter(tree, cmd)[w]]]
  BY WhenSaysOne DEF RestoreSealed
<1>2. paths \subseteq DOMAIN SealedAfter(tree, cmd)
  BY DEF Restored
<1>3. \A w \in paths : w \in MigrationPaths /\ w \in Path /\ SealedAfter(tree, cmd)[w] \in Image
  BY <1>2, SealedImages
<1> HIDE DEF paths
<1>4. PartialFunction(Present(tree, paths), Path, Image) /\ DOMAIN Present(tree, paths) \subseteq paths
  BY <1>3, PresentTyped DEF Plannable
<1>5. PartialFunction([w \in paths |-> SealedAfter(tree, cmd)[w]], Path, Image)
  BY <1>3 DEF PartialFunction
<1>6. Written(op) = paths /\ Retired(op) = {}
  BY <1>1, <1>4 DEF Written, Retired
<1>7. \A w \in paths : op.after[w] = Target(tree, cmd, w)
  <2>1. \A w \in DOMAIN SealedAfter(tree, cmd) : SealedAfter(tree, cmd)[w] = MigrationsAfter(tree, cmd)[w]
    BY SealedAfterTyped
  <2> QED
    BY <1>1, <1>2, <1>3, <2>1, MigrationTarget
<1>8. Follows(op, tree, cmd) /\ Touched(op) \subseteq MigrationPaths
  BY <1>1, <1>3, <1>4, <1>5, <1>6, <1>7 DEF Follows, IsOperation, Touched
<1> QED
  BY <1>6, <1>8 DEF paths

(* The lock that is written is one that jails writes.                      *)
LEMMA LockAfterTyped ==
  ASSUME NEW tree, NEW cmd, Plannable(tree, cmd)
  PROVE  LockAfter(tree, cmd) \in Locks /\ LockAfter(tree, cmd) \in Image
<1>1. PICK slots \in SUBSET Sealable : LockOf(cmd.to, slots).sealed = SealedAfter(tree, cmd)
  BY SealedAfterTyped
<1>2. cmd.to \in Model
  BY DEF Plannable, IsCommand
<1>3. LockAfter(tree, cmd) = LockOf(cmd.to, slots)
  BY <1>1 DEF LockAfter, LockOf
<1> QED
  BY <1>2, <1>3, ImagesAssumption DEF Locks

(* The model and the lock are each written by one operation of its own.    *)
LEMMA StateMoves ==
  ASSUME NEW tree, NEW cmd, Plannable(tree, cmd)
  PROVE  /\ \A op \in Entries(ReplaceModel(tree, cmd)) :
              Follows(op, tree, cmd) /\ Touched(op) = {ModelFile} /\ Written(op) = {ModelFile} /\ Retired(op) = {}
         /\ \A op \in Entries(ReplaceLock(tree, cmd)) :
              Follows(op, tree, cmd) /\ Touched(op) = {LockFile} /\ Written(op) = {LockFile} /\ Retired(op) = {}
<1>1. tree \in Tree /\ ModelFile \in Path /\ LockFile \in Path /\ cmd.to \in Image
  BY PathsAssumption, ImagesAssumption DEF Plannable, IsCommand
<1>2. ASSUME NEW w \in Path, NEW c \in Image, NEW op, Target(tree, cmd, w) = c,
             op = [kind |-> "file", before |-> Present(tree, {w}), after |-> [v \in {w} |-> c]]
      PROVE  Follows(op, tree, cmd) /\ Touched(op) = {w} /\ Written(op) = {w} /\ Retired(op) = {}
  <2>1. PartialFunction(Present(tree, {w}), Path, Image) /\ DOMAIN Present(tree, {w}) \subseteq {w}
    BY <1>1, PresentTyped
  <2>2. PartialFunction([v \in {w} |-> c], Path, Image)
    BY DEF PartialFunction
  <2>3. Written(op) = {w} /\ Retired(op) = {}
    BY <1>2, <2>1 DEF Written, Retired
  <2> QED
    BY <1>2, <2>1, <2>2, <2>3 DEF Follows, IsOperation, Touched
<1>3. Target(tree, cmd, ModelFile) = cmd.to
  BY PathsAssumption DEF Target
<1>4. Target(tree, cmd, LockFile) = LockAfter(tree, cmd)
  BY PathsAssumption DEF Target
<1>5. ASSUME NEW op \in Entries(ReplaceModel(tree, cmd))
      PROVE  Follows(op, tree, cmd) /\ Touched(op) = {ModelFile} /\ Written(op) = {ModelFile} /\ Retired(op) = {}
  <2>1. op = [kind |-> "file", before |-> Present(tree, {ModelFile}), after |-> [v \in {ModelFile} |-> cmd.to]]
    BY WhenSaysOne DEF ReplaceModel
  <2> QED
    BY <1>1, <1>2, <1>3, <2>1
<1>6. ASSUME NEW op \in Entries(ReplaceLock(tree, cmd))
      PROVE  Follows(op, tree, cmd) /\ Touched(op) = {LockFile} /\ Written(op) = {LockFile} /\ Retired(op) = {}
  <2> DEFINE replaced == [kind |-> "file", before |-> Present(tree, {LockFile}),
                          after |-> [v \in {LockFile} |-> LockAfter(tree, cmd)]]
  <2>1. op = replaced
    <3>1. ReplaceLock(tree, cmd) = When(tree[LockFile] # LockAfter(tree, cmd), replaced)
      BY DEF ReplaceLock, LockAfter
    <3> QED
      BY <3>1, WhenSaysOne
  <2> QED
    BY <1>1, <1>2, <1>4, <2>1, LockAfterTyped
<1> QED
  BY <1>5, <1>6

-----------------------------------------------------------------------------
(* The operations in their order.                                          *)
LEMMA ConcatEntries ==
  ASSUME NEW S, NEW s \in Seq(S), NEW t \in Seq(S)
  PROVE  s \o t \in Seq(S) /\ Entries(s \o t) = Entries(s) \cup Entries(t)
<1> DEFINE u == s \o t
<1>1. /\ Len(s) \in Nat /\ DOMAIN s = 1 .. Len(s)
      /\ Len(t) \in Nat /\ DOMAIN t = 1 .. Len(t)
  BY LenProperties
<1>2. /\ u \in Seq(S) /\ Len(u) = Len(s) + Len(t)
      /\ \A i \in 1 .. Len(s) + Len(t) : u[i] = IF i <= Len(s) THEN s[i] ELSE t[i - Len(s)]
  BY ConcatProperties
<1>3. DOMAIN u = 1 .. Len(s) + Len(t)
  BY <1>2, LenProperties
<1> HIDE DEF u
<1>4. \A i \in DOMAIN u : (i \in DOMAIN s /\ u[i] = s[i]) \/ (i - Len(s) \in DOMAIN t /\ u[i] = t[i - Len(s)])
  BY <1>1, <1>2, <1>3
<1>5. Entries(u) \subseteq Entries(s) \cup Entries(t)
  BY <1>4 DEF Entries
<1>6. \A i \in DOMAIN s : i \in DOMAIN u /\ u[i] = s[i]
  BY <1>1, <1>2, <1>3
<1>7. \A i \in DOMAIN t : i + Len(s) \in DOMAIN u /\ u[i + Len(s)] = t[i]
  BY <1>1, <1>2, <1>3
<1>8. Entries(s) \cup Entries(t) \subseteq Entries(u)
  BY <1>6, <1>7 DEF Entries
<1> QED
  BY <1>2, <1>5, <1>8 DEF u

(* All but the acceptance marker.                                          *)
Front(tree, cmd) ==
  PublishManaged(tree, cmd) \o PublishBase(tree, cmd) \o RetireStrays(tree, cmd)
    \o Appends(tree, cmd) \o RestoreSealed(tree, cmd) \o ReplaceModel(tree, cmd)

FrontMoves(tree, cmd) ==
  Entries(PublishManaged(tree, cmd)) \cup Entries(PublishBase(tree, cmd)) \cup Entries(RetireStrays(tree, cmd))
    \cup Entries(Appends(tree, cmd)) \cup Entries(RestoreSealed(tree, cmd)) \cup Entries(ReplaceModel(tree, cmd))

Moves(tree, cmd) == FrontMoves(tree, cmd) \cup Entries(ReplaceLock(tree, cmd))

(* Each part of a plan is a sequence of its moves.                         *)
LEMMA MovesAreSequences ==
  ASSUME NEW tree, NEW cmd, Plannable(tree, cmd)
  PROVE  LET S == Moves(tree, cmd)
         IN /\ PublishManaged(tree, cmd) \in Seq(S) /\ PublishBase(tree, cmd) \in Seq(S)
            /\ RetireStrays(tree, cmd) \in Seq(S) /\ Appends(tree, cmd) \in Seq(S)
            /\ RestoreSealed(tree, cmd) \in Seq(S) /\ ReplaceModel(tree, cmd) \in Seq(S)
            /\ ReplaceLock(tree, cmd) \in Seq(S)
<1> DEFINE S == Moves(tree, cmd)
<1>1. PublishManaged(tree, cmd) \in Seq(S)
  <2>1. PublishManaged(tree, cmd) \in Seq(Entries(PublishManaged(tree, cmd)))
    BY WhenSaysOne DEF PublishManaged
  <2> QED
    BY <2>1, SeqMonotonic DEF Moves, FrontMoves
<1>2. PublishBase(tree, cmd) \in Seq(S)
  <2>1. PublishBase(tree, cmd) \in Seq(Entries(PublishBase(tree, cmd)))
    BY WhenSaysOne DEF PublishBase
  <2> QED
    BY <2>1, SeqMonotonic DEF Moves, FrontMoves
<1>3. RetireStrays(tree, cmd) \in Seq(S)
  <2>1. RetireStrays(tree, cmd) \in Seq(Entries(RetireStrays(tree, cmd)))
    BY WhenSaysOne DEF RetireStrays
  <2> QED
    BY <2>1, SeqMonotonic DEF Moves, FrontMoves
<1>4. Appends(tree, cmd) \in Seq(S)
  BY AppendMoves, SeqMonotonic DEF Moves, FrontMoves
<1>5. RestoreSealed(tree, cmd) \in Seq(S)
  <2>1. RestoreSealed(tree, cmd) \in Seq(Entries(RestoreSealed(tree, cmd)))
    BY WhenSaysOne DEF RestoreSealed
  <2> QED
    BY <2>1, SeqMonotonic DEF Moves, FrontMoves
<1>6. ReplaceModel(tree, cmd) \in Seq(S)
  <2>1. ReplaceModel(tree, cmd) \in Seq(Entries(ReplaceModel(tree, cmd)))
    BY WhenSaysOne DEF ReplaceModel
  <2> QED
    BY <2>1, SeqMonotonic DEF Moves, FrontMoves
<1>7. ReplaceLock(tree, cmd) \in Seq(S)
  <2>1. ReplaceLock(tree, cmd) \in Seq(Entries(ReplaceLock(tree, cmd)))
    BY WhenSaysOne DEF ReplaceLock
  <2> QED
    BY <2>1, SeqMonotonic DEF Moves
<1> QED
  BY <1>1, <1>2, <1>3, <1>4, <1>5, <1>6, <1>7

(* A plan's operations are its moves one after the other, that on the lock *)
(* last.                                                                   *)
LEMMA SequenceOfMoves ==
  ASSUME NEW tree, NEW cmd, Plannable(tree, cmd)
  PROVE  /\ Front(tree, cmd) \in Seq(Moves(tree, cmd)) /\ Entries(Front(tree, cmd)) = FrontMoves(tree, cmd)
         /\ ReplaceLock(tree, cmd) \in Seq(Moves(tree, cmd))
         /\ Operations(tree, cmd) = Front(tree, cmd) \o ReplaceLock(tree, cmd)
         /\ Operations(tree, cmd) \in Seq(Moves(tree, cmd)) /\ Entries(Operations(tree, cmd)) = Moves(tree, cmd)
<1> DEFINE S == Moves(tree, cmd)
<1>1. /\ PublishManaged(tree, cmd) \in Seq(S) /\ PublishBase(tree, cmd) \in Seq(S)
      /\ RetireStrays(tree, cmd) \in Seq(S) /\ Appends(tree, cmd) \in Seq(S)
      /\ RestoreSealed(tree, cmd) \in Seq(S) /\ ReplaceModel(tree, cmd) \in Seq(S)
      /\ ReplaceLock(tree, cmd) \in Seq(S)
  BY MovesAreSequences
<1>2. Operations(tree, cmd) = Front(tree, cmd) \o ReplaceLock(tree, cmd)
  BY DEF Operations, Front
<1> HIDE DEF S
<1> DEFINE ab == PublishManaged(tree, cmd) \o PublishBase(tree, cmd)
           abc == ab \o RetireStrays(tree, cmd)
           abcd == abc \o Appends(tree, cmd)
           abcde == abcd \o RestoreSealed(tree, cmd)
<1>3. ab \in Seq(S) /\ Entries(ab) = Entries(PublishManaged(tree, cmd)) \cup Entries(PublishBase(tree, cmd))
  BY <1>1, ConcatEntries
<1>4. abc \in Seq(S) /\ Entries(abc) = Entries(ab) \cup Entries(RetireStrays(tree, cmd))
  <2> HIDE DEF ab
  <2> QED
    BY <1>1, <1>3, ConcatEntries
<1>5. abcd \in Seq(S) /\ Entries(abcd) = Entries(abc) \cup Entries(Appends(tree, cmd))
  <2> HIDE DEF ab, abc
  <2> QED
    BY <1>1, <1>4, ConcatEntries
<1>6. abcde \in Seq(S) /\ Entries(abcde) = Entries(abcd) \cup Entries(RestoreSealed(tree, cmd))
  <2> HIDE DEF ab, abc, abcd
  <2> QED
    BY <1>1, <1>5, ConcatEntries
<1>7. /\ Front(tree, cmd) \in Seq(S)
       /\ Entries(Front(tree, cmd)) = Entries(abcde) \cup Entries(ReplaceModel(tree, cmd))
  <2>1. Front(tree, cmd) = abcde \o ReplaceModel(tree, cmd)
    BY DEF Front
  <2> HIDE DEF ab, abc, abcd, abcde
  <2> QED
    BY <1>1, <1>6, <2>1, ConcatEntries
<1>8. Entries(Front(tree, cmd)) = FrontMoves(tree, cmd)
  <2> HIDE DEF ab, abc, abcd, abcde
  <2> QED
    BY <1>3, <1>4, <1>5, <1>6, <1>7 DEF FrontMoves
<1>9. /\ Operations(tree, cmd) \in Seq(S)
       /\ Entries(Operations(tree, cmd)) = Entries(Front(tree, cmd)) \cup Entries(ReplaceLock(tree, cmd))
  BY <1>1, <1>2, <1>7, ConcatEntries
<1>10. Entries(Operations(tree, cmd)) = Moves(tree, cmd)
  BY <1>8, <1>9 DEF Moves
<1> QED
  BY <1>1, <1>2, <1>7, <1>8, <1>9, <1>10 DEF S

(* Every operation leads to the plan's target; none before the last        *)
(* touches the lock, and migrations are only appended or restored.         *)
LEMMA MovesFollow ==
  ASSUME NEW tree, NEW cmd, Plannable(tree, cmd), NEW op \in Moves(tree, cmd)
  PROVE  /\ Follows(op, tree, cmd)
         /\ Touched(op) \subseteq DOMAIN BaseOf \cup BasePaths \cup MigrationPaths \cup {ModelFile, LockFile}
         /\ op \in FrontMoves(tree, cmd) => LockFile \notin Touched(op)
         /\ MigrationPaths \cap Touched(op) # {} =>
              op \in Entries(Appends(tree, cmd)) \cup Entries(RestoreSealed(tree, cmd))
<1>1. CASE op \in Entries(PublishManaged(tree, cmd))
  BY <1>1, ManagedMoves, KindsOfPath, PathsAssumption
<1>2. CASE op \in Entries(PublishBase(tree, cmd)) \cup Entries(RetireStrays(tree, cmd))
  BY <1>2, BaseMoves, KindsOfPath, PathsAssumption
<1>3. CASE op \in Entries(Appends(tree, cmd))
  BY <1>3, AppendMoves, KindsOfPath
<1>4. CASE op \in Entries(RestoreSealed(tree, cmd))
  BY <1>4, RestoreMoves, KindsOfPath
<1>5. CASE op \in Entries(ReplaceModel(tree, cmd))
  BY <1>5, StateMoves, KindsOfPath, PathsAssumption
<1>6. CASE op \in Entries(ReplaceLock(tree, cmd)) /\ op \notin FrontMoves(tree, cmd)
  BY <1>6, StateMoves, KindsOfPath
<1> QED
  BY <1>1, <1>2, <1>3, <1>4, <1>5, <1>6 DEF Moves, FrontMoves

(* So a plan that is materialized is one the executor may be handed.       *)
LEMMA MaterializedIsFit ==
  ASSUME NEW tree, NEW d, NEW cmd, Plannable(tree, cmd)
  PROVE  /\ Fit(Materialized(tree, d, cmd))
         /\ \A w \in DesiredPaths(Materialized(tree, d, cmd)) :
              Desired(Materialized(tree, d, cmd), w) = Target(tree, cmd, w)
         /\ \A w \in RemovedPaths(Materialized(tree, d, cmd)) : Target(tree, cmd, w) = Absent
<1> DEFINE b == Materialized(tree, d, cmd)
           ops == Operations(tree, cmd)
<1>1. b.ops = ops /\ DOMAIN b.dirs = {MigrationRoot} /\ b.dirs[MigrationRoot] = Observe(tree, d, MigrationRoot)
  BY DEF Materialized
<1>2. ops \in Seq(Moves(tree, cmd)) /\ Entries(ops) = Moves(tree, cmd)
  BY SequenceOfMoves
<1>3. Len(ops) \in Nat /\ DOMAIN ops = 1 .. Len(ops)
  BY <1>2, LenProperties
<1>4. \A i \in DOMAIN ops : Follows(ops[i], tree, cmd)
  BY <1>2, MovesFollow DEF Entries
<1>5. PartialFunction(b.base, Path, Content)
  <2>1. Observed(tree, cmd.to) \subseteq Path
    <3>1. IsProjection(AcceptedProjection(tree)) /\ IsProjection(Renders[cmd.to])
      BY AcceptedTyped, RendersAssumption DEF Plannable, IsProjection, IsCommand
    <3>2. PathsIn(AcceptedProjection(tree)) \subseteq DOMAIN BaseOf /\ PathsIn(Renders[cmd.to]) \subseteq DOMAIN BaseOf
      BY <3>1 DEF IsProjection, PathsIn
    <3>3. {BaseOf[w] : w \in PathsIn(AcceptedProjection(tree))} \subseteq BasePaths
      BY <3>2 DEF BasePaths
    <3> QED
      BY <3>2, <3>3, PathsAssumption DEF Observed
  <2>2. {Slot[s] : s \in Allotments(tree, cmd)} \subseteq Path
    BY FreshIsNew, PathsAssumption DEF Fresh, Allotments, MigrationPaths
  <2>3. Restored(tree, cmd) \subseteq Path
    BY SealedImages DEF Restored
  <2>4. DOMAIN b.base \subseteq Path /\ b.base = [w \in DOMAIN b.base |-> tree[w]]
    BY <2>1, <2>2, <2>3 DEF Materialized
  <2>5. \A w \in Path : tree[w] \in Content
    BY DEF Plannable, Tree
  <2> HIDE DEF b
  <2> QED
    BY <2>4, <2>5 DEF PartialFunction
<1>6. /\ b.dirs[MigrationRoot].litter \in BOOLEAN
      /\ PartialFunction(b.dirs[MigrationRoot].files, Path, Image)
  BY <1>1, Images DEF Observe, PresentIn, PartialFunction, Plannable
<1>7. IsBundle(b)
  <2> HIDE DEF b, ops
  <2> QED
    BY <1>1, <1>3, <1>4, <1>5, <1>6, PathsAssumption DEF IsBundle, Follows
<1> HIDE DEF b, ops
<1>8. \A i \in DOMAIN b.ops : \A w \in Written(b.ops[i]) :
        b.ops[i].after[w] = Target(tree, cmd, w) /\ Target(tree, cmd, w) \in Image
  BY <1>1, <1>4 DEF Follows, IsOperation, PartialFunction, Written
<1>9. \A w \in DesiredPaths(b) : Target(tree, cmd, w) \in Image
  BY <1>8 DEF DesiredPaths
<1>10. \A w \in RemovedPaths(b) : Target(tree, cmd, w) = Absent
  BY <1>1, <1>4 DEF RemovedPaths, Follows
<1>11. WellFormed(b)
  BY <1>1, <1>4, <1>8, <1>9, <1>10, AbsentAssumption DEF WellFormed, Follows
<1>12. ASSUME NEW w \in DesiredPaths(b) PROVE Desired(b, w) = Target(tree, cmd, w)
  <2>1. PICK i \in DOMAIN b.ops : w \in Written(b.ops[i])
    BY DEF DesiredPaths
  <2> QED
    BY <1>7, <1>8, <1>11, <2>1, DesiredImage
<1> QED
  BY <1>7, <1>10, <1>11, <1>12 DEF Fit, b

-----------------------------------------------------------------------------
(* The last operation is a commit marker.                                  *)

(* No path is written by two operations.                                   *)
Spread(s) == \A i, j \in DOMAIN s : Written(s[i]) \cap Written(s[j]) # {} => i = j

(* Two sequences that write nothing twice, and nothing in common, together *)
(* write nothing twice.                                                    *)
LEMMA SpreadConcat ==
  ASSUME NEW S, NEW s \in Seq(S), NEW t \in Seq(S), Spread(s), Spread(t),
         \A o \in Entries(s), u \in Entries(t) : Written(o) \cap Written(u) = {}
  PROVE  Spread(s \o t)
<1> DEFINE v == s \o t
<1>1. /\ Len(s) \in Nat /\ DOMAIN s = 1 .. Len(s)
      /\ Len(t) \in Nat /\ DOMAIN t = 1 .. Len(t)
  BY LenProperties
<1>2. /\ v \in Seq(S) /\ Len(v) = Len(s) + Len(t)
      /\ \A i \in 1 .. Len(s) + Len(t) : v[i] = IF i <= Len(s) THEN s[i] ELSE t[i - Len(s)]
  BY ConcatProperties
<1>3. DOMAIN v = 1 .. Len(s) + Len(t)
  BY <1>2, LenProperties
<1> HIDE DEF v
<1>4. ASSUME NEW i \in DOMAIN s, NEW j \in DOMAIN t PROVE Written(s[i]) \cap Written(t[j]) = {}
  BY DEF Entries
<1>5. ASSUME NEW i \in DOMAIN v, NEW j \in DOMAIN v, Written(v[i]) \cap Written(v[j]) # {} PROVE i = j
  <2>1. CASE i <= Len(s) /\ j <= Len(s)
    <3>1. i \in DOMAIN s /\ j \in DOMAIN s /\ v[i] = s[i] /\ v[j] = s[j]
      BY <1>1, <1>2, <1>3, <2>1
    <3> QED
      BY <1>5, <3>1 DEF Spread
  <2>2. CASE i <= Len(s) /\ ~(j <= Len(s))
    <3>1. i \in DOMAIN s /\ j - Len(s) \in DOMAIN t /\ v[i] = s[i] /\ v[j] = t[j - Len(s)]
      BY <1>1, <1>2, <1>3, <2>2
    <3> QED
      BY <1>4, <1>5, <3>1
  <2>3. CASE ~(i <= Len(s)) /\ j <= Len(s)
    <3>1. j \in DOMAIN s /\ i - Len(s) \in DOMAIN t /\ v[j] = s[j] /\ v[i] = t[i - Len(s)]
      BY <1>1, <1>2, <1>3, <2>3
    <3> QED
      BY <1>4, <1>5, <3>1
  <2>4. CASE ~(i <= Len(s)) /\ ~(j <= Len(s))
    <3>1. /\ i - Len(s) \in DOMAIN t /\ j - Len(s) \in DOMAIN t
          /\ v[i] = t[i - Len(s)] /\ v[j] = t[j - Len(s)]
      BY <1>1, <1>2, <1>3, <2>4
    <3>2. i - Len(s) = j - Len(s)
      BY <1>5, <3>1 DEF Spread
    <3> QED
      BY <1>1, <1>3, <3>2
  <2> QED
    BY <2>1, <2>2, <2>3, <2>4
<1> QED
  BY <1>5 DEF Spread, v

(* An operation that may be left out writes nothing twice.                 *)
LEMMA WhenIsSpread ==
  ASSUME NEW condition, NEW op
  PROVE  Spread(When(condition, op))
<1> DEFINE s == When(condition, op)
<1>1. s \in Seq(Entries(s)) /\ Len(s) <= 1
  BY WhenSaysOne
<1> HIDE DEF s
<1>2. DOMAIN s = 1 .. Len(s) /\ Len(s) \in Nat
  BY <1>1, LenProperties
<1> QED
  BY <1>1, <1>2 DEF Spread, s

(* A plan that has the lock to write writes nothing else into it.          *)
LEMMA MarkedByLock ==
  ASSUME NEW tree, NEW d, NEW cmd, Plannable(tree, cmd), tree[LockFile] # LockAfter(tree, cmd)
  PROVE  /\ Marked(Materialized(tree, d, cmd))
         /\ LET ops == Materialized(tree, d, cmd).ops
            IN Len(ops) \in DOMAIN ops /\ Written(ops[Len(ops)]) = {LockFile}
<1> DEFINE front == Front(tree, cmd)
           lock == ReplaceLock(tree, cmd)
           ops == Operations(tree, cmd)
           replaced == [kind |-> "file", before |-> Present(tree, {LockFile}),
                        after |-> [v \in {LockFile} |-> LockAfter(tree, cmd)]]
<1>1. /\ front \in Seq(Moves(tree, cmd)) /\ Entries(front) = FrontMoves(tree, cmd)
      /\ lock \in Seq(Moves(tree, cmd)) /\ ops = front \o lock
  BY SequenceOfMoves
<1>2. lock = <<replaced>>
  <2>1. lock = When(tree[LockFile] # LockAfter(tree, cmd), replaced)
    BY DEF ReplaceLock, LockAfter
  <2> HIDE DEF lock, replaced
  <2> QED
    BY <2>1, WhenSaysOne
<1>3. Len(lock) = 1 /\ DOMAIN lock = {1} /\ lock[1] = replaced
  <2> HIDE DEF replaced, lock
  <2> QED
    BY <1>2
<1>4. replaced \in Entries(lock)
  <2> HIDE DEF replaced, lock
  <2> QED
    BY <1>3 DEF Entries
<1>5. Written(replaced) = {LockFile} /\ Retired(replaced) = {}
  BY <1>4, StateMoves
<1> HIDE DEF replaced, lock, front, ops
<1>6. Len(front) \in Nat /\ DOMAIN front = 1 .. Len(front)
  BY <1>1, LenProperties
<1>7. /\ ops \in Seq(Moves(tree, cmd)) /\ Len(ops) = Len(front) + 1
      /\ \A i \in 1 .. Len(front) + 1 : ops[i] = IF i <= Len(front) THEN front[i] ELSE lock[i - Len(front)]
  BY <1>1, <1>3, ConcatProperties
<1>8. DOMAIN ops = 1 .. Len(front) + 1
  BY <1>7, LenProperties
<1>9. ops[Len(ops)] = replaced
  BY <1>3, <1>6, <1>7
<1>10. ASSUME NEW i \in DOMAIN ops, i # Len(ops) PROVE LockFile \notin Written(ops[i])
  <2>1. i \in DOMAIN front /\ ops[i] = front[i]
    BY <1>6, <1>7, <1>8, <1>10
  <2>2. ops[i] \in FrontMoves(tree, cmd)
    BY <1>1, <2>1 DEF Entries
  <2> QED
    BY <2>2, MovesFollow DEF Moves, Touched
<1>11. Materialized(tree, d, cmd).ops = ops
  BY DEF Materialized, ops
<1>12. Len(ops) \in DOMAIN ops
  BY <1>6, <1>7, <1>8
<1> QED
  BY <1>5, <1>9, <1>10, <1>11, <1>12 DEF Marked

(* Of what the lock is about nothing is left to do when it already says    *)
(* what it is to say: no migration is derived, and what the plan appends   *)
(* the reader asked for.                                                   *)
LEMMA LockStands ==
  ASSUME NEW tree, NEW cmd, Plannable(tree, cmd), tree[LockFile] = LockAfter(tree, cmd)
  PROVE  /\ AcceptedProjection(tree) = Renders[cmd.to]
         /\ Derived(tree, cmd) = << >> /\ Fresh(tree, cmd) \cap Sealable = {}
         /\ \A s \in Fresh(tree, cmd) : Slot[s] \notin DOMAIN SealedAfter(tree, cmd)
         /\ PublishBase(tree, cmd) = << >> /\ ReplaceLock(tree, cmd) = << >>
<1>1. LockAfter(tree, cmd) # Absent
  BY LockAfterTyped, AbsentAssumption
<1>2. Accepted(tree) = cmd.to /\ AcceptedProjection(tree) = Renders[cmd.to]
  BY <1>1 DEF Accepted, AcceptedProjection, LockAfter
<1>3. <<cmd.to, cmd.to>> \in DOMAIN Derives
  BY <1>2 DEF Plannable, PlanRefused
<1>4. Derives[<<cmd.to, cmd.to>>] = << >>
  <2> DEFINE step == <<cmd.to, cmd.to>>
  <2>1. step[1] = step[2]
    OBVIOUS
  <2> HIDE DEF step
  <2>2. step \in DOMAIN Derives
    BY <1>3 DEF step
  <2>3. Derives[step] = << >>
    BY <2>1, <2>2, DerivesAssumption
  <2> QED
    BY <2>3 DEF step
<1>5. Derived(tree, cmd) = << >>
  BY <1>2, <1>4 DEF Derived
<1>6. Fresh(tree, cmd) \cap Sealable = {}
  <2>1. DOMAIN Derived(tree, cmd) = {}
    BY <1>5
  <2>2. \A i \in DOMAIN Drafted(tree, cmd) : Allotted(tree, cmd, i)[2] \in Authored
    BY <2>1, DraftedTyped, FreshIsNew
  <2> QED
    BY <2>2 DEF Fresh, Sealable
<1>7. ASSUME NEW s \in Fresh(tree, cmd) PROVE Slot[s] \notin DOMAIN SealedAfter(tree, cmd)
  <2>1. PICK slots \in SUBSET Sealable : DOMAIN SealedAfter(tree, cmd) = {Slot[t] : t \in slots}
    BY SealedAfterTyped
  <2>2. s \in DOMAIN Slot /\ s \notin Sealable
    BY <1>6, FreshIsNew
  <2> QED
    BY <2>1, <2>2, SealableAreSlots, SlotAssumption
<1>8. PublishBase(tree, cmd) = << >>
  BY <1>2 DEF PublishBase, When
<1>9. ReplaceLock(tree, cmd) = << >>
  BY DEF ReplaceLock, LockAfter, When
<1> QED
  BY <1>2, <1>5, <1>6, <1>7, <1>8, <1>9

(* Nothing is then taken away with what is published.                      *)
LEMMA NothingDropped ==
  ASSUME NEW tree, NEW cmd, Plannable(tree, cmd), tree[LockFile] = LockAfter(tree, cmd)
  PROVE  DOMAIN TreeBefore(tree, cmd) \subseteq DOMAIN TreeAfter(tree, cmd)
<1> SUFFICES ASSUME NEW w \in DOMAIN TreeBefore(tree, cmd) PROVE w \in DOMAIN TreeAfter(tree, cmd)
  OBVIOUS
<1>1. AcceptedProjection(tree) = Renders[cmd.to] /\ IsProjection(Renders[cmd.to])
  BY LockStands, RendersAssumption DEF Plannable, IsCommand, IsProjection
<1>2. PICK a \in OldArtifacts(tree) : w = LivePath(tree, cmd.to, a) /\ tree[w] # Absent
  BY DEF TreeBefore
<1>3. a \in DOMAIN Renders[cmd.to] /\ OutputPath(tree, cmd.to, a) = w /\ a \in Artifacts(tree, cmd)
  BY <1>1, <1>2 DEF OldArtifacts, OutputPath, LivePath, Artifacts
<1>4. TextIn(AcceptedProjection(tree), a) \in Text /\ TextIn(Renders[cmd.to], a) \in Text
  BY <1>1, <1>3 DEF TextIn, IsProjection
<1>5. Verdict(tree, cmd, a) # Absent
  <2>1. w \in DOMAIN BaseOf
    BY <1>1, <1>2, <1>3 DEF LivePath, OldArtifacts, IsProjection
  <2>2. tree[w] \in Text
    BY <1>2, <2>1 DEF Plannable, Readable
  <2>3. Absent \notin Text
    BY ImagesAssumption, AbsentAssumption
  <2>4. ASSUME NEW base \in Text, NEW ours \in Text, NEW theirs \in Text, NEW ejected,
               Settled(base, ours, theirs, ejected, cmd.restore) = Absent
        PROVE  Absent = Refused
    <3>1. Merged(base, ours, theirs) \in Text
      BY DEF Merged, Text
    <3>2. ThreeWay(base, ours, theirs) = Absent
      BY <2>3, <2>4 DEF Settled
    <3> QED
      BY <2>3, <3>1, <3>2 DEF ThreeWay
  <2>5. Verdict(tree, cmd, a) # Refused
    BY <1>3 DEF Plannable, PlanRefused
  <2> QED
    BY <1>2, <1>4, <2>2, <2>4, <2>5 DEF Verdict
<1> QED
  BY <1>3, <1>5 DEF TreeAfter

(* A plan that leaves the lock as it is has another last operation, which  *)
(* shares no path with those before it.                                    *)
LEMMA MarkedWithoutLock ==
  ASSUME NEW tree, NEW d, NEW cmd, Plannable(tree, cmd), tree[LockFile] = LockAfter(tree, cmd)
  PROVE  Marked(Materialized(tree, d, cmd))
<1> DEFINE S == Moves(tree, cmd)
           managed == PublishManaged(tree, cmd)
           strays == RetireStrays(tree, cmd)
           appends == Appends(tree, cmd)
           restore == RestoreSealed(tree, cmd)
           model == ReplaceModel(tree, cmd)
           ops == Operations(tree, cmd)
<1>1. PublishBase(tree, cmd) = << >> /\ ReplaceLock(tree, cmd) = << >>
  BY LockStands
<1>2. managed \in Seq(S) /\ strays \in Seq(S) /\ appends \in Seq(S) /\ restore \in Seq(S) /\ model \in Seq(S)
  <2>1. /\ managed \in Seq(Entries(managed)) /\ strays \in Seq(Entries(strays))
        /\ restore \in Seq(Entries(restore)) /\ model \in Seq(Entries(model))
    BY WhenSaysOne DEF PublishManaged, RetireStrays, RestoreSealed, ReplaceModel
  <2>2. /\ Entries(managed) \subseteq S /\ Entries(strays) \subseteq S /\ Entries(appends) \subseteq S
        /\ Entries(restore) \subseteq S /\ Entries(model) \subseteq S
    BY DEF Moves, FrontMoves
  <2>3. appends \in Seq(Entries(appends))
    BY AppendMoves
  <2> HIDE DEF managed, strays, appends, restore, model, S
  <2> QED
    BY <2>1, <2>2, <2>3, SeqMonotonic
<1>3. Spread(managed) /\ Spread(strays) /\ Spread(restore) /\ Spread(model)
  BY WhenIsSpread DEF PublishManaged, RetireStrays, RestoreSealed, ReplaceModel
<1>4. /\ Spread(appends)
      /\ \A op \in Entries(appends) :
           /\ Written(op) \subseteq MigrationPaths /\ Retired(op) = {}
           /\ Written(op) \cap DOMAIN SealedAfter(tree, cmd) = {}
  <2>1. \A i \in DOMAIN appends : Written(appends[i]) \subseteq {Slot[Allotted(tree, cmd, i)]}
    <3>1. \A i \in DOMAIN appends : Touched(appends[i]) = {Slot[Allotted(tree, cmd, i)]}
      BY AppendMoves
    <3> HIDE DEF appends
    <3> QED
      BY <3>1 DEF Touched
  <2>2. \A i, j \in DOMAIN appends : Slot[Allotted(tree, cmd, i)] = Slot[Allotted(tree, cmd, j)] => i = j
    <3>1. \A i \in DOMAIN appends :
            /\ i \in Nat /\ Allotted(tree, cmd, i)[1] = Newest(tree) + i
            /\ Allotted(tree, cmd, i) \in DOMAIN Slot
      BY AppendMoves, FreshIsNew DEF Fresh
    <3>2. Newest(tree) \in Nat
      BY NewestIsNumber
    <3>3. ASSUME NEW i \in DOMAIN appends, NEW j \in DOMAIN appends,
                 Slot[Allotted(tree, cmd, i)] = Slot[Allotted(tree, cmd, j)]
          PROVE  i = j
      <4>1. Allotted(tree, cmd, i) = Allotted(tree, cmd, j)
        BY <3>1, <3>3, SlotAssumption
      <4>2. Newest(tree) + i = Newest(tree) + j
        BY <3>1, <4>1
      <4> QED
        BY <3>1, <3>2, <4>2
    <3> QED
      BY <3>3
  <2>3. \A op \in Entries(appends) : \E s \in Fresh(tree, cmd) : Touched(op) = {Slot[s]}
    BY AppendMoves
  <2>4. \A op \in Entries(appends) : op.kind = "append" /\ Follows(op, tree, cmd) /\ Touched(op) \subseteq MigrationPaths
    <3>1. ASSUME NEW i \in DOMAIN appends PROVE appends[i].kind = "append"
      BY DEF Appends
    <3>2. \A op \in Entries(appends) : op.kind = "append"
      BY <3>1 DEF Entries
    <3> QED
      BY <3>2, AppendMoves
  <2>5. \A s \in Fresh(tree, cmd) : Slot[s] \notin DOMAIN SealedAfter(tree, cmd)
    BY LockStands
  <2> HIDE DEF appends
  <2>6. Spread(appends)
    BY <2>1, <2>2 DEF Spread
  <2>7. ASSUME NEW op \in Entries(appends)
        PROVE  /\ Written(op) \subseteq MigrationPaths /\ Retired(op) = {}
               /\ Written(op) \cap DOMAIN SealedAfter(tree, cmd) = {}
    <3>1. Written(op) \subseteq Touched(op) /\ Retired(op) = {}
      BY <2>4 DEF Touched, Follows
    <3> QED
      BY <2>3, <2>4, <2>5, <3>1
  <2> QED
    BY <2>6, <2>7
<1>5. \A op \in Entries(managed) : Written(op) \subseteq DOMAIN BaseOf /\ Retired(op) = {}
  <2> SUFFICES ASSUME NEW op \in Entries(managed)
               PROVE  Written(op) \subseteq DOMAIN BaseOf /\ Retired(op) = {}
    OBVIOUS
  <2>1. op = [kind |-> "tree", before |-> TreeBefore(tree, cmd), after |-> TreeAfter(tree, cmd)]
    BY WhenSaysOne DEF PublishManaged
  <2> QED
    BY <2>1, ManagedMoves, NothingDropped DEF Touched, Retired
<1>6. \A op \in Entries(strays) : Written(op) = {}
  <2> SUFFICES ASSUME NEW op \in Entries(strays) PROVE Written(op) = {}
    OBVIOUS
  <2>1. op.after = << >>
    BY WhenSaysOne DEF RetireStrays
  <2> QED
    BY <2>1 DEF Written
<1>7. \A op \in Entries(restore) :
        /\ Written(op) \subseteq MigrationPaths /\ Retired(op) = {}
        /\ Written(op) \subseteq DOMAIN SealedAfter(tree, cmd)
  BY RestoreMoves DEF Touched, Restored
<1>8. \A op \in Entries(model) : Written(op) = {ModelFile} /\ Retired(op) = {}
  BY StateMoves
<1>9. ops = managed \o strays \o appends \o restore \o model
  <2> HIDE DEF S
  <2>1. ops = managed \o << >> \o strays \o appends \o restore \o model \o << >>
    BY <1>1 DEF Operations
  <2> HIDE DEF managed, strays, appends, restore, model, ops
  <2>2. managed \o << >> = managed
    BY <1>2, ConcatEmptySeq
  <2>3. managed \o strays \in Seq(S)
    BY <1>2, ConcatProperties
  <2>4. managed \o strays \o appends \in Seq(S)
    BY <1>2, <2>3, ConcatProperties
  <2>5. managed \o strays \o appends \o restore \in Seq(S)
    BY <1>2, <2>4, ConcatProperties
  <2>6. managed \o strays \o appends \o restore \o model \in Seq(S)
    BY <1>2, <2>5, ConcatProperties
  <2>7. managed \o strays \o appends \o restore \o model \o << >>
          = managed \o strays \o appends \o restore \o model
    BY <2>6, ConcatEmptySeq
  <2> QED
    BY <2>1, <2>2, <2>7
<1> HIDE DEF managed, strays, appends, restore, model, ops, S
<1>10. /\ managed \o strays \in Seq(S) /\ Entries(managed \o strays) = Entries(managed) \cup Entries(strays)
       /\ Spread(managed \o strays)
  BY <1>2, <1>3, <1>6, ConcatEntries, SpreadConcat
<1> DEFINE two == managed \o strays
           three == two \o appends
           four == three \o restore
<1>11. three \in Seq(S) /\ Entries(three) = Entries(two) \cup Entries(appends) /\ Spread(three)
  <2>1. \A o \in Entries(two), u \in Entries(appends) : Written(o) \cap Written(u) = {}
    BY <1>5, <1>6, <1>4, <1>10, KindsOfPath
  <2>2. two \in Seq(S) /\ Spread(two)
    BY <1>10
  <2> HIDE DEF two
  <2>3. appends \in Seq(S) /\ Spread(appends)
    BY <1>2, <1>4
  <2> QED
    BY <2>1, <2>2, <2>3, ConcatEntries, SpreadConcat
<1>12. four \in Seq(S) /\ Entries(four) = Entries(three) \cup Entries(restore) /\ Spread(four)
  <2>1. \A o \in Entries(three), u \in Entries(restore) : Written(o) \cap Written(u) = {}
    BY <1>5, <1>6, <1>7, <1>4, <1>11, <1>10, KindsOfPath
  <2> HIDE DEF three
  <2> QED
    BY <1>2, <1>3, <1>11, <2>1, ConcatEntries, SpreadConcat
<1>13. ops \in Seq(S) /\ Entries(ops) = Entries(four) \cup Entries(model) /\ Spread(ops)
  <2>1. \A o \in Entries(four), u \in Entries(model) : Written(o) \cap Written(u) = {}
    BY <1>5, <1>6, <1>7, <1>8, <1>10, <1>12, <1>4, <1>11, KindsOfPath, PathsAssumption
  <2> HIDE DEF four
  <2>2. ops = four \o model
    BY <1>9 DEF four
  <2> QED
    BY <1>2, <1>3, <1>12, <2>1, <2>2, ConcatEntries, SpreadConcat
<1>14. \A op \in Entries(ops) : Written(op) # {} => Retired(op) = {}
  BY <1>5, <1>6, <1>7, <1>8, <1>10, <1>12, <1>13, <1>4, <1>11
<1>15. DOMAIN ops = 1 .. Len(ops) /\ Len(ops) \in Nat
  BY <1>13, LenProperties
<1>16. Materialized(tree, d, cmd).ops = ops
  BY DEF Materialized, ops
<1>17. ASSUME NEW i \in DOMAIN ops, Written(ops[Len(ops)]) \cap Written(ops[i]) # {}
       PROVE  i = Len(ops) /\ Retired(ops[i]) = {}
  <2>1. Len(ops) \in DOMAIN ops
    BY <1>15
  <2>2. i = Len(ops)
    BY <1>13, <1>17, <2>1 DEF Spread
  <2>3. Written(ops[i]) # {} /\ ops[i] \in Entries(ops)
    BY <1>17 DEF Entries
  <2> QED
    BY <1>14, <2>2, <2>3
<1> QED
  BY <1>16, <1>17 DEF Marked

(* So the last operation of every plan is a commit marker.                 *)
LEMMA MaterializedIsMarked ==
  ASSUME NEW tree, NEW d, NEW cmd, Plannable(tree, cmd)
  PROVE  Marked(Materialized(tree, d, cmd))
  BY MarkedByLock, MarkedWithoutLock

-----------------------------------------------------------------------------
(* Whole commands call the executor, and nothing they do is more than that.*)
Planned(b) == \E tree, d, cmd : Plannable(tree, cmd) /\ b = Materialized(tree, d, cmd)

AllPlanned == Legible(disk) /\ \A p \in Proc : pc[p] # "idle" => Planned(job[p])

(* A run keeps its plan.                                                   *)
LEMMA RunsKeepPlans ==
  ASSUME IInv, NEW p \in Proc, Rerun(p) \/ Acquire(p) \/ Work(p) \/ Fail(p) \/ Abort(p)
  PROVE  /\ job' = job /\ edits' = edits
         /\ \A q \in Proc : pc'[q] # "idle" => pc[q] # "idle"
<1> DEFINE Kept == job' = job /\ edits' = edits /\ \A q \in Proc : pc'[q] # "idle" => pc[q] # "idle"
<1>1. pc = [q \in Proc |-> pc[q]]
  BY DEF IInv, Typed
<1>2. CASE Rerun(p) \/ Acquire(p) \/ FinishOperations(p)
  BY <1>1, <1>2 DEF Rerun, Acquire, FinishOperations, Goto, Over, progress
<1>3. CASE Sweep(p) \/ Admit(p) \/ StartOperations(p)
  BY <1>1, <1>3 DEF Sweep, Admit, StartOperations, Goto
<1>4. CASE Refuse(p) \/ Verify(p)
  BY <1>1, <1>4 DEF Refuse, Verify, Leave, Goto
<1>5. CASE Fail(p) \/ Abort(p)
  BY <1>1, <1>5 DEF Fail, Abort, Leave, Goto, Holding
<1>6. ASSUME NEW d \in Dir, Probe(p, d) PROVE Kept
  BY <1>6 DEF Probe
<1>7. ASSUME NEW w \in Path, SkipWrite(p, w) \/ Stage(p, w) \/ RemoveRetired(p, w) PROVE Kept
  BY <1>7 DEF SkipWrite, Stage, RemoveRetired
<1>8. CASE DropProbe(p) \/ Persist(p) \/ NextOperation(p)
  BY <1>8 DEF DropProbe, Persist, NextOperation
<1> QED
  BY <1>2, <1>3, <1>4, <1>5, <1>6, <1>7, <1>8 DEF Work

(* A command hands over what it materializes.                              *)
LEMMA PlanIsHand ==
  ASSUME IInv, AllPlanned, NEW p \in Proc, NEW cmd \in Commands, Plan(p, cmd)
  PROVE  Hand(p, Materialized(disk, debris, cmd)) /\ Planned(Materialized(disk, debris, cmd)) /\ Plannable(disk, cmd)
<1>1. Plannable(disk, cmd)
  BY CommandsAssumption, LegibleIsReadable DEF Plan, Plannable, IInv, Typed, AllPlanned
<1>2. Fit(Materialized(disk, debris, cmd))
  BY <1>1, MaterializedIsFit
<1> QED
  BY <1>1, <1>2 DEF Plan, Hand, Planned

(* The reader leaves a managed file a text or none.                        *)
LEMMA ReaderIsEditor ==
  ASSUME IInv, AllPlanned, NEW w \in EditorPaths,
         Delete(w) \/ \E r \in Region : Type(w, r)
  PROVE  \E c \in Content :
           /\ Edit(w, c) /\ disk' = [disk EXCEPT ![w] = c] /\ w \in Path
           /\ c = Absent \/ (w \in DOMAIN BaseOf /\ c \in Text)
<1>1. CASE Delete(w)
  BY <1>1, EditorAssumption DEF Delete, Edit, Content
<1>2. ASSUME NEW r \in Region, Type(w, r)
      PROVE  \E c \in Content :
               /\ Edit(w, c) /\ disk' = [disk EXCEPT ![w] = c] /\ w \in Path
               /\ c = Absent \/ (w \in DOMAIN BaseOf /\ c \in Text)
  <2> DEFINE c == [disk[w] EXCEPT ![r] = Mine]
  <2>1. c \in Text
    BY <1>2, MineAssumption DEF Type, Text
  <2>2. c \in Content
    BY <2>1, ImagesAssumption DEF Content
  <2>3. Edit(w, c) /\ w \in DOMAIN BaseOf /\ w \in Path
    BY <1>2, EditorAssumption DEF Type
  <2> HIDE DEF c
  <2>4. disk' = [disk EXCEPT ![w] = c]
    BY <2>3 DEF Edit
  <2> QED
    BY <2>1, <2>2, <2>3, <2>4
<1> QED
  BY <1>1, <1>2

(* Every step of a command or of the reader is a step of the executor, a   *)
(* new plan handed to it, or an editor's save.                             *)
LEMMA PipelineIsOpen ==
  ASSUME IInv, AllPlanned, [PNext]_pvars
  PROVE  [OpenNext]_vars
<1>1. CASE UNCHANGED pvars
  BY <1>1 DEF pvars, vars
<1>2. ASSUME NEW p \in Proc, NEW cmd \in Commands, Plan(p, cmd) PROVE OpenNext
  BY <1>2, PlanIsHand DEF OpenNext, OpenStep
<1>3. ASSUME NEW p \in Proc, Apply(p) PROVE OpenNext
  BY <1>3 DEF Apply, OpenNext, OpenStep
<1>4. ASSUME NEW w \in EditorPaths, Delete(w) \/ \E r \in Region : Type(w, r) PROVE OpenNext
  BY <1>4, ReaderIsEditor DEF OpenNext
<1> QED
  BY <1>1, <1>2, <1>3, <1>4 DEF PNext

(* What a plan puts where a plan will look.                                *)
LEMMA TargetTyped ==
  ASSUME NEW tree, NEW cmd, Plannable(tree, cmd)
  PROVE  /\ \A w \in DOMAIN BaseOf : Target(tree, cmd, w) \in Text \cup {Absent}
         /\ Target(tree, cmd, LockFile) = LockAfter(tree, cmd)
         /\ Target(tree, cmd, LockFile) \in Locks
<1>1. \A w \in DOMAIN BaseOf : Target(tree, cmd, w) \in Text \cup {Absent}
  BY ManagedTrees DEF Target, PartialFunction
<1>2. Target(tree, cmd, LockFile) = LockAfter(tree, cmd)
  BY PathsAssumption DEF Target
<1> QED
  BY <1>1, <1>2, LockAfterTyped

(* What a run puts or leaves at a path is what its plan leads to.          *)
LEMMA RunsLeadToTarget ==
  ASSUME IInv, NEW p \in Proc, NEW w \in Path, disk'[w] # disk[w],
         (aim[p] = w /\ Persist(p)) \/ RemoveRetired(p, w),
         NEW tree, NEW d, NEW cmd, Plannable(tree, cmd), job[p] = Materialized(tree, d, cmd)
  PROVE  /\ disk' = [disk EXCEPT ![w] = disk'[w]]
         /\ disk'[w] = Absent \/ disk'[w] = Target(tree, cmd, w)
         /\ Persist(p) => w \in DesiredPaths(job[p]) /\ disk'[w] = Target(tree, cmd, w)
                            /\ disk'[w] = Desired(job[p], w)
         /\ RemoveRetired(p, w) => w \in RemovedPaths(job[p])
<1> USE DEF IInv
<1>1. Typed /\ Staging /\ disk = [v \in Path |-> disk[v]]
  BY DEF Typed, Tree
<1>2. CASE aim[p] = w /\ Persist(p)
  <2>1. w \in DesiredPaths(job[p]) /\ disk' = [disk EXCEPT ![w] = Desired(job[p], w)]
    BY <1>1, <1>2, PersistTypes
  <2>2. disk'[w] = Desired(job[p], w)
    BY <1>1, <2>1
  <2>3. Desired(job[p], w) = Target(tree, cmd, w)
    BY <2>1, MaterializedIsFit
  <2>4. ~RemoveRetired(p, w)
    BY <1>2 DEF Persist, RemoveRetired
  <2> QED
    BY <2>1, <2>2, <2>3, <2>4
<1>3. CASE RemoveRetired(p, w)
  <2>1. w \in RemovedPaths(job[p]) /\ disk' = [disk EXCEPT ![w] = Absent]
    BY <1>1, <1>3, RemoveTypes DEF RemoveRetired
  <2>2. disk'[w] = Absent
    BY <1>1, <2>1
  <2>3. ~Persist(p)
    BY <1>3 DEF Persist, RemoveRetired
  <2> QED
    BY <2>1, <2>2, <2>3
<1> QED
  BY <1>2, <1>3

(* A path that changed was changed by the reader, or by the run that holds *)
(* the lock, to what its plan leads to.                                    *)
LEMMA ChangedPath ==
  ASSUME IInv, AllPlanned, [PNext]_pvars, NEW w \in Path, disk'[w] # disk[w]
  PROVE  \/ w \in EditorPaths /\ (disk'[w] = Absent \/ (w \in DOMAIN BaseOf /\ disk'[w] \in Text))
         \/ /\ edits' = edits
            /\ \E p \in Proc : holder = p /\ pc[p] = "publishing"
                               /\ ((aim[p] = w /\ Persist(p)) \/ RemoveRetired(p, w))
<1> DEFINE ByReader == w \in EditorPaths /\ (disk'[w] = Absent \/ (w \in DOMAIN BaseOf /\ disk'[w] \in Text))
           ByRun == /\ edits' = edits
                    /\ \E p \in Proc : holder = p /\ pc[p] = "publishing"
                                       /\ ((aim[p] = w /\ Persist(p)) \/ RemoveRetired(p, w))
<1>1. CASE edits' = edits
  <2>1. [OpenNext]_vars
    BY PipelineIsOpen
  <2>2. PICK p \in Proc : holder = p /\ ((aim[p] = w /\ Persist(p)) \/ RemoveRetired(p, w))
    BY <1>1, <2>1, WhoWrites DEF IInv
  <2>3. pc[p] = "publishing"
    BY <2>2 DEF Persist, RemoveRetired, Publishing
  <2> QED
    BY <1>1, <2>2, <2>3
<1>2. ASSUME NEW v \in EditorPaths, Delete(v) \/ \E r \in Region : Type(v, r) PROVE ByReader
  <2>1. PICK c \in Content :
          disk' = [disk EXCEPT ![v] = c] /\ v \in Path /\ (c = Absent \/ (v \in DOMAIN BaseOf /\ c \in Text))
    BY <1>2, ReaderIsEditor
  <2>2. disk = [u \in Path |-> disk[u]]
    BY DEF IInv, Typed, Tree
  <2>3. w = v /\ disk'[w] = c
    BY <2>1, <2>2
  <2> QED
    BY <1>2, <2>1, <2>3
<1>3. ASSUME NEW p \in Proc, NEW cmd \in Commands, Plan(p, cmd) PROVE edits' = edits
  BY <1>3 DEF Plan
<1>4. ASSUME NEW p \in Proc, Apply(p) PROVE edits' = edits
  BY <1>4, RunsKeepPlans DEF Apply
<1>5. UNCHANGED pvars => edits' = edits
  BY DEF pvars
<1>6. ByReader \/ ByRun
  BY <1>1, <1>2, <1>3, <1>4, <1>5 DEF PNext
<1> QED
  BY <1>6

(* Who has a plan had it before, or made it on the project as it is.       *)
LEMMA HandedPlan ==
  ASSUME IInv, AllPlanned, [PNext]_pvars, NEW q \in Proc, pc'[q] # "idle"
  PROVE  \/ pc[q] # "idle" /\ job'[q] = job[q]
         \/ \E cmd \in Commands : Plannable(disk, cmd) /\ job'[q] = Materialized(disk, debris, cmd)
<1> DEFINE Had == pc[q] # "idle" /\ job'[q] = job[q]
           Made == \E cmd \in Commands : Plannable(disk, cmd) /\ job'[q] = Materialized(disk, debris, cmd)
<1>1. UNCHANGED pvars => Had
  BY DEF pvars
<1>2. ASSUME NEW p \in Proc, NEW cmd \in Commands, Plan(p, cmd) PROVE Had \/ Made
  <2>1. Plannable(disk, cmd)
    BY <1>2, PlanIsHand
  <2>2. q # p => job'[q] = job[q] /\ pc'[q] = pc[q]
    BY <1>2 DEF Plan, Goto, IInv, Typed
  <2>3. q = p => job'[q] = Materialized(disk, debris, cmd)
    BY <1>2 DEF Plan, IInv, Typed
  <2> QED
    BY <2>1, <2>2, <2>3
<1>3. ASSUME NEW p \in Proc, Apply(p) PROVE Had
  BY <1>3, RunsKeepPlans DEF Apply
<1>4. ASSUME NEW w \in EditorPaths, Delete(w) \/ \E r \in Region : Type(w, r) PROVE Had
  BY <1>4, ReaderIsEditor DEF Edit, progress
<1>5. Had \/ Made
  BY <1>1, <1>2, <1>3, <1>4 DEF PNext
<1> QED
  BY <1>5

(* Whatever happens, what is on disk can be planned from, and what is      *)
(* under way was planned.                                                  *)
LEMMA AllPlannedStep ==
  ASSUME IInv, AllPlanned, [PNext]_pvars
  PROVE  AllPlanned'
<1>1. Legible(disk)'
  <2> DEFINE Fine(w, c) == /\ w \in DOMAIN BaseOf => c \in Text \cup {Absent}
                           /\ w = LockFile => c \in Locks \cup {Absent}
  <2>1. ASSUME NEW w \in DOMAIN BaseOf \cup {LockFile} PROVE Fine(w, disk'[w])
    <3>1. w \in Path /\ LockFile \notin DOMAIN BaseOf
      BY PathsAssumption
    <3>2. CASE disk'[w] = disk[w]
      BY <3>2 DEF AllPlanned, Legible
    <3>3. CASE disk'[w] = Absent \/ (w \in DOMAIN BaseOf /\ disk'[w] \in Text)
      BY <3>1, <3>3
    <3>4. ASSUME disk'[w] # disk[w], NEW p \in Proc, pc[p] = "publishing",
                 (aim[p] = w /\ Persist(p)) \/ RemoveRetired(p, w)
          PROVE  Fine(w, disk'[w])
      <4>1. PICK tree, d, cmd : Plannable(tree, cmd) /\ job[p] = Materialized(tree, d, cmd)
        BY <3>4 DEF AllPlanned, Planned
      <4>2. disk'[w] = Absent \/ disk'[w] = Target(tree, cmd, w)
        BY <3>1, <3>4, <4>1, RunsLeadToTarget
      <4> QED
        BY <3>1, <4>1, <4>2, TargetTyped
    <3> QED
      BY <3>1, <3>2, <3>3, <3>4, ChangedPath
  <2> QED
    BY <2>1 DEF Legible
<1>2. ASSUME NEW q \in Proc, pc'[q] # "idle" PROVE Planned(job'[q])
  BY <1>2, HandedPlan DEF AllPlanned, Planned
<1> QED
  BY <1>1, <1>2 DEF AllPlanned

PInv == IInv /\ AllPlanned

(* The inductive invariant of whole commands: the executor's, and every    *)
(* plan a materialized one.                                                *)
LEMMA PipelineInvariant == PSpec => []PInv
<1>1. PInit => PInv
  BY InitialInvariant DEF PInit, PInv, AllPlanned, Sound, Init
<1>2. PInv /\ [PNext]_pvars => PInv'
  BY PipelineIsOpen, AllPlannedStep, Inductive DEF PInv
<1> QED
  BY <1>1, <1>2, PTL DEF PSpec

(* Every plan a command makes, on whatever project jails and the reader    *)
(* have left, is one the executor may be handed: no path is both written   *)
(* and removed, none is written two ways, and the last operation is a      *)
(* commit marker.                                                          *)
THEOREM PlansAreWellFormed == PSpec => []PlansWellFormed
<1>1. PInv => PlansWellFormed
  <2> SUFFICES ASSUME PInv, NEW p \in Proc, job[p] # None
               PROVE  WellFormed(job[p]) /\ Marked(job[p])
    BY DEF PlansWellFormed
  <2>1. pc[p] # "idle"
    BY DEF PInv, IInv, Staging
  <2>2. PICK tree, d, cmd : Plannable(tree, cmd) /\ job[p] = Materialized(tree, d, cmd)
    BY <2>1 DEF PInv, AllPlanned, Planned
  <2> QED
    BY <2>2, MaterializedIsFit, MaterializedIsMarked DEF Fit
<1> QED
  BY <1>1, PipelineInvariant, PTL

(* Commands have what the executor promises, of plans made on the project  *)
(* as it was then and applied to it as it is: one of them writes at a      *)
(* time, and no file is left holding what neither the plan nor its review  *)
(* had there.                                                              *)
THEOREM CommandsAreSafe == PSpec => [](OneWriter /\ StagedIsLive /\ SweptClean /\ OldOrNew)
<1>1. PInv => OneWriter /\ StagedIsLive /\ SweptClean /\ OldOrNew
  BY AdmissibleIsOldOrNew DEF PInv, IInv
<1> QED
  BY <1>1, PipelineInvariant, PTL
-----------------------------------------------------------------------------
(* Migrations.  A plan made on a project that holds what its lock seals    *)
(* touches fresh ones alone.                                               *)
SealedThere(tree) == \A w \in DOMAIN Sealed(tree) : tree[w] = Sealed(tree)[w]

LEMMA FreshTouched ==
  ASSUME NEW tree, NEW d, NEW cmd, Plannable(tree, cmd), SealedThere(tree)
  PROVE  LET b == Materialized(tree, d, cmd)
         IN /\ \A w \in TouchedPaths(b) : DirOf[w] = MigrationRoot => w \in MigrationPaths
            /\ \A w \in TouchedPaths(b) \cap MigrationPaths : \E s \in Fresh(tree, cmd) : w = Slot[s]
            /\ \A s \in Fresh(tree, cmd) : Slot[s] \in AppendedPaths(b)
<1> DEFINE b == Materialized(tree, d, cmd)
           ops == Operations(tree, cmd)
<1>1. b.ops = ops
  BY DEF Materialized
<1>2. Entries(ops) = Moves(tree, cmd)
  BY SequenceOfMoves
<1> HIDE DEF ops, b
<1>3. ASSUME NEW w \in TouchedPaths(b) PROVE \E op \in Moves(tree, cmd) : w \in Touched(op)
  <2>1. \E i \in DOMAIN b.ops : w \in Touched(b.ops[i])
    BY DEF TouchedPaths, DesiredPaths, RemovedPaths, Touched
  <2> QED
    BY <1>1, <1>2, <2>1 DEF Entries
<1>4. ASSUME NEW w \in TouchedPaths(b), DirOf[w] = MigrationRoot PROVE w \in MigrationPaths
  BY <1>3, <1>4, MovesFollow, PathsAssumption
<1>5. ASSUME NEW w \in TouchedPaths(b), w \in MigrationPaths PROVE \E s \in Fresh(tree, cmd) : w = Slot[s]
  <2>1. PICK op \in Moves(tree, cmd) : w \in Touched(op)
    BY <1>3
  <2>2. op \in Entries(Appends(tree, cmd)) \cup Entries(RestoreSealed(tree, cmd))
    BY <1>5, <2>1, MovesFollow
  <2>3. CASE op \in Entries(Appends(tree, cmd))
    BY <2>1, <2>3, AppendMoves
  <2>4. CASE op \in Entries(RestoreSealed(tree, cmd))
    <3>1. w \in Restored(tree, cmd)
      BY <2>1, <2>4, RestoreMoves DEF Touched
    <3>2. w \in DOMAIN SealedAfter(tree, cmd) /\ tree[w] # SealedAfter(tree, cmd)[w]
      BY <3>1 DEF Restored
    <3>3. w \in {Slot[s] : s \in Fresh(tree, cmd)}
      BY <3>2, SealedBefore DEF SealedThere
    <3> QED
      BY <3>3
  <2> QED
    BY <2>2, <2>3, <2>4
<1>6. ASSUME NEW s \in Fresh(tree, cmd) PROVE Slot[s] \in AppendedPaths(b)
  <2>1. PICK op \in Entries(Appends(tree, cmd)) : op.kind = "append" /\ Slot[s] \in Written(op)
    BY AppendMoves
  <2>2. op \in Entries(ops)
    BY <1>2 DEF Moves, FrontMoves
  <2>3. PICK i \in DOMAIN b.ops : b.ops[i] = op
    BY <1>1, <2>2 DEF Entries
  <2> QED
    BY <2>1, <2>3 DEF AppendedPaths
<1> QED
  BY <1>4, <1>5, <1>6 DEF b

(* So does one on a project whose published migrations are as jails left   *)
(* them.                                                                   *)
LEMMA MigrationsTouched ==
  ASSUME NEW tree, NEW d, NEW cmd, Plannable(tree, cmd), Intact(tree)
  PROVE  LET b == Materialized(tree, d, cmd)
         IN /\ \A w \in TouchedPaths(b) : DirOf[w] = MigrationRoot => w \in MigrationPaths
            /\ \A w \in TouchedPaths(b) \cap MigrationPaths : \E s \in Fresh(tree, cmd) : w = Slot[s]
            /\ \A s \in Fresh(tree, cmd) : Slot[s] \in AppendedPaths(b)
<1>1. SealedThere(tree)
  BY DEF Intact, SealedThere
<1> QED
  BY <1>1, FreshTouched

(* What such a plan captured in the migration directory.                   *)
LEMMA CapturedMigrations ==
  ASSUME NEW tree, NEW d, NEW cmd, Plannable(tree, cmd), NEW w \in Path, DirOf[w] = MigrationRoot
  PROVE  LET b == Materialized(tree, d, cmd)
         IN /\ w \in DOMAIN b.base => b.base[w] = tree[w]
            /\ tree[w] # Absent => w \in DOMAIN b.base
            /\ CapturedAt(b, w) = tree[w]
<1> DEFINE b == Materialized(tree, d, cmd)
<1>1. DOMAIN b.base = Observed(tree, cmd.to)
                        \cup {Slot[s] : s \in Allotments(tree, cmd)}
                        \cup Restored(tree, cmd)
      /\ \A v \in DOMAIN b.base : b.base[v] = tree[v]
  BY DEF Materialized
<1>2. tree[w] # Absent => w \in Observed(tree, cmd.to)
  BY DEF Observed
<1> HIDE DEF b
<1>3. w \in DOMAIN b.base => b.base[w] = tree[w]
  BY <1>1
<1>4. tree[w] # Absent => w \in DOMAIN b.base
  BY <1>1, <1>2
<1>5. CapturedAt(b, w) = tree[w]
  BY <1>3, <1>4 DEF CapturedAt
<1> QED
  BY <1>3, <1>4, <1>5 DEF b

(* It guards the directory it appends to, so a run of it that was cut      *)
(* short can be told from anybody else's change.                           *)
LEMMA MaterializedGuards ==
  ASSUME NEW tree, NEW d, NEW cmd, Plannable(tree, cmd), Intact(tree)
  PROVE  GuardsAppends(Materialized(tree, d, cmd))
<1> DEFINE b == Materialized(tree, d, cmd)
           captured == {v \in DOMAIN b.base : DirOf[v] = MigrationRoot /\ b.base[v] # Absent}
<1>1. DOMAIN b.dirs = {MigrationRoot}
      /\ b.dirs[MigrationRoot].files = [w \in PresentIn(tree, MigrationRoot) |-> tree[w]]
  BY DEF Materialized, Observe
<1>2. DOMAIN b.base \subseteq Path
  BY MaterializedIsFit DEF Fit, IsBundle, PartialFunction
<1>3. \A w \in Path : DirOf[w] = MigrationRoot =>
        /\ w \in DOMAIN b.base => b.base[w] = tree[w]
        /\ tree[w] # Absent => w \in DOMAIN b.base
  BY CapturedMigrations
<1>4. ASSUME NEW s \in Fresh(tree, cmd) PROVE tree[Slot[s]] = Absent /\ Slot[s] \in MigrationPaths
  BY FreshIsNew DEF Taken, MigrationPaths
<1>5. /\ \A w \in TouchedPaths(b) : DirOf[w] = MigrationRoot => w \in MigrationPaths
      /\ \A w \in TouchedPaths(b) \cap MigrationPaths : \E s \in Fresh(tree, cmd) : w = Slot[s]
      /\ \A s \in Fresh(tree, cmd) : Slot[s] \in AppendedPaths(b)
  BY MigrationsTouched
<1> HIDE DEF b
<1>6. captured = PresentIn(tree, MigrationRoot)
  BY <1>2, <1>3 DEF PresentIn
<1>7. \A w \in captured : b.base[w] = tree[w]
  BY <1>2, <1>3
<1> HIDE DEF captured
<1>8. b.dirs[MigrationRoot].files = [w \in captured |-> b.base[w]]
  BY <1>1, <1>6, <1>7
<1>9. ASSUME NEW w \in TouchedPaths(b), DirOf[w] = MigrationRoot
      PROVE  w \in AppendedPaths(b) \ DOMAIN b.dirs[MigrationRoot].files
  <2>1. PICK s \in Fresh(tree, cmd) : w = Slot[s]
    BY <1>5, <1>9
  <2>2. tree[w] = Absent
    BY <1>4, <2>1
  <2>3. w \notin DOMAIN b.dirs[MigrationRoot].files
    BY <1>1, <2>2 DEF PresentIn
  <2> QED
    BY <1>5, <2>1, <2>3
<1> QED
  BY <1>1, <1>8, <1>9 DEF GuardsAppends, captured, b

(* A tree that holds what was captured and some of the fresh migrations    *)
(* has no number twice.                                                    *)
LEMMA GuardedNumbers ==
  ASSUME NEW tree, NEW d, NEW cmd, Plannable(tree, cmd), Intact(tree), NEW live,
         \A w \in MigrationPaths : GuardedPath(live, Materialized(tree, d, cmd), w)
  PROVE  Duplicates(live) = {}
<1> DEFINE b == Materialized(tree, d, cmd)
<1>1. \A w \in TouchedPaths(b) \cap MigrationPaths : \E s \in Fresh(tree, cmd) : w = Slot[s]
  BY MigrationsTouched
<1>2. AppendedPaths(b) \subseteq TouchedPaths(b)
  BY AppendedTypes DEF TouchedPaths
<1>3. \A w \in MigrationPaths : CapturedAt(b, w) = tree[w]
  BY CapturedMigrations, PathsAssumption
<1> HIDE DEF b
<1>4. ASSUME NEW slot \in Taken(live) PROVE slot \in Taken(tree) \cup Fresh(tree, cmd)
  <2>1. slot \in DOMAIN Slot /\ live[Slot[slot]] # Absent /\ Slot[slot] \in MigrationPaths
    BY DEF Taken, MigrationPaths
  <2>2. CASE Slot[slot] \in AppendedPaths(b)
    <3>1. PICK s \in Fresh(tree, cmd) : Slot[slot] = Slot[s]
      BY <1>1, <1>2, <2>1, <2>2
    <3>2. slot = s
      BY <2>1, <3>1, FreshIsNew, SlotAssumption
    <3> QED
      BY <3>2
  <2>3. CASE Slot[slot] \notin AppendedPaths(b)
    <3>1. live[Slot[slot]] = tree[Slot[slot]]
      BY <1>3, <2>1, <2>3 DEF GuardedPath, b
    <3> QED
      BY <2>1, <3>1 DEF Taken
  <2> QED
    BY <2>2, <2>3
<1>5. ASSUME NEW s \in Taken(tree) \cup Fresh(tree, cmd), NEW t \in Taken(tree) \cup Fresh(tree, cmd), s[1] = t[1]
      PROVE  s = t
  <2>1. Newest(tree) \in Nat /\ \A slot \in Taken(tree) : slot[1] \in Nat /\ slot[1] <= Newest(tree)
    BY NewestIsNumber
  <2>2. \A f \in Fresh(tree, cmd) : f[1] \in Nat /\ f[1] > Newest(tree)
    BY FreshIsNew
  <2>3. CASE s \in Taken(tree) /\ t \in Taken(tree)
    BY <1>5, <2>3 DEF Intact, Duplicates
  <2>4. CASE s \in Fresh(tree, cmd) /\ t \in Fresh(tree, cmd)
    BY <1>5, <2>4, FreshIsNew
  <2>5. CASE s \in Fresh(tree, cmd) /\ t \in Taken(tree)
    BY <1>5, <2>1, <2>2, <2>5
  <2>6. CASE s \in Taken(tree) /\ t \in Fresh(tree, cmd)
    BY <1>5, <2>1, <2>2, <2>6
  <2> QED
    BY <2>3, <2>4, <2>5, <2>6
<1> QED
  BY <1>4, <1>5 DEF Duplicates

(* Who is admitted has seen nobody else change a migration, as long as the *)
(* reader changes none: the others wait for the lock.                      *)
LEMMA SeenByAdmitted ==
  ASSUME IInv, NEW p \in Proc, Rerun(p) \/ Acquire(p) \/ Work(p) \/ Fail(p) \/ Abort(p),
         NEW q \in Proc, pc'[q] \in Admission
  PROVE  foreign'[q] = {} \/ (pc[q] \in Admission /\ foreign'[q] = foreign[q])
<1> DEFINE Seen == foreign'[q] = {} \/ (pc[q] \in Admission /\ foreign'[q] = foreign[q])
<1> USE DEF Admission
<1>1. /\ pc = [r \in Proc |-> pc[r]] /\ foreign = [r \in Proc |-> foreign[r]]
      /\ \A r \in Proc : pc[r] \in Holding <=> holder = r
      /\ \A r \in Proc : pc[r] \notin {"probing", "publishing"} => temp[r] = None
      /\ None \notin Proc
  BY NoneAssumption DEF IInv, Typed, OneWriter, Staging
<1>2. q # p /\ pc'[q] = pc[q] => holder = q /\ pc[p] \notin Holding
  BY <1>1 DEF Holding
<1>3. CASE Rerun(p) \/ Acquire(p) \/ FinishOperations(p)
  BY <1>1, <1>3 DEF Rerun, Acquire, FinishOperations, Goto, Over, progress
<1>4. CASE Sweep(p)
  BY <1>1, <1>2, <1>4 DEF Sweep, Goto, Holding
<1>5. CASE Admit(p)
  BY <1>1, <1>2, <1>5 DEF Admit, Goto, Holding
<1>6. CASE StartOperations(p)
  BY <1>1, <1>6 DEF StartOperations, Goto
<1>7. CASE Refuse(p) \/ Verify(p) \/ Fail(p)
  BY <1>1, <1>7 DEF Refuse, Verify, Fail, Leave, Goto
<1>8. CASE Abort(p)
  <2>1. pc' = [pc EXCEPT ![p] = "dead"]
    BY <1>8 DEF Abort, Leave, Goto
  <2>2. q # p /\ pc'[q] = pc[q]
    BY <1>1, <2>1
  <2>3. pc[p] = "waiting"
    BY <1>2, <1>8, <2>2 DEF Abort
  <2>4. debris' = debris
    BY <1>1, <1>8, <2>3 DEF Abort
  <2> QED
    BY <1>8, <2>2, <2>4 DEF Abort, SeenByOthers
<1>9. ASSUME NEW d \in Dir, Probe(p, d) PROVE Seen
  BY <1>9 DEF Probe
<1>10. ASSUME NEW w \in Path, SkipWrite(p, w) \/ Stage(p, w) PROVE Seen
  BY <1>10 DEF SkipWrite, Stage
<1>11. CASE DropProbe(p) \/ NextOperation(p)
  BY <1>11 DEF DropProbe, NextOperation
<1>12. CASE Persist(p)
  <2>1. pc' = pc /\ pc[p] = "publishing"
    BY <1>12 DEF Persist, Publishing
  <2>2. q = p
    BY <1>2, <2>1 DEF Holding
  <2> QED
    BY <1>12, <2>1, <2>2 DEF Persist, SeenByOthers
<1>13. ASSUME NEW w \in Path, RemoveRetired(p, w) PROVE Seen
  <2>1. pc' = pc /\ pc[p] = "publishing"
    BY <1>13 DEF RemoveRetired, Publishing
  <2>2. q = p
    BY <1>2, <2>1 DEF Holding
  <2> QED
    BY <1>13, <2>1, <2>2 DEF RemoveRetired, SeenByOthers
<1> QED
  BY <1>3, <1>4, <1>5, <1>6, <1>7, <1>8, <1>9, <1>10, <1>11, <1>12, <1>13 DEF Work

(* What holds while the reader leaves the migrations alone.                *)
PlannedIntact(b) ==
  \E tree, d, cmd : Plannable(tree, cmd) /\ Intact(tree) /\ b = Materialized(tree, d, cmd)

Unseen(p) == pc[p] \in Admission => foreign[p] \cap MigrationPaths = {}

Untouched ==
  /\ Intact(disk)
  /\ \A p \in Proc : pc[p] # "idle" => PlannedIntact(job[p])
  /\ \A p \in Proc : Unseen(p)

(* What nobody but jails changes, a run sees nobody else change: whoever   *)
(* else applies a plan waits for the lock.                                 *)
LEMMA ForeignStays ==
  ASSUME IInv, AllPlanned, [PNext]_pvars, NEW S, EditorPaths \cap S = {}, NEW q \in Proc,
         pc[q] \in Admission => foreign[q] \cap S = {}, pc'[q] \in Admission
  PROVE  foreign'[q] \cap S = {}
<1>1. CASE UNCHANGED pvars
  BY <1>1 DEF pvars
<1>2. ASSUME NEW p \in Proc, NEW cmd \in Commands, Plan(p, cmd) PROVE foreign'[q] \cap S = {}
  <2>1. pc' = [pc EXCEPT ![p] = "waiting"] /\ pc = [r \in Proc |-> pc[r]]
    BY <1>2 DEF Plan, Goto, IInv, Typed
  <2>2. q # p /\ pc'[q] = pc[q]
    BY <2>1 DEF Admission
  <2>3. foreign'[q] = foreign[q]
    BY <1>2, <2>2 DEF Plan, IInv, Typed
  <2> QED
    BY <2>2, <2>3
<1>3. ASSUME NEW p \in Proc, Apply(p) PROVE foreign'[q] \cap S = {}
  BY <1>3, SeenByAdmitted DEF Apply
<1>4. ASSUME NEW w \in EditorPaths, Delete(w) \/ \E r \in Region : Type(w, r)
      PROVE  foreign'[q] \cap S = {}
  <2>1. PICK c \in Content : Edit(w, c)
    BY <1>4, ReaderIsEditor
  <2>2. foreign'[q] = foreign[q] \cup {w} /\ pc' = pc
    BY <2>1 DEF Edit, IInv, Typed
  <2> QED
    BY <2>2
<1> QED
  BY <1>1, <1>2, <1>3, <1>4 DEF PNext

(* While a run is admitted, every migration is one it captured, or one of  *)
(* its own.                                                                *)
LEMMA MigrationsGuarded ==
  ASSUME Guarded, NEW p \in Proc, pc[p] \in Admission, Unseen(p),
         NEW tree, NEW d, NEW cmd, Plannable(tree, cmd), Intact(tree), job[p] = Materialized(tree, d, cmd),
         NEW w \in MigrationPaths
  PROVE  GuardedPath(disk, job[p], w)
<1>1. GuardsAppends(job[p])
  BY MaterializedGuards
<1>2. w \in Path /\ DirOf[w] = MigrationRoot /\ w \notin foreign[p]
  BY PathsAssumption DEF Unseen
<1>3. MigrationRoot \in DOMAIN job[p].dirs
  BY DEF Materialized
<1> QED
  BY <1>1, <1>2, <1>3 DEF Guarded, Admission

(* What a plan leaves at a path it writes is an image.                     *)
LEMMA DesiredIsImage ==
  ASSUME NEW b, Fit(b), NEW w \in DesiredPaths(b)
  PROVE  Desired(b, w) \in Image
<1>1. PICK i \in DOMAIN b.ops : w \in Written(b.ops[i])
  BY DEF DesiredPaths
<1>2. Desired(b, w) = b.ops[i].after[w] /\ b.ops[i].after[w] \in Image
  BY <1>1, DesiredImage DEF Fit
<1> QED
  BY <1>2

(* Only a fresh migration is ever written, and it was not there.           *)
LEMMA MigrationWritten ==
  ASSUME IInv, Untouched, NEW p \in Proc, pc[p] = "publishing",
         NEW u \in MigrationPaths, disk'[u] # disk[u], (aim[p] = u /\ Persist(p)) \/ RemoveRetired(p, u),
         NEW tree, NEW d, NEW cmd, Plannable(tree, cmd), Intact(tree), job[p] = Materialized(tree, d, cmd)
  PROVE  /\ u \in AppendedPaths(job[p]) /\ disk'[u] = Desired(job[p], u) /\ disk[u] = Absent
         /\ \E s \in Fresh(tree, cmd) : u = Slot[s]
<1> DEFINE b == job[p]
<1>1. u \in Path
  BY PathsAssumption
<1>2. /\ Persist(p) => u \in DesiredPaths(b) /\ disk'[u] = Desired(b, u)
      /\ RemoveRetired(p, u) => u \in RemovedPaths(b)
  BY <1>1, RunsLeadToTarget
<1>3. /\ \A w \in TouchedPaths(b) \cap MigrationPaths : \E s \in Fresh(tree, cmd) : w = Slot[s]
      /\ \A s \in Fresh(tree, cmd) : Slot[s] \in AppendedPaths(b)
      /\ AppendedPaths(b) \subseteq DesiredPaths(b)
  BY MigrationsTouched, AppendedTypes
<1>4. Fit(b)
  BY MaterializedIsFit
<1>5. GuardedPath(disk, b, u)
  BY MigrationsGuarded DEF IInv, Admission, Untouched
<1>6. u \in DesiredPaths(b) \cup RemovedPaths(b)
  BY <1>2
<1>7. u \in AppendedPaths(b) /\ \E s \in Fresh(tree, cmd) : u = Slot[s]
  BY <1>3, <1>6 DEF TouchedPaths
<1>8. u \notin RemovedPaths(b)
  BY <1>3, <1>4, <1>7 DEF Fit, WellFormed
<1>9. disk'[u] = Desired(b, u)
  BY <1>2, <1>8
<1>10. disk[u] = Absent
  BY <1>5, <1>7, <1>9 DEF GuardedPath
<1> QED
  BY <1>7, <1>9, <1>10

(* The run that publishes leaves them intact: what it puts there was not   *)
(* there, and it puts the lock down when all it seals is.                  *)
LEMMA IntactStep ==
  ASSUME EditorPaths \cap MigrationPaths = {}, IInv, AllPlanned, Untouched, [PNext]_pvars,
         NEW p \in Proc, holder = p, pc[p] = "publishing", edits' = edits,
         NEW u \in Path, disk'[u] # disk[u], (aim[p] = u /\ Persist(p)) \/ RemoveRetired(p, u),
         NEW tree, NEW d, NEW cmd, Plannable(tree, cmd), Intact(tree), job[p] = Materialized(tree, d, cmd)
  PROVE  Intact(disk')
<1> DEFINE b == job[p]
<1>1. /\ disk' = [disk EXCEPT ![u] = disk'[u]]
      /\ disk'[u] = Absent \/ disk'[u] = Target(tree, cmd, u)
      /\ Persist(p) => u \in DesiredPaths(b) /\ disk'[u] = Target(tree, cmd, u) /\ disk'[u] = Desired(b, u)
      /\ RemoveRetired(p, u) => u \in RemovedPaths(b)
  BY RunsLeadToTarget
<1>2. /\ disk = [v \in Path |-> disk[v]] /\ Typed /\ OneWriter /\ Staging /\ Guarded /\ InOrder
  BY DEF IInv, Typed, Tree
<1>3. \A v \in Path : v # u => disk'[v] = disk[v]
  BY <1>1, <1>2
<1>4. /\ \A w \in TouchedPaths(b) \cap MigrationPaths : \E s \in Fresh(tree, cmd) : w = Slot[s]
      /\ \A s \in Fresh(tree, cmd) : Slot[s] \in AppendedPaths(b)
      /\ AppendedPaths(b) \subseteq DesiredPaths(b)
  BY MigrationsTouched, AppendedTypes
<1>5. Fit(b) /\ (\A w \in DesiredPaths(b) : Desired(b, w) = Target(tree, cmd, w))
  BY MaterializedIsFit
<1>6. \A w \in MigrationPaths : GuardedPath(disk, b, w)
  BY <1>2, MigrationsGuarded DEF Admission, Untouched
<1>7. u \in MigrationPaths => u \in AppendedPaths(b) /\ disk'[u] = Desired(b, u) /\ disk[u] = Absent
  BY MigrationWritten
<1>8. \A w \in MigrationPaths : GuardedPath(disk', b, w)
  <2> SUFFICES ASSUME NEW w \in MigrationPaths PROVE GuardedPath(disk', b, w)
    OBVIOUS
  <2>1. w \in Path
    BY PathsAssumption
  <2>2. CASE w = u
    BY <1>7, <2>2 DEF GuardedPath
  <2>3. CASE w # u
    BY <1>3, <1>6, <2>1, <2>3 DEF GuardedPath
  <2> QED
    BY <2>2, <2>3
<1>9. Duplicates(disk') = {}
  BY <1>8, GuardedNumbers
<1>10. ASSUME NEW w \in DOMAIN Sealed(disk') PROVE disk'[w] = Sealed(disk')[w]
  <2>1. CASE disk'[LockFile] = disk[LockFile]
    <3>1. Sealed(disk') = Sealed(disk)
      BY <2>1 DEF Sealed
    <3>2. PICK slots \in SUBSET Sealable :
            /\ DOMAIN Sealed(disk) = {Slot[s] : s \in slots}
            /\ \A s \in slots : Sealed(disk)[Slot[s]] = s[2]
      BY SealedTyped, LegibleIsReadable DEF AllPlanned
    <3>3. PICK s \in slots : w = Slot[s]
      BY <1>10, <3>1, <3>2
    <3>4. w \in MigrationPaths /\ disk[w] = Sealed(disk)[w] /\ Sealed(disk)[w] # Absent
      BY <1>10, <3>1, <3>2, <3>3, SealableAreSlots, ImagesAssumption, AbsentAssumption
         DEF MigrationPaths, Untouched, Intact
    <3>5. w # u
      BY <1>7, <3>4
    <3> QED
      BY <1>3, <3>1, <3>4, <3>5, PathsAssumption
  <2>2. CASE disk'[LockFile] # disk[LockFile] /\ disk'[LockFile] = Absent
    BY <1>10, <2>2 DEF Sealed
  <2>3. CASE disk'[LockFile] # disk[LockFile] /\ disk'[LockFile] # Absent
    <3>1. u = LockFile
      BY <1>3, <2>3, PathsAssumption
    <3>2. disk'[LockFile] = LockAfter(tree, cmd)
      BY <1>1, <2>3, <3>1, TargetTyped
    <3>3. Sealed(disk') = SealedAfter(tree, cmd)
      BY <2>3, <3>2 DEF Sealed, LockAfter
    <3>4. w \in MigrationPaths /\ w \in Path /\ w # u
      BY <1>10, <3>1, <3>3, SealedImages, KindsOfPath
    <3>5. disk'[w] = disk[w]
      BY <1>3, <3>4
    <3>6. CASE w \in {Slot[s] : s \in Fresh(tree, cmd)}
      <4>1. w \in AppendedPaths(b) /\ w \in DesiredPaths(b) /\ w \in TouchedPaths(b)
        BY <1>4, <3>6 DEF TouchedPaths
      <4>2. Desired(b, w) = SealedAfter(tree, cmd)[w]
        <5>1. SealedAfter(tree, cmd)[w] = MigrationsAfter(tree, cmd)[w]
          BY <1>10, <3>3, SealedAsLeft
        <5> QED
          BY <1>5, <3>4, <4>1, <5>1, MigrationTarget
      <4>3. Persist(p) /\ LockFile \in DesiredPaths(b)
        <5>1. RemoveRetired(p, u) => disk'[u] = Absent
          BY <1>2 DEF RemoveRetired
        <5>2. Persist(p)
          BY <2>3, <3>1, <5>1
        <5> QED
          BY <1>1, <3>1, <5>2
      <4>4. tree[LockFile] # LockAfter(tree, cmd)
        <5>1. ASSUME ReplaceLock(tree, cmd) = << >> PROVE FALSE
          <6>1. PICK i \in DOMAIN b.ops : LockFile \in Written(b.ops[i])
            BY <4>3 DEF DesiredPaths
          <6>2. b.ops = Operations(tree, cmd)
            BY DEF Materialized
          <6>3. b.ops[i] \in Moves(tree, cmd)
            BY <6>1, <6>2, SequenceOfMoves DEF Entries
          <6>4. Entries(ReplaceLock(tree, cmd)) = {}
            BY <5>1 DEF Entries
          <6>5. b.ops[i] \in FrontMoves(tree, cmd)
            BY <6>3, <6>4 DEF Moves
          <6> QED
            BY <6>1, <6>3, <6>5, MovesFollow DEF Touched
        <5> QED
          BY <5>1, LockStands
      <4>5. Marked(b) /\ Len(b.ops) \in DOMAIN b.ops /\ Written(b.ops[Len(b.ops)]) = {LockFile}
        BY <4>4, MarkedByLock
      <4>6. [OpenNext]_vars
        BY PipelineIsOpen
      <4>7. w \notin foreign[p]
        BY <3>4 DEF Untouched, Unseen, Admission
      <4>8. disk[w] = Desired(b, w)
        <5> DEFINE n == Len(b.ops)
        <5>1. n \in DOMAIN b.ops /\ Written(b.ops[n]) = {LockFile} /\ LockFile \in Written(b.ops[n])
          BY <4>5
        <5>2. w \in TouchedPaths(b) \ (Written(b.ops[n]) \cup foreign[p])
          BY <3>1, <3>4, <4>1, <4>7, <5>1
        <5> QED
          BY <1>2, <2>3, <4>5, <4>6, <5>1, <5>2, MarkerStep
      <4> QED
        BY <3>3, <3>5, <4>2, <4>8
    <3>7. CASE w \notin {Slot[s] : s \in Fresh(tree, cmd)}
      <4>1. w \notin AppendedPaths(b)
        BY <1>4, <3>4, <3>7 DEF TouchedPaths
      <4>2. disk[w] = tree[w]
        <5>1. CapturedAt(b, w) = tree[w]
          BY <3>4, CapturedMigrations, PathsAssumption
        <5> QED
          BY <1>6, <3>4, <4>1, <5>1 DEF GuardedPath
      <4>3. w \in DOMAIN Sealed(tree) /\ SealedAfter(tree, cmd)[w] = Sealed(tree)[w]
        BY <1>10, <3>3, <3>7, SealedBefore
      <4> QED
        BY <3>3, <3>5, <4>2, <4>3 DEF Intact
    <3> QED
      BY <3>6, <3>7
  <2> QED
    BY <2>1, <2>2, <2>3
<1> QED
  BY <1>9, <1>10 DEF Intact

(* The published migrations stay as jails leaves them, on disk and in      *)
(* every tree a plan was made from.                                        *)
LEMMA UntouchedStep ==
  ASSUME EditorPaths \cap MigrationPaths = {}, IInv, AllPlanned, Untouched, [PNext]_pvars
  PROVE  Untouched'
<1>1. Intact(disk')
  <2> DEFINE ByRun(u) ==
        /\ edits' = edits
        /\ \E p \in Proc : holder = p /\ pc[p] = "publishing"
                           /\ ((aim[p] = u /\ Persist(p)) \/ RemoveRetired(p, u))
  <2>1. ASSUME NEW u \in Path, disk'[u] # disk[u], ByRun(u) PROVE Intact(disk')
    <3>1. PICK p \in Proc : /\ holder = p /\ pc[p] = "publishing"
                            /\ ((aim[p] = u /\ Persist(p)) \/ RemoveRetired(p, u))
      BY <2>1
    <3>2. PICK tree, d, cmd : Plannable(tree, cmd) /\ Intact(tree) /\ job[p] = Materialized(tree, d, cmd)
      BY <3>1 DEF Untouched, PlannedIntact
    <3> QED
      BY <2>1, <3>1, <3>2, IntactStep
  <2>2. CASE \A u \in Path : disk'[u] = disk[u] \/ ~ByRun(u)
    <3>1. \A u \in Path : disk'[u] = disk[u] \/ (u \in EditorPaths /\ (disk'[u] = Absent \/ u \in DOMAIN BaseOf))
      BY <2>2, ChangedPath
    <3>2. \A w \in MigrationPaths : disk'[w] = disk[w]
      BY <3>1, PathsAssumption
    <3>3. disk'[LockFile] = disk[LockFile] \/ disk'[LockFile] = Absent
      BY <3>1, PathsAssumption
    <3>4. Taken(disk') = Taken(disk)
      BY <3>2 DEF Taken, MigrationPaths
    <3>5. Duplicates(disk') = {}
      BY <3>4 DEF Duplicates, Untouched, Intact
    <3>6. ASSUME NEW w \in DOMAIN Sealed(disk') PROVE disk'[w] = Sealed(disk')[w]
      <4>1. disk'[LockFile] # Absent /\ disk'[LockFile] = disk[LockFile]
        BY <3>3, <3>6 DEF Sealed
      <4>2. Sealed(disk') = Sealed(disk)
        BY <4>1 DEF Sealed
      <4>3. w \in MigrationPaths
        BY <3>6, <4>2, SealedMigrations, LegibleIsReadable DEF AllPlanned
      <4> QED
        BY <3>2, <3>6, <4>2, <4>3 DEF Untouched, Intact
    <3> QED
      BY <3>5, <3>6 DEF Intact
  <2> QED
    BY <2>1, <2>2
<1>2. ASSUME NEW q \in Proc, pc'[q] # "idle" PROVE PlannedIntact(job'[q])
  BY <1>2, HandedPlan DEF Untouched, PlannedIntact
<1>3. \A q \in Proc : Unseen(q)'
  BY ForeignStays DEF Untouched, Unseen
<1> QED
  BY <1>1, <1>2, <1>3 DEF Untouched

QInv == PInv /\ Untouched

(* The invariant about migrations: the one above, and nobody but jails     *)
(* touching them.                                                          *)
LEMMA UntouchedInvariant ==
  ASSUME EditorPaths \cap MigrationPaths = {}
  PROVE  PSpec => []QInv
<1>1. PInit => QInv
  <2>1. PInit => PInv
    BY InitialInvariant DEF PInit, PInv, AllPlanned, Sound, Init
  <2>2. PInit => Untouched
    BY DEF PInit, Init, Sound, Untouched, Unseen, Admission
  <2> QED
    BY <2>1, <2>2 DEF QInv
<1>2. QInv /\ [PNext]_pvars => QInv'
  BY PipelineIsOpen, AllPlannedStep, Inductive, UntouchedStep DEF QInv, PInv
<1> QED
  BY <1>1, <1>2, PTL DEF PSpec

(* As long as the reader leaves the published migrations alone, two plans  *)
(* made on one project never both publish a migration under one number,    *)
(* in whatever order they are made, applied, cut short and applied again.  *)
THEOREM NumbersAreUnique ==
  ASSUME EditorPaths \cap MigrationPaths = {}
  PROVE  PSpec => []NumbersUnique
<1>1. QInv => NumbersUnique
  BY DEF QInv, Untouched, Intact, NumbersUnique
<1> QED
  BY <1>1, UntouchedInvariant, PTL

(* What the lock says is sealed is in the project.                         *)
SealedIsThere == \A w \in DOMAIN Sealed(disk) : disk[w] = Sealed(disk)[w]

(* So a lock is never there without the migrations it accepts, whatever a  *)
(* run was cut short between: `materialize` puts the lock last.            *)
THEOREM SealedMigrationsStay ==
  ASSUME EditorPaths \cap MigrationPaths = {}
  PROVE  PSpec => []SealedIsThere
<1>1. QInv => SealedIsThere
  BY DEF QInv, Untouched, Intact, SealedIsThere
<1> QED
  BY <1>1, UntouchedInvariant, PTL

(* Then, too, a command that was cut short is admitted when its plan is    *)
(* applied again, unless somebody else has moved what the plan is about.   *)
THEOREM CommandsAreReadmitted ==
  ASSUME EditorPaths \cap MigrationPaths = {}
  PROVE  PSpec => []RerunAdmitted
<1>1. QInv => RerunAdmitted
  <2> SUFFICES ASSUME QInv PROVE RerunAdmitted
    OBVIOUS
  <2>1. ASSUME NEW p \in Proc, job[p] # None PROVE GuardsAppends(job[p])
    <3>1. pc[p] # "idle"
      BY <2>1 DEF QInv, PInv, IInv, Staging
    <3>2. PICK tree, d, cmd : Plannable(tree, cmd) /\ Intact(tree) /\ job[p] = Materialized(tree, d, cmd)
      BY <3>1 DEF QInv, Untouched, PlannedIntact
    <3> QED
      BY <3>2, MaterializedGuards
  <2> QED
    BY <2>1, GuardsAreReadmitted DEF QInv, PInv
<1> QED
  BY <1>1, UntouchedInvariant, PTL

-----------------------------------------------------------------------------
(* The chain of migrations.                                                *)

(* The migration with the highest number of all says what they leave.      *)
LEMMA LatestLeaves ==
  ASSUME NEW slots, slots \subseteq DOMAIN Slot, NEW s \in slots,
         \A t \in slots : t = s \/ t[1] < s[1]
  PROVE  SchemaLeft(slots) = s[2].leaves
<1>1. \A t \in slots : t[1] \in Nat
  BY SlotAssumption
<1>2. \A t \in slots : t[1] <= s[1]
  BY <1>1
<1>3. ASSUME NEW u \in slots, \A t \in slots : t[1] <= u[1] PROVE u = s
  <2>1. s[1] <= u[1]
    BY <1>3
  <2> QED
    BY <1>1, <2>1
<1>4. (CHOOSE u \in slots : \A t \in slots : t[1] <= u[1]) = s
  BY <1>2, <1>3
<1> QED
  BY <1>4 DEF SchemaLeft

(* What is sealed has been taken.                                          *)
LEMMA ChainIsTaken ==
  ASSUME NEW tree, Readable(tree), Intact(tree)
  PROVE  Chain(tree) \subseteq Taken(tree) /\ Chain(tree) \subseteq DOMAIN Slot
<1>1. PICK slots \in SUBSET Sealable :
        /\ DOMAIN Sealed(tree) = {Slot[s] : s \in slots}
        /\ \A s \in slots : Sealed(tree)[Slot[s]] = s[2]
  BY SealedTyped
<1>2. ASSUME NEW s \in Chain(tree) PROVE s \in DOMAIN Slot /\ tree[Slot[s]] # Absent
  <2>1. s \in DOMAIN Slot /\ Slot[s] \in DOMAIN Sealed(tree)
    BY DEF Chain
  <2>2. PICK t \in slots : Slot[s] = Slot[t]
    BY <1>1, <2>1
  <2>3. tree[Slot[s]] = t[2] /\ t[2] \in Image
    BY <1>1, <2>1, <2>2, SealableAreSlots, ImagesAssumption DEF Intact
  <2> QED
    BY <2>1, <2>3, AbsentAssumption
<1> QED
  BY <1>2 DEF Taken

(* The lock a plan writes seals what was sealed and what it derives, and   *)
(* the chain goes on from the schema accepted so far to the new one.       *)
LEMMA ChainGrows ==
  ASSUME NEW tree, NEW cmd, Plannable(tree, cmd), Intact(tree), Chained(tree),
         NEW live, live[LockFile] = LockAfter(tree, cmd)
  PROVE  Chained(live) /\ Chain(live) = Chain(tree) \cup (Fresh(tree, cmd) \cap Sealable)
<1> DEFINE steps == Derived(tree, cmd)
           fresh == Fresh(tree, cmd) \cap Sealable
           old == Chain(tree)
           next == Chain(live)
           Slotted(i) == Allotted(tree, cmd, i)
<1>1. live[LockFile] # Absent
  BY LockAfterTyped, AbsentAssumption
<1>2. Accepted(live) = cmd.to /\ Sealed(live) = SealedAfter(tree, cmd)
  BY <1>1 DEF Accepted, Sealed, LockAfter
<1>3. /\ fresh \subseteq DOMAIN Slot
      /\ \A i \in DOMAIN steps : /\ i \in Nat \ {0} /\ Slotted(i) \in fresh
                                 /\ Slotted(i)[1] = Newest(tree) + i /\ Slotted(i)[2] = steps[i]
      /\ \A s \in fresh : s[1] \in Nat /\ s[1] > Newest(tree)
  <2>1. \A i \in DOMAIN steps : i \in DOMAIN Drafted(tree, cmd) /\ Drafted(tree, cmd)[i] = steps[i]
    BY DraftedTyped
  <2>2. \A i \in DOMAIN steps : Slotted(i) \in fresh
    BY FreshDerived
  <2> QED
    BY <2>1, <2>2, FreshIsNew
<1>4. /\ old \subseteq DOMAIN Slot
      /\ \A s \in old : s[1] \in Nat /\ s[1] <= Newest(tree)
      /\ Newest(tree) \in Nat
  BY ChainIsTaken, NewestIsNumber DEF Plannable
<1>5. next = old \cup fresh
  <2>1. DOMAIN SealedAfter(tree, cmd) = DOMAIN Sealed(tree) \cup {Slot[s] : s \in fresh}
    BY SealedAfterTyped
  <2> HIDE DEF fresh
  <2>2. ASSUME NEW s \in DOMAIN Slot
        PROVE  s \in next <=> s \in old \cup fresh
    <3>1. s \in next <=> Slot[s] \in DOMAIN Sealed(tree) \/ \E t \in fresh : Slot[s] = Slot[t]
      BY <1>2, <2>1 DEF Chain
    <3>2. (\E t \in fresh : Slot[s] = Slot[t]) <=> s \in fresh
      BY <1>3, SlotAssumption
    <3> QED
      BY <3>1, <3>2 DEF Chain
  <2> QED
    BY <1>3, <1>4, <2>2 DEF Chain
<1>6. /\ Len(steps) \in Nat /\ DOMAIN steps = 1 .. Len(steps)
      /\ steps = << >> => Schema[Accepted(tree)] = Schema[cmd.to]
      /\ steps # << >> => steps[1].finds = Schema[Accepted(tree)] /\ steps[Len(steps)].leaves = Schema[cmd.to]
      /\ \A i \in DOMAIN steps : i > 1 => steps[i].finds = steps[i - 1].leaves
  <2>1. <<Accepted(tree), cmd.to>> \in DOMAIN Derives
    BY DEF Plannable, PlanRefused
  <2>2. Len(steps) \in Nat /\ DOMAIN steps = 1 .. Len(steps)
    BY DraftedTyped
  <2> DEFINE step == <<Accepted(tree), cmd.to>>
  <2>3. step \in DOMAIN Derives /\ step[1] = Accepted(tree) /\ step[2] = cmd.to /\ steps = Derives[step]
    BY <2>1 DEF Derived
  <2> HIDE DEF step, steps
  <2> QED
    BY <2>2, <2>3, SchemaAssumption
<1>7. SchemaLeft(old) = Schema[Accepted(tree)] /\ \A s \in old : s[2].finds = SchemaLeft({t \in old : t[1] < s[1]})
  BY DEF Chained, Leads
<1> HIDE DEF fresh, old, next, steps
<1>8. \A s \in fresh : \E i \in DOMAIN steps : s = Slotted(i)
  BY FreshDerived DEF fresh, steps
<1> HIDE DEF Slotted
<1>9. ASSUME NEW s \in next PROVE s[2].finds = SchemaLeft({t \in next : t[1] < s[1]})
  <2> DEFINE older == {t \in next : t[1] < s[1]}
  <2>1. CASE s \in old
    <3>1. older = {t \in old : t[1] < s[1]}
      BY <1>3, <1>4, <1>5, <2>1
    <3> QED
      BY <1>7, <2>1, <3>1
  <2>2. CASE s \notin old
    <3>1. PICK i \in DOMAIN steps : s = Slotted(i)
      BY <1>5, <1>8, <1>9, <2>2
    <3>2. i \in Nat \ {0} /\ s[1] = Newest(tree) + i /\ s[2] = steps[i]
      BY <1>3, <3>1
    <3>3. CASE i = 1
      <4>1. \A t \in fresh : ~(t[1] < s[1])
        BY <1>3, <1>4, <3>2, <3>3
      <4>2. \A t \in old : t[1] < s[1]
        BY <1>4, <3>2, <3>3
      <4>3. older = old
        BY <1>5, <4>1, <4>2
      <4>4. steps # << >>
        BY <1>6, <3>1
      <4> QED
        BY <1>6, <1>7, <3>2, <3>3, <4>3, <4>4
    <3>4. CASE i > 1
      <4> DEFINE before == Slotted(i - 1)
      <4>1. i - 1 \in DOMAIN steps
        BY <1>6, <3>1, <3>4
      <4>2. before \in fresh /\ before[1] = Newest(tree) + (i - 1) /\ before[2] = steps[i - 1]
        BY <1>3, <4>1
      <4>3. before \in older
        BY <1>4, <1>5, <3>2, <4>2
      <4>4. ASSUME NEW t \in older PROVE t = before \/ t[1] < before[1]
        <5>1. CASE t \in old
          BY <1>4, <3>2, <3>4, <4>2, <5>1
        <5>2. CASE t \in fresh
          <6>1. PICK j \in DOMAIN steps : t = Slotted(j)
            BY <1>8, <5>2
          <6>2. j \in Nat /\ t[1] = Newest(tree) + j /\ j <= i - 1
            BY <1>3, <1>4, <3>2, <6>1
          <6> QED
            BY <1>4, <3>2, <4>2, <6>1, <6>2
        <5> QED
          BY <1>5, <4>4, <5>1, <5>2
      <4>5. older \subseteq DOMAIN Slot
        BY <1>3, <1>4, <1>5
      <4>6. SchemaLeft(older) = before[2].leaves
        BY <4>3, <4>4, <4>5, LatestLeaves
      <4> QED
        BY <1>6, <3>1, <3>2, <3>4, <4>2, <4>6
    <3> QED
      BY <3>2, <3>3, <3>4
  <2> QED
    BY <2>1, <2>2
<1>10. SchemaLeft(next) = Schema[cmd.to]
  <2>1. CASE steps = << >>
    <3>1. fresh = {}
      BY <1>8, <2>1
    <3> QED
      BY <1>5, <1>6, <1>7, <2>1, <3>1
  <2>2. CASE steps # << >>
    <3> DEFINE n == Len(steps)
               final == Slotted(n)
    <3>1. n \in DOMAIN steps /\ n \in Nat
      BY <1>6, <2>2
    <3>2. final \in fresh /\ final[1] = Newest(tree) + n /\ final[2] = steps[n] /\ n > 0
      BY <1>3, <3>1
    <3>3. final \in next /\ next \subseteq DOMAIN Slot
      BY <1>3, <1>4, <1>5, <3>2
    <3>4. ASSUME NEW t \in next PROVE t = final \/ t[1] < final[1]
      <4>1. CASE t \in old
        BY <1>4, <3>1, <3>2, <4>1
      <4>2. CASE t \in fresh
        <5>1. PICK j \in DOMAIN steps : t = Slotted(j)
          BY <1>8, <4>2
        <5>2. j \in Nat /\ t[1] = Newest(tree) + j /\ j <= n
          BY <1>3, <1>6, <5>1
        <5> QED
          BY <1>4, <3>1, <3>2, <5>1, <5>2
      <4> QED
        BY <1>5, <3>4, <4>1, <4>2
    <3>5. SchemaLeft(next) = final[2].leaves
      <4> HIDE DEF final
      <4> QED
        BY <3>3, <3>4, LatestLeaves
    <3> QED
      BY <1>6, <2>2, <3>2, <3>5
  <2> QED
    BY <2>1, <2>2
<1>11. Leads(next, Schema[cmd.to])
  BY <1>9, <1>10 DEF Leads
<1> QED
  BY <1>2, <1>5, <1>11 DEF Chained, next, old, fresh

(* Every operation on the second path comes after one on the first.        *)
Led(s, v, w) ==
  \A k \in DOMAIN s : w \in Touched(s[k]) => \E j \in DOMAIN s : j < k /\ v \in Touched(s[j])

(* What is added at the end comes after that one too.                      *)
LEMMA LedExtends ==
  ASSUME NEW S, NEW s \in Seq(S), NEW t \in Seq(S), NEW v, NEW w, Led(s, v, w),
         \E op \in Entries(s) : v \in Touched(op)
  PROVE  Led(s \o t, v, w)
<1> DEFINE u == s \o t
<1>1. /\ Len(s) \in Nat /\ DOMAIN s = 1 .. Len(s)
      /\ Len(t) \in Nat /\ DOMAIN t = 1 .. Len(t)
  BY LenProperties
<1>2. /\ u \in Seq(S) /\ Len(u) = Len(s) + Len(t)
      /\ \A i \in 1 .. Len(s) + Len(t) : u[i] = IF i <= Len(s) THEN s[i] ELSE t[i - Len(s)]
  BY ConcatProperties
<1>3. DOMAIN u = 1 .. Len(s) + Len(t)
  BY <1>2, LenProperties
<1> HIDE DEF u
<1>4. PICK i \in DOMAIN s : v \in Touched(s[i])
  BY DEF Entries
<1>5. \A k \in DOMAIN s : k \in DOMAIN u /\ u[k] = s[k]
  BY <1>1, <1>2, <1>3
<1>6. ASSUME NEW k \in DOMAIN u, w \in Touched(u[k])
      PROVE  \E j \in DOMAIN u : j < k /\ v \in Touched(u[j])
  <2>1. CASE k \in DOMAIN s
    <3>1. w \in Touched(s[k])
      BY <1>5, <1>6, <2>1
    <3>2. PICK j \in DOMAIN s : j < k /\ v \in Touched(s[j])
      BY <2>1, <3>1 DEF Led
    <3> QED
      BY <1>5, <3>2
  <2>2. CASE k \notin DOMAIN s
    <3>1. i < k
      BY <1>1, <1>3, <1>4, <2>2
    <3> QED
      BY <1>4, <1>5, <3>1
  <2> QED
    BY <2>1, <2>2
<1> QED
  BY <1>6 DEF Led, u

(* Put behind others that do not touch the second path, that still holds.  *)
LEMMA LedPrepended ==
  ASSUME NEW S, NEW s \in Seq(S), NEW t \in Seq(S), NEW v, NEW w, Led(t, v, w),
         \A op \in Entries(s) : w \notin Touched(op)
  PROVE  Led(s \o t, v, w)
<1> DEFINE u == s \o t
<1>1. /\ Len(s) \in Nat /\ DOMAIN s = 1 .. Len(s)
      /\ Len(t) \in Nat /\ DOMAIN t = 1 .. Len(t)
  BY LenProperties
<1>2. /\ u \in Seq(S) /\ Len(u) = Len(s) + Len(t)
      /\ \A i \in 1 .. Len(s) + Len(t) : u[i] = IF i <= Len(s) THEN s[i] ELSE t[i - Len(s)]
  BY ConcatProperties
<1>3. DOMAIN u = 1 .. Len(s) + Len(t)
  BY <1>2, LenProperties
<1> HIDE DEF u
<1>4. ASSUME NEW k \in DOMAIN u, w \in Touched(u[k])
      PROVE  \E j \in DOMAIN u : j < k /\ v \in Touched(u[j])
  <2>1. k \notin DOMAIN s
    <3>1. k \in DOMAIN s => u[k] = s[k] /\ s[k] \in Entries(s)
      BY <1>1, <1>2, <1>3 DEF Entries
    <3> QED
      BY <1>4, <3>1
  <2>2. k - Len(s) \in DOMAIN t /\ u[k] = t[k - Len(s)]
    BY <1>1, <1>2, <1>3, <2>1
  <2>3. PICK i \in DOMAIN t : i < k - Len(s) /\ v \in Touched(t[i])
    BY <1>4, <2>2 DEF Led
  <2>4. i + Len(s) \in DOMAIN u /\ u[i + Len(s)] = t[i] /\ i + Len(s) < k
    BY <1>1, <1>2, <1>3, <2>3
  <2> QED
    BY <2>3, <2>4
<1> QED
  BY <1>4 DEF Led, u

(* The migrations of one plan are published in the order of their numbers. *)
LEMMA AppendsInOrder ==
  ASSUME NEW tree, NEW cmd, Plannable(tree, cmd),
         NEW i \in DOMAIN Drafted(tree, cmd), i > 1
  PROVE  /\ i - 1 \in DOMAIN Drafted(tree, cmd)
         /\ Led(Operations(tree, cmd), Slot[Allotted(tree, cmd, i - 1)], Slot[Allotted(tree, cmd, i)])
<1> DEFINE S == Moves(tree, cmd)
           steps == Drafted(tree, cmd)
           v == Slot[Allotted(tree, cmd, i - 1)]
           w == Slot[Allotted(tree, cmd, i)]
           appends == Appends(tree, cmd)
           managed == PublishManaged(tree, cmd)
           base == PublishBase(tree, cmd)
           strays == RetireStrays(tree, cmd)
           restore == RestoreSealed(tree, cmd)
           model == ReplaceModel(tree, cmd)
           lock == ReplaceLock(tree, cmd)
<1>1. Len(steps) \in Nat /\ DOMAIN steps = 1 .. Len(steps)
  BY DraftedTyped
<1>2. i - 1 \in DOMAIN steps
  BY <1>1
<1>3. /\ DOMAIN appends = DOMAIN steps
      /\ \A k \in DOMAIN steps : Touched(appends[k]) = {Slot[Allotted(tree, cmd, k)]}
  BY AppendMoves
<1>4. \A k \in DOMAIN steps : Slot[Allotted(tree, cmd, k)] = w => k = i
  <2>1. \A k \in DOMAIN steps :
          Allotted(tree, cmd, k) \in DOMAIN Slot /\ Allotted(tree, cmd, k)[1] = Newest(tree) + k /\ k \in Nat
    BY FreshIsNew DEF Fresh
  <2>2. Newest(tree) \in Nat
    BY NewestIsNumber
  <2> SUFFICES ASSUME NEW k \in DOMAIN steps, Slot[Allotted(tree, cmd, k)] = w PROVE k = i
    OBVIOUS
  <2>3. Allotted(tree, cmd, k) = Allotted(tree, cmd, i)
    BY <2>1, SlotAssumption
  <2>4. Newest(tree) + k = Newest(tree) + i
    BY <2>1, <2>3
  <2> QED
    BY <2>1, <2>2, <2>4
<1>5. w \in MigrationPaths
  BY FreshIsNew DEF Fresh, MigrationPaths
<1>6. /\ managed \in Seq(S) /\ base \in Seq(S) /\ strays \in Seq(S) /\ appends \in Seq(S)
      /\ restore \in Seq(S) /\ model \in Seq(S) /\ lock \in Seq(S)
  <2>1. /\ managed \in Seq(Entries(managed)) /\ base \in Seq(Entries(base)) /\ strays \in Seq(Entries(strays))
        /\ restore \in Seq(Entries(restore)) /\ model \in Seq(Entries(model)) /\ lock \in Seq(Entries(lock))
    BY WhenSaysOne DEF PublishManaged, PublishBase, RetireStrays, RestoreSealed, ReplaceModel, ReplaceLock
  <2>2. appends \in Seq(Entries(appends))
    BY AppendMoves
  <2> HIDE DEF managed, base, strays, appends, restore, model, lock
  <2>3. /\ Entries(managed) \subseteq S /\ Entries(base) \subseteq S /\ Entries(strays) \subseteq S
        /\ Entries(appends) \subseteq S /\ Entries(restore) \subseteq S /\ Entries(model) \subseteq S
        /\ Entries(lock) \subseteq S
    BY DEF Moves, FrontMoves, managed, base, strays, appends, restore, model, lock
  <2> QED
    BY <2>1, <2>2, <2>3, SeqMonotonic
<1>7. \A op \in Entries(managed) \cup Entries(base) \cup Entries(strays) : w \notin Touched(op)
  BY <1>5, ManagedMoves, BaseMoves, KindsOfPath
<1>8. Led(appends, v, w)
  BY <1>1, <1>2, <1>3, <1>4 DEF Led
<1>9. appends[i - 1] \in Entries(appends) /\ v \in Touched(appends[i - 1])
  BY <1>2, <1>3 DEF Entries
<1>10. Operations(tree, cmd) = ((((((managed \o base) \o strays) \o appends) \o restore) \o model) \o lock)
  BY DEF Operations
<1> HIDE DEF S, steps, v, w, appends, managed, base, strays, restore, model, lock
<1> DEFINE ab == managed \o base
           abc == ab \o strays
           abcd == abc \o appends
           abcde == abcd \o restore
           front == abcde \o model
<1>11. abc \in Seq(S) /\ Entries(abc) = Entries(managed) \cup Entries(base) \cup Entries(strays)
  <2>1. ab \in Seq(S) /\ Entries(ab) = Entries(managed) \cup Entries(base)
    BY <1>6, ConcatEntries
  <2> HIDE DEF ab
  <2> QED
    BY <1>6, <2>1, ConcatEntries
<1> HIDE DEF ab, abc
<1>12. abcd \in Seq(S) /\ Entries(appends) \subseteq Entries(abcd) /\ Led(abcd, v, w)
  BY <1>6, <1>7, <1>8, <1>11, ConcatEntries, LedPrepended
<1> HIDE DEF abcd
<1>13. abcde \in Seq(S) /\ Entries(appends) \subseteq Entries(abcde) /\ Led(abcde, v, w)
  BY <1>6, <1>9, <1>12, ConcatEntries, LedExtends
<1> HIDE DEF abcde
<1>14. front \in Seq(S) /\ Entries(appends) \subseteq Entries(front) /\ Led(front, v, w)
  BY <1>6, <1>9, <1>13, ConcatEntries, LedExtends
<1> HIDE DEF front
<1>15. Led(front \o lock, v, w)
  BY <1>6, <1>9, <1>14, LedExtends
<1> QED
  BY <1>2, <1>10, <1>15 DEF front, abcde, abcd, abc, ab, v, w, steps

(* Nothing published is ever taken away, and what is added is a migration  *)
(* of the plan that is being applied.                                      *)
LEMMA NewMigration ==
  ASSUME EditorPaths \cap MigrationPaths = {}, IInv, AllPlanned, Untouched, [PNext]_pvars
  PROVE  \/ Taken(disk') = Taken(disk)
         \/ \E p \in Proc : \E tree, d, cmd :
              /\ pc[p] = "publishing" /\ Persist(p) /\ aim[p] \in AppendedPaths(job[p])
              /\ Plannable(tree, cmd) /\ Intact(tree) /\ job[p] = Materialized(tree, d, cmd)
              /\ \E i \in DOMAIN Drafted(tree, cmd) :
                   /\ aim[p] = Slot[Allotted(tree, cmd, i)] /\ Allotted(tree, cmd, i) \in DOMAIN Slot
                   /\ Taken(disk') = Taken(disk) \cup {Allotted(tree, cmd, i)}
<1>1. CASE \A u \in MigrationPaths : disk'[u] = disk[u]
  BY <1>1 DEF Taken, MigrationPaths
<1>2. ASSUME NEW u \in MigrationPaths, disk'[u] # disk[u]
      PROVE  \E p \in Proc : \E tree, d, cmd :
               /\ pc[p] = "publishing" /\ Persist(p) /\ aim[p] \in AppendedPaths(job[p])
               /\ Plannable(tree, cmd) /\ Intact(tree) /\ job[p] = Materialized(tree, d, cmd)
               /\ \E i \in DOMAIN Drafted(tree, cmd) :
                    /\ aim[p] = Slot[Allotted(tree, cmd, i)] /\ Allotted(tree, cmd, i) \in DOMAIN Slot
                    /\ Taken(disk') = Taken(disk) \cup {Allotted(tree, cmd, i)}
  <2>1. u \in Path /\ u \notin EditorPaths
    BY PathsAssumption
  <2>2. PICK p \in Proc : pc[p] = "publishing" /\ ((aim[p] = u /\ Persist(p)) \/ RemoveRetired(p, u))
    BY <1>2, <2>1, ChangedPath
  <2>3. PICK tree, d, cmd : Plannable(tree, cmd) /\ Intact(tree) /\ job[p] = Materialized(tree, d, cmd)
    BY <2>2 DEF Untouched, PlannedIntact
  <2>4. /\ u \in AppendedPaths(job[p]) /\ disk'[u] = Desired(job[p], u)
        /\ \E s \in Fresh(tree, cmd) : u = Slot[s]
    BY <1>2, <2>2, <2>3, MigrationWritten
  <2>5. u \in DesiredPaths(job[p]) /\ disk'[u] \in Image
    <3>1. Fit(job[p]) /\ u \in DesiredPaths(job[p])
      BY <2>3, <2>4, MaterializedIsFit, AppendedTypes
    <3> QED
      BY <2>4, <3>1, DesiredIsImage
  <2>6. aim[p] = u /\ Persist(p)
    <3>1. RemoveRetired(p, u) => disk'[u] = Absent
      BY <2>1 DEF RemoveRetired, IInv, Typed, Tree
    <3> QED
      BY <2>2, <2>5, <3>1, AbsentAssumption
  <2>7. PICK i \in DOMAIN Drafted(tree, cmd) : u = Slot[Allotted(tree, cmd, i)]
    BY <2>4 DEF Fresh
  <2>8. Allotted(tree, cmd, i) \in DOMAIN Slot
    BY <2>3, FreshIsNew DEF Fresh
  <2>9. disk' = [disk EXCEPT ![u] = disk'[u]] /\ disk = [v \in Path |-> disk[v]]
    BY <1>2, <2>1, <2>2, <2>3, RunsLeadToTarget DEF IInv, Typed, Tree
  <2>10. \A v \in Path : v # u => disk'[v] = disk[v]
    BY <2>9
  <2>11. ASSUME NEW s \in DOMAIN Slot
         PROVE  s \in Taken(disk') <=> s \in Taken(disk) \cup {Allotted(tree, cmd, i)}
    <3>1. Slot[s] \in MigrationPaths /\ Slot[s] \in Path
      BY PathsAssumption DEF MigrationPaths
    <3>2. CASE Slot[s] = u
      <4>1. s = Allotted(tree, cmd, i)
        BY <2>7, <2>8, <3>2, SlotAssumption
      <4> QED
        BY <2>5, <3>2, <4>1, AbsentAssumption DEF Taken
    <3>3. CASE Slot[s] # u
      BY <2>7, <2>10, <3>1, <3>3 DEF Taken
    <3> QED
      BY <3>2, <3>3
  <2>12. Taken(disk') = Taken(disk) \cup {Allotted(tree, cmd, i)}
    BY <2>8, <2>11 DEF Taken
  <2> QED
    BY <2>2, <2>3, <2>4, <2>6, <2>7, <2>8, <2>12
<1> QED
  BY <1>1, <1>2

(* No number is left out: the first migration of a plan follows the newest *)
(* one it was planned over, which nobody has taken away, and each further  *)
(* one is published after the one before it.                               *)
LEMMA NoGapsStep ==
  ASSUME EditorPaths \cap MigrationPaths = {}, IInv, AllPlanned, Untouched, NoGaps(disk), [PNext]_pvars
  PROVE  NoGaps(disk')
<1>1. CASE Taken(disk') = Taken(disk)
  BY <1>1 DEF NoGaps
<1>2. ASSUME NEW p \in Proc, NEW tree, NEW d, NEW cmd, NEW i \in DOMAIN Drafted(tree, cmd),
             pc[p] = "publishing", Persist(p), Plannable(tree, cmd), Intact(tree), job[p] = Materialized(tree, d, cmd),
             aim[p] = Slot[Allotted(tree, cmd, i)], Allotted(tree, cmd, i) \in DOMAIN Slot,
             Taken(disk') = Taken(disk) \cup {Allotted(tree, cmd, i)}
      PROVE  NoGaps(disk')
  <2> DEFINE b == job[p]
             s == Allotted(tree, cmd, i)
             w == Slot[s]
  <2>1. /\ \A t \in Fresh(tree, cmd) : t \notin Taken(tree) /\ t \in DOMAIN Slot
        /\ \A j \in DOMAIN Drafted(tree, cmd) :
             /\ j \in Nat \ {0} /\ Allotted(tree, cmd, j) \in Fresh(tree, cmd)
             /\ Allotted(tree, cmd, j) \in DOMAIN Slot
             /\ Allotted(tree, cmd, j)[1] = Newest(tree) + j
    BY <1>2, FreshIsNew DEF Fresh
  <2>2. Newest(tree) \in Nat /\ (Newest(tree) = 0 \/ \E t \in Taken(tree) : t[1] = Newest(tree))
    BY NewestIsNumber
  <2>3. /\ \A v \in TouchedPaths(b) \cap MigrationPaths : \E t \in Fresh(tree, cmd) : v = Slot[t]
        /\ \A t \in Fresh(tree, cmd) : Slot[t] \in AppendedPaths(b)
        /\ AppendedPaths(b) \subseteq TouchedPaths(b) /\ AppendedPaths(b) \subseteq DesiredPaths(b)
    BY <1>2, MigrationsTouched, AppendedTypes DEF TouchedPaths
  <2>4. s[1] = 1 \/ \E t \in Taken(disk) : t[1] + 1 = s[1]
    <3>1. CASE i = 1 /\ Newest(tree) = 0
      BY <2>1, <3>1
    <3>2. CASE i = 1 /\ Newest(tree) # 0
      <4>1. PICK t \in Taken(tree) : t[1] = Newest(tree)
        BY <2>2, <3>2
      <4>2. t \in DOMAIN Slot /\ tree[Slot[t]] # Absent /\ Slot[t] \in MigrationPaths
        BY DEF Taken, MigrationPaths
      <4>3. Slot[t] \notin AppendedPaths(b)
        BY <2>1, <2>3, <4>2, SlotAssumption
      <4>4. GuardedPath(disk, b, Slot[t])
        BY <1>2, <4>2, MigrationsGuarded DEF IInv, Admission, Untouched
      <4>5. CapturedAt(b, Slot[t]) = tree[Slot[t]]
        BY <1>2, <4>2, CapturedMigrations, PathsAssumption
      <4>6. t \in Taken(disk)
        BY <4>2, <4>3, <4>4, <4>5 DEF GuardedPath, Taken
      <4> QED
        BY <2>1, <3>2, <4>1, <4>6
    <3>3. CASE i # 1
      <4> DEFINE t == Allotted(tree, cmd, i - 1)
      <4>1. i > 1
        BY <2>1, <3>3
      <4>2. i - 1 \in DOMAIN Drafted(tree, cmd) /\ Led(b.ops, Slot[t], w)
        <5>1. b.ops = Operations(tree, cmd)
          BY <1>2 DEF Materialized
        <5> QED
          BY <1>2, <4>1, <5>1, AppendsInOrder
      <4>3. at[p] \in DOMAIN b.ops /\ w \in Touched(b.ops[at[p]])
        BY <1>2 DEF Persist, Publishing, IInv, Staging, Touched
      <4>4. PICK j \in DOMAIN b.ops : j < at[p] /\ Slot[t] \in Touched(b.ops[j])
        BY <4>2, <4>3 DEF Led
      <4>5. /\ t \in Fresh(tree, cmd) /\ t \in DOMAIN Slot /\ t[1] + 1 = s[1]
        BY <2>1, <2>2, <4>2
      <4>6. Slot[t] \in MigrationPaths /\ Slot[t] \in Path
        BY <4>5, PathsAssumption DEF MigrationPaths
      <4>7. Slot[t] \notin foreign[p]
        BY <1>2, <4>6 DEF Untouched, Unseen, Admission
      <4>8. Fit(b) /\ Len(b.ops) \in Nat /\ DOMAIN b.ops = 1 .. Len(b.ops) /\ at[p] \in Nat
        BY <1>2, MaterializedIsFit, LenProperties DEF Fit, IsBundle, IInv, Typed
      <4>9. Behind(p, Slot[t])
        BY <4>4, <4>8 DEF Behind
      <4>10. disk[Slot[t]] = Desired(b, Slot[t])
        BY <1>2, <4>6, <4>7, <4>9 DEF IInv, InOrder
      <4>11. Desired(b, Slot[t]) \in Image
        BY <2>3, <4>5, <4>8, DesiredIsImage
      <4>12. t \in Taken(disk)
        BY <4>5, <4>10, <4>11, AbsentAssumption DEF Taken
      <4> QED
        BY <4>5, <4>12
    <3> QED
      BY <3>1, <3>2, <3>3
  <2> QED
    BY <1>2, <2>4 DEF NoGaps
<1> QED
  BY <1>1, <1>2, NewMigration

(* What holds of the lock, and of the migrations it does not seal yet.     *)
PlannedChained(b) ==
  \E tree, d, cmd :
    Plannable(tree, cmd) /\ Intact(tree) /\ Chained(tree) /\ b = Materialized(tree, d, cmd)

LockUnseen(p) == pc[p] \in Admission => LockFile \notin foreign[p]

(* Nobody else has changed the lock under a run, and a run that publishes  *)
(* has come to an operation.                                               *)
InPlace == \A p \in Proc : LockUnseen(p) /\ (pc[p] = "publishing" => at[p] > 0)

Working(p) == pc[p] \in {"probing", "publishing"}

(* As long as no run was cut short, a derived migration that is not sealed *)
(* belongs to the run that is at work, which has yet to write the lock.    *)
Pending ==
  faults = 0 =>
    \A s \in Taken(disk) \cap Sealable :
      s \in Chain(disk) \/ \E p \in Proc : Working(p) /\ Slot[s] \in AppendedPaths(job[p])

Chains ==
  /\ Chained(disk) /\ NoGaps(disk)
  /\ \A p \in Proc : pc[p] # "idle" => PlannedChained(job[p])
  /\ InPlace
  /\ Pending

(* A lock that changes is the one the plan being applied leaves, and was   *)
(* the one that plan was made over.                                        *)
LEMMA LockMoves ==
  ASSUME EditorPaths \cap {LockFile} = {}, IInv, AllPlanned, [PNext]_pvars,
         InPlace, disk'[LockFile] # disk[LockFile]
  PROVE  \E p \in Proc :
           /\ pc[p] = "publishing"
           /\ \A w \in MigrationPaths : disk'[w] = disk[w]
           /\ \A tree, d, cmd : Plannable(tree, cmd) /\ job[p] = Materialized(tree, d, cmd) =>
                disk'[LockFile] = LockAfter(tree, cmd) /\ disk[LockFile] = tree[LockFile]
<1>1. LockFile \in Path /\ LockFile \notin EditorPaths /\ LockFile \notin MigrationPaths
  BY PathsAssumption
<1>2. PICK p \in Proc : pc[p] = "publishing" /\ ((aim[p] = LockFile /\ Persist(p)) \/ RemoveRetired(p, LockFile))
  BY <1>1, ChangedPath
<1>3. ASSUME NEW tree, NEW d, NEW cmd, Plannable(tree, cmd), job[p] = Materialized(tree, d, cmd)
      PROVE  /\ disk' = [disk EXCEPT ![LockFile] = disk'[LockFile]]
             /\ disk'[LockFile] = LockAfter(tree, cmd) /\ disk[LockFile] = tree[LockFile]
  <2> DEFINE b == job[p]
  <2>1. /\ disk' = [disk EXCEPT ![LockFile] = disk'[LockFile]]
        /\ Persist(p) => /\ LockFile \in DesiredPaths(b)
                         /\ disk'[LockFile] = Target(tree, cmd, LockFile)
                         /\ disk'[LockFile] = Desired(b, LockFile)
        /\ RemoveRetired(p, LockFile) => LockFile \in RemovedPaths(b)
    BY <1>1, <1>2, <1>3, RunsLeadToTarget
  <2>2. LockFile \notin RemovedPaths(b)
    <3>1. LockFile \in RemovedPaths(b) => Target(tree, cmd, LockFile) = Absent
      BY <1>3, MaterializedIsFit
    <3> QED
      BY <1>3, <3>1, TargetTyped, LockAfterTyped, AbsentAssumption
  <2>3. /\ disk'[LockFile] = LockAfter(tree, cmd)
        /\ disk'[LockFile] = Desired(b, LockFile)
    BY <1>2, <1>3, <2>1, <2>2, TargetTyped
  <2>4. PathAdmitted(disk, b, LockFile)
    BY <1>1, <1>2 DEF InPlace, LockUnseen, Admission, IInv, Admissible
  <2>5. LockFile \in DOMAIN b.base /\ b.base[LockFile] = tree[LockFile]
    BY <1>3 DEF Materialized, Observed
  <2> QED
    BY <2>1, <2>2, <2>3, <2>4, <2>5 DEF PathAdmitted, FileAdmitted
<1>4. PICK tree, d, cmd : Plannable(tree, cmd) /\ job[p] = Materialized(tree, d, cmd)
  BY <1>2 DEF AllPlanned, Planned
<1>5. disk' = [disk EXCEPT ![LockFile] = disk'[LockFile]] /\ disk = [w \in Path |-> disk[w]]
  BY <1>3, <1>4 DEF IInv, Typed, Tree
<1>6. \A w \in MigrationPaths : disk'[w] = disk[w]
  BY <1>1, <1>5, PathsAssumption
<1> QED
  BY <1>2, <1>3, <1>6

(* What a step of a run does to its place in its plan, and to the count of *)
(* mishaps.                                                                *)
LEMMA RunMoves ==
  ASSUME IInv, NEW p \in Proc, Rerun(p) \/ Acquire(p) \/ Work(p) \/ Fail(p) \/ Abort(p), NEW q \in Proc
  PROVE  /\ pc'[q] = "publishing" =>
              at'[q] = 1 \/ (pc[q] = "publishing" /\ at'[q] \in {at[q], at[q] + 1})
         /\ pc[q] \in {"probing", "publishing"} /\ pc'[q] \notin {"probing", "publishing"} =>
              FinishOperations(q) \/ faults' # faults
         /\ pc[q] \notin {"probing", "publishing"} /\ pc'[q] \in {"probing", "publishing"} =>
              Admit(q)
         /\ faults' \in {faults, faults + 1}
<1> DEFINE Moved == pc'[q] = "publishing" =>
                      at'[q] = 1 \/ (pc[q] = "publishing" /\ at'[q] \in {at[q], at[q] + 1})
           Left == pc[q] \in {"probing", "publishing"} /\ pc'[q] \notin {"probing", "publishing"} =>
                     FinishOperations(q) \/ faults' # faults
           Entered == pc[q] \notin {"probing", "publishing"} /\ pc'[q] \in {"probing", "publishing"} =>
                        Admit(q)
           Placed == Moved /\ Left /\ Entered /\ faults' \in {faults, faults + 1}
<1>1. /\ pc = [r \in Proc |-> pc[r]] /\ at = [r \in Proc |-> at[r]] /\ faults \in Nat
  BY BoundsAssumption DEF IInv, Typed
<1>2. CASE Rerun(p) \/ Acquire(p)
  BY <1>1, <1>2 DEF Rerun, Acquire, Goto, Over, progress
<1>3. CASE FinishOperations(p)
  BY <1>1, <1>3 DEF FinishOperations, Goto, progress
<1>4. CASE Sweep(p) \/ Admit(p)
  BY <1>1, <1>4 DEF Sweep, Admit, Goto
<1>5. CASE StartOperations(p)
  BY <1>1, <1>5 DEF StartOperations, Goto
<1>6. CASE Refuse(p) \/ Verify(p)
  BY <1>1, <1>6 DEF Refuse, Verify, Leave, Goto
<1>7. CASE Fail(p) \/ Abort(p)
  BY <1>1, <1>7 DEF Fail, Abort, Leave, Goto, Holding
<1>8. ASSUME NEW d \in Dir, Probe(p, d) PROVE Placed
  BY <1>8 DEF Probe
<1>9. ASSUME NEW w \in Path, SkipWrite(p, w) \/ Stage(p, w) \/ RemoveRetired(p, w) PROVE Placed
  BY <1>9 DEF SkipWrite, Stage, RemoveRetired
<1>10. CASE DropProbe(p) \/ Persist(p)
  BY <1>10 DEF DropProbe, Persist
<1>11. CASE NextOperation(p)
  BY <1>1, <1>11 DEF NextOperation
<1>12. Placed
  BY <1>2, <1>3, <1>4, <1>5, <1>6, <1>7, <1>8, <1>9, <1>10, <1>11 DEF Work
<1> QED
  BY <1>12

(* What a step does to the place of a run in its plan.                     *)
LEMMA PlaceStep ==
  ASSUME IInv, AllPlanned, [PNext]_pvars, NEW q \in Proc
  PROVE  /\ pc'[q] = "publishing" =>
              at'[q] = 1 \/ (pc[q] = "publishing" /\ at'[q] \in {at[q], at[q] + 1})
         /\ pc[q] \in {"probing", "publishing"} /\ pc'[q] \notin {"probing", "publishing"} =>
              FinishOperations(q) \/ faults' # faults
         /\ pc[q] \notin {"probing", "publishing"} /\ pc'[q] \in {"probing", "publishing"} =>
              Admit(q)
<1> DEFINE Moved == pc'[q] = "publishing" =>
                      at'[q] = 1 \/ (pc[q] = "publishing" /\ at'[q] \in {at[q], at[q] + 1})
           Left == pc[q] \in {"probing", "publishing"} /\ pc'[q] \notin {"probing", "publishing"} =>
                     FinishOperations(q) \/ faults' # faults
           Entered == pc[q] \notin {"probing", "publishing"} /\ pc'[q] \in {"probing", "publishing"} =>
                        Admit(q)
           Placed == Moved /\ Left /\ Entered
<1>1. pc = [r \in Proc |-> pc[r]]
  BY DEF IInv, Typed
<1>2. CASE UNCHANGED pvars
  BY <1>2 DEF pvars
<1>3. ASSUME NEW p \in Proc, NEW cmd \in Commands, Plan(p, cmd) PROVE Placed
  BY <1>1, <1>3 DEF Plan, Goto, Over
<1>4. ASSUME NEW w \in EditorPaths, Delete(w) \/ \E r \in Region : Type(w, r) PROVE Placed
  BY <1>4, ReaderIsEditor DEF Edit, progress
<1>5. ASSUME NEW p \in Proc, Apply(p) PROVE Placed
  BY <1>5, RunMoves DEF Apply
<1>6. Placed
  BY <1>2, <1>3, <1>4, <1>5 DEF PNext
<1> QED
  BY <1>6

(* A run keeps its place.                                                  *)
LEMMA InPlaceStep ==
  ASSUME EditorPaths \cap {LockFile} = {}, IInv, AllPlanned, InPlace, [PNext]_pvars
  PROVE  InPlace'
<1>1. ASSUME NEW q \in Proc, pc'[q] \in Admission PROVE LockFile \notin foreign'[q]
  <2>1. pc[q] \in Admission => foreign[q] \cap {LockFile} = {}
    BY DEF InPlace, LockUnseen
  <2>2. foreign'[q] \cap {LockFile} = {}
    BY <1>1, <2>1, ForeignStays
  <2> QED
    BY <2>2
<1>2. ASSUME NEW q \in Proc, pc'[q] = "publishing" PROVE at'[q] > 0
  <2>1. at'[q] = 1 \/ (pc[q] = "publishing" /\ at'[q] \in {at[q], at[q] + 1})
    BY <1>2, PlaceStep
  <2>2. at[q] \in Nat /\ (pc[q] = "publishing" => at[q] > 0)
    BY DEF InPlace, IInv, Typed
  <2> QED
    BY <2>1, <2>2
<1> QED
  BY <1>1, <1>2 DEF InPlace, LockUnseen

(* A run at work keeps its plan, and mishaps are only counted up.          *)
LEMMA WorkKeepsPlan ==
  ASSUME IInv, AllPlanned, [PNext]_pvars
  PROVE  /\ faults' \in {faults, faults + 1}
         /\ \A q \in Proc : Working(q) => job'[q] = job[q]
<1> DEFINE Same == /\ faults' \in {faults, faults + 1}
                   /\ \A q \in Proc : Working(q) => job'[q] = job[q]
<1>1. CASE UNCHANGED pvars
  BY <1>1 DEF pvars
<1>2. ASSUME NEW p \in Proc, NEW cmd \in Commands, Plan(p, cmd) PROVE Same
  <2>1. ~Working(p) /\ job = [r \in Proc |-> job[r]]
    BY <1>2 DEF Plan, Working, Over, IInv, Typed
  <2> QED
    BY <1>2, <2>1 DEF Plan
<1>3. ASSUME NEW w \in EditorPaths, Delete(w) \/ \E r \in Region : Type(w, r) PROVE Same
  BY <1>3, ReaderIsEditor DEF Edit, progress
<1>4. ASSUME NEW p \in Proc, Apply(p) PROVE Same
  BY <1>4, RunsKeepPlans, RunMoves DEF Apply
<1>5. Same
  BY <1>1, <1>2, <1>3, <1>4 DEF PNext
<1> QED
  BY <1>5

(* The chain of the lock goes on from plan to plan.                        *)
LEMMA ChainedStep ==
  ASSUME EditorPaths \cap {LockFile} = {}, IInv, AllPlanned, Chains, [PNext]_pvars
  PROVE  /\ Chained(disk')
         /\ disk'[LockFile] # disk[LockFile] =>
              Chain(disk) \subseteq Chain(disk') /\ Taken(disk') = Taken(disk)
<1>1. CASE disk'[LockFile] = disk[LockFile]
  <2>1. Sealed(disk') = Sealed(disk) /\ Accepted(disk') = Accepted(disk)
    BY <1>1 DEF Sealed, Accepted
  <2>2. Chain(disk') = Chain(disk)
    BY <2>1 DEF Chain
  <2> QED
    BY <1>1, <2>1, <2>2 DEF Chained, Chains
<1>2. CASE disk'[LockFile] # disk[LockFile]
  <2>1. PICK p \in Proc :
          /\ pc[p] = "publishing"
          /\ \A w \in MigrationPaths : disk'[w] = disk[w]
          /\ \A tree, d, cmd : Plannable(tree, cmd) /\ job[p] = Materialized(tree, d, cmd) =>
               disk'[LockFile] = LockAfter(tree, cmd) /\ disk[LockFile] = tree[LockFile]
    BY <1>2, LockMoves DEF Chains
  <2>2. PICK tree, d, cmd :
          Plannable(tree, cmd) /\ Intact(tree) /\ Chained(tree) /\ job[p] = Materialized(tree, d, cmd)
    BY <2>1 DEF Chains, PlannedChained
  <2>3. disk'[LockFile] = LockAfter(tree, cmd) /\ disk[LockFile] = tree[LockFile]
    BY <2>1, <2>2
  <2>4. Chained(disk') /\ Chain(disk') = Chain(tree) \cup (Fresh(tree, cmd) \cap Sealable)
    BY <2>2, <2>3, ChainGrows
  <2>5. Chain(disk) = Chain(tree)
    BY <2>3 DEF Chain, Sealed
  <2>6. Taken(disk') = Taken(disk)
    BY <2>1 DEF Taken, MigrationPaths
  <2> QED
    BY <2>4, <2>5, <2>6
<1> QED
  BY <1>1, <1>2

(* A run that comes to the end of its operations has sealed the migrations *)
(* it published, but for the reader's.                                     *)
LEMMA SealedWhenFinished ==
  ASSUME IInv, Chains, NEW p \in Proc, FinishOperations(p),
         NEW s \in Sealable, Slot[s] \in AppendedPaths(job[p])
  PROVE  s \in Chain(disk)
<1> DEFINE b == job[p]
<1>1. pc[p] = "publishing" /\ at[p] \notin DOMAIN b.ops /\ at[p] > 0 /\ at[p] \in Nat
  BY DEF FinishOperations, Chains, InPlace, IInv, Typed
<1>2. PICK tree, d, cmd : Plannable(tree, cmd) /\ Intact(tree) /\ Chained(tree) /\ b = Materialized(tree, d, cmd)
  BY <1>1 DEF Chains, PlannedChained
<1>3. /\ Slot[s] \in MigrationPaths
      /\ \A w \in TouchedPaths(b) \cap MigrationPaths : \E t \in Fresh(tree, cmd) : w = Slot[t]
      /\ AppendedPaths(b) \subseteq TouchedPaths(b)
  BY <1>2, SealableAreSlots, MigrationsTouched, AppendedTypes DEF TouchedPaths, MigrationPaths
<1>4. s \in Fresh(tree, cmd)
  BY <1>2, <1>3, SealableAreSlots, FreshIsNew, SlotAssumption
<1>5. tree[LockFile] # LockAfter(tree, cmd)
  BY <1>2, <1>4, LockStands
<1>6. Len(b.ops) \in DOMAIN b.ops /\ Written(b.ops[Len(b.ops)]) = {LockFile}
  BY <1>2, <1>5, MarkedByLock
<1>7. Fit(b) /\ DOMAIN b.ops = 1 .. Len(b.ops) /\ Len(b.ops) \in Nat
  BY <1>2, MaterializedIsFit, LenProperties DEF Fit, IsBundle
<1>8. Len(b.ops) < at[p]
  BY <1>1, <1>7
<1>9. Behind(p, LockFile)
  <2> DEFINE n == Len(b.ops)
  <2>1. n \in DOMAIN b.ops /\ n <= at[p] /\ n # at[p] /\ LockFile \in Touched(b.ops[n])
    BY <1>1, <1>6, <1>7, <1>8 DEF Touched
  <2> HIDE DEF n
  <2> QED
    BY <2>1 DEF Behind
<1>10. disk[LockFile] = Desired(b, LockFile)
  BY <1>1, <1>9, PathsAssumption DEF IInv, InOrder, Chains, InPlace, LockUnseen, Admission
<1>11. LockFile \in DesiredPaths(b)
  BY <1>6 DEF DesiredPaths
<1>12. disk[LockFile] = LockAfter(tree, cmd)
  BY <1>2, <1>10, <1>11, MaterializedIsFit, TargetTyped
<1>13. Chain(disk) = Chain(tree) \cup (Fresh(tree, cmd) \cap Sealable)
  BY <1>2, <1>12, ChainGrows
<1> QED
  BY <1>4, <1>13

(* No derived migration is published that is not about to be sealed.       *)
LEMMA PendingStep ==
  ASSUME EditorPaths \cap (MigrationPaths \cup {LockFile}) = {},
         IInv, AllPlanned, Untouched, Chains, [PNext]_pvars
  PROVE  Pending'
<1> SUFFICES ASSUME faults' = 0, NEW s \in Taken(disk'), s \in Sealable
             PROVE  s \in Chain(disk') \/ \E p \in Proc : Working(p)' /\ Slot[s] \in AppendedPaths(job'[p])
  BY DEF Pending
<1>1. faults \in Nat /\ s \in DOMAIN Slot
  BY BoundsAssumption DEF IInv, Typed, Taken
<1>2. CASE s \in Taken(disk) /\ s \in Chain(disk)
  <2>1. CASE disk'[LockFile] = disk[LockFile]
    <3>1. Chain(disk') = Chain(disk)
      BY <2>1 DEF Chain, Sealed
    <3> QED
      BY <1>2, <3>1
  <2>2. CASE disk'[LockFile] # disk[LockFile]
    BY <1>2, <2>2, ChainedStep
  <2> QED
    BY <2>1, <2>2
<1>3. ASSUME NEW p \in Proc, Working(p), Slot[s] \in AppendedPaths(job[p])
      PROVE  s \in Chain(disk') \/ \E q \in Proc : Working(q)' /\ Slot[s] \in AppendedPaths(job'[q])
  <2>1. job'[p] = job[p] /\ faults' \in {faults, faults + 1}
    BY <1>3, WorkKeepsPlan
  <2>2. CASE Working(p)'
    BY <1>3, <2>1, <2>2
  <2>3. CASE ~Working(p)'
    <3>1. FinishOperations(p)
      BY <1>1, <1>3, <2>1, <2>3, PlaceStep DEF Working
    <3>2. s \in Chain(disk)
      BY <1>1, <1>3, <3>1, SealedWhenFinished
    <3>3. disk' = disk
      BY <3>1 DEF FinishOperations, files
    <3> QED
      BY <3>2, <3>3
  <2> QED
    BY <2>2, <2>3
<1>4. CASE s \in Taken(disk)
  <2>1. faults = 0
    BY <1>1, WorkKeepsPlan
  <2> QED
    BY <1>2, <1>3, <1>4, <2>1 DEF Chains, Pending
<1>5. CASE s \notin Taken(disk)
  <2>1. PICK p \in Proc : /\ pc[p] = "publishing" /\ Persist(p) /\ aim[p] \in AppendedPaths(job[p])
                          /\ \E t \in DOMAIN Slot : aim[p] = Slot[t] /\ Taken(disk') = Taken(disk) \cup {t}
    BY <1>5, NewMigration
  <2>2. Slot[s] \in AppendedPaths(job[p])
    BY <1>5, <2>1
  <2>3. pc' = pc /\ job' = job
    BY <2>1 DEF Persist
  <2> QED
    BY <2>1, <2>2, <2>3 DEF Working
<1> QED
  BY <1>4, <1>5

(* All of it holds on.                                                     *)
LEMMA ChainsStep ==
  ASSUME EditorPaths \cap (MigrationPaths \cup {LockFile}) = {},
         IInv, AllPlanned, Untouched, Chains, [PNext]_pvars
  PROVE  Chains'
<1>1. Chained(disk')
  BY ChainedStep
<1>2. NoGaps(disk')
  BY NoGapsStep DEF Chains
<1>3. ASSUME NEW q \in Proc, pc'[q] # "idle" PROVE PlannedChained(job'[q])
  BY <1>3, HandedPlan DEF Chains, PlannedChained, Untouched
<1>4. InPlace'
  BY InPlaceStep DEF Chains
<1>5. Pending'
  BY PendingStep
<1> QED
  BY <1>1, <1>2, <1>3, <1>4, <1>5 DEF Chains

SInv == QInv /\ Chains

(* From a project whose migrations are a chain, they stay one: the reader  *)
(* may edit what is managed, but not the migrations or the lock.  What is  *)
(* sealed leads step by step to the accepted schema and no number is left  *)
(* out, wherever runs are cut short; and as long as none is, every derived *)
(* migration that is published is sealed once nobody is at work.           *)
THEOREM MigrationsAreAChain ==
  ASSUME EditorPaths \cap (MigrationPaths \cup {LockFile}) = {}
  PROVE  PSpec /\ SchemaChain => []SchemaChain
<1>1. PInit /\ QInv /\ SchemaChain => SInv
  <2> SUFFICES ASSUME PInit, QInv, SchemaChain PROVE Chains
    BY DEF SInv
  <2>1. faults = 0 /\ \A p \in Proc : pc[p] = "idle"
    BY DEF PInit, Init
  <2>2. Undisturbed
    BY <2>1 DEF Undisturbed, Applying, Admission
  <2> QED
    BY <2>1, <2>2 DEF SchemaChain, Chains, InPlace, LockUnseen, Pending, Admission
<1>2. SInv /\ QInv' /\ [PNext]_pvars => SInv'
  BY ChainsStep DEF SInv, QInv, PInv
<1>3. SInv => SchemaChain
  <2> SUFFICES ASSUME SInv PROVE SchemaChain
    OBVIOUS
  <2>1. ASSUME Undisturbed, NEW s \in Taken(disk) \cap Sealable PROVE s \in Chain(disk)
    BY <2>1 DEF Undisturbed, Applying, Admission, SInv, Chains, Pending, Working
  <2> QED
    BY <2>1 DEF SInv, Chains, SchemaChain
<1>4. PSpec => []QInv
  BY UntouchedInvariant
<1> QED
  BY <1>1, <1>2, <1>3, <1>4, PTL DEF PSpec

-----------------------------------------------------------------------------
(* The merge base and the lock that names it.                              *)
BaseAt(projection, w) ==
  IF w \in DOMAIN BaseTree(projection) THEN BaseTree(projection)[w] ELSE Absent

(* The whole merge base is what the lock says, and nothing else is there.  *)
BaseSettled(tree) == \A w \in BasePaths : tree[w] = BaseAt(AcceptedProjection(tree), w)

(* A managed file that the projection still renders as it was accepted is  *)
(* left as it is.                                                          *)
LEMMA UnchangedVerdict ==
  ASSUME NEW text \in Text, NEW ours \in Text, NEW ejected, NEW restore
  PROVE  Settled(text, ours, text, ejected, restore) = ours
<1>1. text # Absent /\ ours # Absent
  BY ImagesAssumption, AbsentAssumption
<1>2. ~Conflicted(text, ours, text)
  BY DEF Conflicted
<1>3. Merged(text, ours, text) = ours
  BY DEF Merged, Text
<1> QED
  BY <1>1, <1>2, <1>3 DEF Settled, ThreeWay

(* A project whose lock has accepted the model the command is for, which   *)
(* asks for no migration.                                                  *)
Steady(tree, cmd) ==
  /\ tree \in Tree /\ Legible(tree) /\ Intact(tree) /\ BaseSettled(tree)
  /\ IsCommand(cmd) /\ cmd.from = cmd.to /\ cmd.authored = << >> /\ Accepted(tree) = cmd.to
  /\ \A w \in PathsIn(Renders[cmd.to]) : tree[w] # Absent

(* There the accepted projection is the next one, nothing is derived, and  *)
(* every verdict is what is there.                                         *)
LEMMA SteadyVerdicts ==
  ASSUME NEW tree, NEW cmd, Steady(tree, cmd)
  PROVE  /\ tree[LockFile] # Absent /\ Accepted(tree) # Absent
         /\ AcceptedProjection(tree) = Renders[cmd.to]
         /\ OldArtifacts(tree) = DOMAIN Renders[cmd.to] /\ Artifacts(tree, cmd) = DOMAIN Renders[cmd.to]
         /\ <<Accepted(tree), cmd.to>> \in DOMAIN Derives /\ Drafted(tree, cmd) = << >>
         /\ \A a \in DOMAIN Renders[cmd.to] :
              /\ LivePath(tree, cmd.to, a) = Renders[cmd.to][a].path
              /\ OutputPath(tree, cmd.to, a) = Renders[cmd.to][a].path
              /\ Verdict(tree, cmd, a) = tree[Renders[cmd.to][a].path]
              /\ tree[Renders[cmd.to][a].path] \in Text
<1> DEFINE next == Renders[cmd.to]
<1>1. cmd.to \in Model /\ cmd.to # Absent
  BY ImagesAssumption, AbsentAssumption DEF Steady, IsCommand
<1>2. tree[LockFile] # Absent /\ Accepted(tree) = cmd.to
  BY <1>1 DEF Steady, Accepted
<1>3. AcceptedProjection(tree) = next
  BY <1>2, LegibleAccepts DEF Steady
<1>4. <<Accepted(tree), cmd.to>> \in DOMAIN Derives /\ Drafted(tree, cmd) = << >>
  <2>1. <<Accepted(tree), cmd.to>> \in DOMAIN Derives /\ Derived(tree, cmd) = << >>
    BY <1>1, <1>2, DerivesAssumption DEF Derived
  <2>2. << >> \o << >> = << >>
    OBVIOUS
  <2> QED
    BY <2>1, <2>2 DEF Drafted, Steady
<1>5. ASSUME NEW a \in DOMAIN next
      PROVE  /\ LivePath(tree, cmd.to, a) = next[a].path
             /\ OutputPath(tree, cmd.to, a) = next[a].path
             /\ Verdict(tree, cmd, a) = tree[next[a].path]
             /\ tree[next[a].path] \in Text
  <2>1. LivePath(tree, cmd.to, a) = next[a].path /\ OutputPath(tree, cmd.to, a) = next[a].path
    BY <1>3, <1>5 DEF LivePath, OutputPath, OldArtifacts
  <2>2. next[a].text \in Text /\ next[a].path \in DOMAIN BaseOf
    BY <1>1, <1>5, RendersAssumption
  <2>3. next[a].path \in PathsIn(next)
    BY <1>5 DEF PathsIn
  <2>4. tree[next[a].path] \in Text
    BY <2>2, <2>3 DEF Steady, Legible
  <2>5. TextIn(AcceptedProjection(tree), a) = next[a].text /\ TextIn(next, a) = next[a].text
    BY <1>3, <1>5 DEF TextIn
  <2> QED
    BY <2>1, <2>2, <2>4, <2>5, UnchangedVerdict DEF Verdict
<1>6. OldArtifacts(tree) = DOMAIN next /\ Artifacts(tree, cmd) = DOMAIN next
  BY <1>3 DEF OldArtifacts, Artifacts
<1> QED
  BY <1>1, <1>2, <1>3, <1>4, <1>5, <1>6

(* So the plan is not refused.                                             *)
LEMMA SteadyIsPlanned ==
  ASSUME NEW tree, NEW cmd, Steady(tree, cmd)
  PROVE  ~PlanRefused(tree, cmd)
<1> DEFINE next == Renders[cmd.to]
<1>1. /\ Accepted(tree) # Absent /\ AcceptedProjection(tree) = next
      /\ OldArtifacts(tree) = DOMAIN next /\ Artifacts(tree, cmd) = DOMAIN next
      /\ <<Accepted(tree), cmd.to>> \in DOMAIN Derives /\ Drafted(tree, cmd) = << >>
      /\ \A a \in DOMAIN next :
           /\ LivePath(tree, cmd.to, a) = OutputPath(tree, cmd.to, a)
           /\ Verdict(tree, cmd, a) \in Text
  BY SteadyVerdicts
<1>2. BaseIntact(tree)
  <2>1. DOMAIN BaseTree(next) \subseteq BasePaths
    BY RendersAssumption, BaseTyped DEF IsProjection, PartialFunction, Steady, IsCommand
  <2> QED
    BY <1>1, <2>1 DEF BaseIntact, Steady, BaseSettled, BaseAt
<1>3. MovedOnto(tree, cmd) = {}
  BY <1>1 DEF MovedOnto
<1>4. \A a \in Artifacts(tree, cmd) : Verdict(tree, cmd, a) # Refused
  BY <1>1, ImagesAssumption, AbsentAssumption
<1> QED
  BY <1>1, <1>2, <1>3, <1>4 DEF PlanRefused

(* And it has no operation.                                                *)
LEMMA SteadyIsEmpty ==
  ASSUME NEW tree, NEW cmd, Steady(tree, cmd)
  PROVE  Operations(tree, cmd) = << >>
<1> DEFINE next == Renders[cmd.to]
<1>1. /\ tree[LockFile] # Absent /\ AcceptedProjection(tree) = next
      /\ OldArtifacts(tree) = DOMAIN next /\ Artifacts(tree, cmd) = DOMAIN next
      /\ Drafted(tree, cmd) = << >>
      /\ \A a \in DOMAIN next :
           /\ LivePath(tree, cmd.to, a) = next[a].path
           /\ OutputPath(tree, cmd.to, a) = next[a].path
           /\ Verdict(tree, cmd, a) = tree[next[a].path]
           /\ tree[next[a].path] \in Text
  BY SteadyVerdicts
<1>2. PublishManaged(tree, cmd) = << >>
  <2> DEFINE same == [w \in PathsIn(next) |-> tree[w]]
  <2>1. OldArtifacts(tree) \ Ejects[cmd.to] = DOMAIN next
    BY <1>1, RendersAssumption DEF Steady, IsCommand
  <2>2. {v \in {LivePath(tree, cmd.to, a) : a \in OldArtifacts(tree) \ Ejects[cmd.to]} : tree[v] # Absent}
          = PathsIn(next)
    BY <1>1, <2>1 DEF PathsIn, Steady
  <2>3. TreeBefore(tree, cmd) = same
    BY <2>2 DEF TreeBefore
  <2> DEFINE stays == {a \in Artifacts(tree, cmd) : Verdict(tree, cmd, a) # Absent}
  <2>4. stays = DOMAIN next
    BY <1>1, ImagesAssumption, AbsentAssumption
  <2>5. TreeAfter(tree, cmd) =
          [w \in {OutputPath(tree, cmd.to, a) : a \in DOMAIN next} |->
             Verdict(tree, cmd, CHOOSE a \in DOMAIN next : OutputPath(tree, cmd.to, a) = w)]
    <3>1. TreeAfter(tree, cmd) =
            [w \in {OutputPath(tree, cmd.to, a) : a \in stays} |->
               Verdict(tree, cmd, CHOOSE a \in stays : OutputPath(tree, cmd.to, a) = w)]
      BY DEF TreeAfter
    <3> HIDE DEF stays
    <3> QED
      BY <2>4, <3>1
  <2>6. {OutputPath(tree, cmd.to, a) : a \in DOMAIN next} = PathsIn(next)
    BY <1>1 DEF PathsIn
  <2>7. ASSUME NEW w \in PathsIn(next)
        PROVE  Verdict(tree, cmd, CHOOSE a \in DOMAIN next : OutputPath(tree, cmd.to, a) = w) = tree[w]
    <3>1. \E a \in DOMAIN next : OutputPath(tree, cmd.to, a) = w
      BY <2>6
    <3> QED
      BY <1>1, <3>1
  <2>8. TreeAfter(tree, cmd) = same
    BY <2>5, <2>6, <2>7
  <2> QED
    BY <2>3, <2>8 DEF PublishManaged, When
<1>3. PublishBase(tree, cmd) = << >>
  BY <1>1 DEF PublishBase, When
<1>4. RetireStrays(tree, cmd) = << >>
  <2>1. {w \in BasePaths \ (DOMAIN BaseTree(next) \cup DOMAIN BaseTree(next)) : tree[w] # Absent} = {}
    BY <1>1 DEF Steady, BaseSettled, BaseAt
  <2> QED
    BY <1>1, <2>1 DEF RetireStrays, When
<1>5. DOMAIN Drafted(tree, cmd) = {}
  BY <1>1
<1>6. Appends(tree, cmd) = << >>
  <2>1. Appends(tree, cmd) \in [1 .. 0 -> {}]
    BY <1>5 DEF Appends
  <2>2. Appends(tree, cmd) \in Seq({}) /\ Len(Appends(tree, cmd)) = 0
    BY <1>5, <2>1, SeqDef DEF Appends
  <2> QED
    BY <2>2, EmptySeq
<1>7. SealedAfter(tree, cmd) = Sealed(tree) /\ tree[LockFile] = LockAfter(tree, cmd)
  <2>1. PICK m \in Model, slots \in SUBSET Sealable : tree[LockFile] = LockOf(m, slots)
    BY <1>1 DEF Steady, Legible, Locks
  <2>2. m = cmd.to
    BY <1>1, <2>1, LockSays, SealableAreSlots DEF Steady, Accepted
  <2>3. Sealed(tree) = [w \in {Slot[s] : s \in slots} |-> (CHOOSE s \in slots : Slot[s] = w)[2]]
    BY <1>1, <2>1 DEF Sealed, LockOf
  <2>4. SealedAfter(tree, cmd) = [w \in DOMAIN Sealed(tree) |-> Sealed(tree)[w]]
    <3>1. Allotments(tree, cmd) \cap Sealable = {}
      BY <1>5 DEF Allotments
    <3> QED
      BY <3>1 DEF SealedAfter
  <2>5. SealedAfter(tree, cmd) = Sealed(tree)
    BY <2>3, <2>4
  <2> QED
    BY <1>1, <2>1, <2>2, <2>5 DEF LockAfter, LockOf, Sealed
<1>8. RestoreSealed(tree, cmd) = << >>
  <2>1. Restored(tree, cmd) = {}
    BY <1>7 DEF Restored, Steady, Intact
  <2> QED
    BY <2>1 DEF RestoreSealed, When
<1>9. ReplaceModel(tree, cmd) = << >> /\ ReplaceLock(tree, cmd) = << >>
  BY <1>7 DEF Steady, ReplaceModel, ReplaceLock, When, LockAfter
<1> QED
  BY <1>2, <1>3, <1>4, <1>6, <1>8, <1>9 DEF Operations

-----------------------------------------------------------------------------
(* What nobody but jails changes, from the plan on.                        *)
BaseUnseen(p) == pc[p] \in Admission => foreign[p] \cap BasePaths = {}

(* A lock that was there for the plan is there.                            *)
LockLasts ==
  \A p \in Proc : pc[p] # "idle" => (job[p].base[LockFile] # Absent => disk[LockFile] # Absent)

(* The merge base as a run at work finds and leaves it: at each path what  *)
(* the plan was made over, or what it leads to.                            *)
BaseOldOrNew(p) ==
  \A tree, d, cmd : Plannable(tree, cmd) /\ job[p] = Materialized(tree, d, cmd) =>
    \A w \in BasePaths :
      disk[w] \in {BaseAt(AcceptedProjection(tree), w), BaseAt(Renders[cmd.to], w)}

(* As long as no run was cut short, the merge base is settled, but for the *)
(* run that is at work.                                                    *)
BaseKept ==
  faults = 0 =>
    /\ (\A p \in Proc : ~Working(p)) => BaseSettled(disk)
    /\ \A p \in Proc : Working(p) => BaseOldOrNew(p)

Bases ==
  /\ InPlace
  /\ \A p \in Proc : BaseUnseen(p)
  /\ LockLasts
  /\ BaseKept

(* A plan captures the lock.                                               *)
LEMMA LockCaptured ==
  ASSUME NEW tree, NEW d, NEW cmd
  PROVE  /\ LockFile \in DOMAIN Materialized(tree, d, cmd).base
         /\ Materialized(tree, d, cmd).base[LockFile] = tree[LockFile]
  BY DEF Materialized, Observed

(* A lock is never taken away.                                             *)
LEMMA LockLastsStep ==
  ASSUME EditorPaths \cap {LockFile} = {}, IInv, AllPlanned, Bases, [PNext]_pvars
  PROVE  LockLasts'
<1>1. disk[LockFile] # Absent => disk'[LockFile] # Absent
  <2>1. CASE disk'[LockFile] = disk[LockFile]
    BY <2>1
  <2>2. CASE disk'[LockFile] # disk[LockFile]
    <3>1. PICK p \in Proc :
            /\ pc[p] = "publishing"
            /\ \A tree, d, cmd : Plannable(tree, cmd) /\ job[p] = Materialized(tree, d, cmd) =>
                 disk'[LockFile] = LockAfter(tree, cmd)
      BY <2>2, LockMoves DEF Bases
    <3>2. PICK tree, d, cmd : Plannable(tree, cmd) /\ job[p] = Materialized(tree, d, cmd)
      BY <3>1 DEF AllPlanned, Planned
    <3> QED
      BY <3>1, <3>2, LockAfterTyped, AbsentAssumption
  <2> QED
    BY <2>1, <2>2
<1>2. ASSUME NEW q \in Proc, pc'[q] # "idle", job'[q].base[LockFile] # Absent
      PROVE  disk'[LockFile] # Absent
  <2>1. CASE pc[q] # "idle" /\ job'[q] = job[q]
    BY <1>1, <1>2, <2>1 DEF Bases, LockLasts
  <2>2. ASSUME NEW cmd, job'[q] = Materialized(disk, debris, cmd) PROVE disk'[LockFile] # Absent
    BY <1>1, <1>2, <2>2, LockCaptured
  <2> QED
    BY <1>2, <2>1, <2>2, HandedPlan
<1> QED
  BY <1>2 DEF LockLasts

(* An admitted run finds the lock its plan was made over, or the plan's.   *)
LEMMA LockOldOrNew ==
  ASSUME AllPlanned, LockLasts, NEW p \in Proc, pc[p] # "idle", PathAdmitted(disk, job[p], LockFile),
         NEW tree, NEW d, NEW cmd, Plannable(tree, cmd), job[p] = Materialized(tree, d, cmd)
  PROVE  disk[LockFile] \in {tree[LockFile], LockAfter(tree, cmd)}
<1> DEFINE b == job[p]
<1>1. LockFile \in DOMAIN b.base /\ b.base[LockFile] = tree[LockFile]
  BY LockCaptured
<1>2. LockFile \in DesiredPaths(b) => Desired(b, LockFile) = LockAfter(tree, cmd)
  BY MaterializedIsFit, TargetTyped
<1>3. LockFile \notin RemovedPaths(b)
  <2>1. LockFile \in RemovedPaths(b) => Target(tree, cmd, LockFile) = Absent
    BY MaterializedIsFit
  <2> QED
    BY <2>1, TargetTyped, LockAfterTyped, AbsentAssumption
<1>4. disk[LockFile] = tree[LockFile] \/ disk[LockFile] = Desired(b, LockFile)
  BY <1>1, <1>3 DEF PathAdmitted, FileAdmitted
<1>5. CASE LockFile \notin DesiredPaths(b) /\ disk[LockFile] = Desired(b, LockFile)
  <2>1. disk[LockFile] = Absent
    BY <1>5 DEF Desired
  <2>2. tree[LockFile] = Absent
    BY <1>1, <2>1 DEF LockLasts
  <2> QED
    BY <2>1, <2>2
<1> QED
  BY <1>2, <1>4, <1>5

(* What the two locks say about the merge base.                            *)
LEMMA BaseOfLock ==
  ASSUME NEW tree, NEW before, NEW cmd, tree[LockFile] \in {before[LockFile], LockAfter(before, cmd)},
         Plannable(before, cmd)
  PROVE  /\ AcceptedProjection(tree) \in {AcceptedProjection(before), Renders[cmd.to]}
         /\ tree[LockFile] = LockAfter(before, cmd) => AcceptedProjection(tree) = Renders[cmd.to]
<1>1. LockAfter(before, cmd) # Absent /\ LockAfter(before, cmd).projection = Renders[cmd.to]
  BY LockAfterTyped, AbsentAssumption DEF LockAfter
<1> QED
  BY <1>1 DEF AcceptedProjection

(* A base file changes to what the plan at work leads to.                  *)
LEMMA BaseChanges ==
  ASSUME EditorPaths \cap BasePaths = {}, IInv, AllPlanned, [PNext]_pvars,
         NEW w \in BasePaths, disk'[w] # disk[w]
  PROVE  \E p \in Proc :
           /\ holder = p /\ pc[p] = "publishing"
           /\ \A tree, d, cmd : Plannable(tree, cmd) /\ job[p] = Materialized(tree, d, cmd) =>
                disk'[w] = BaseAt(Renders[cmd.to], w)
<1>1. w \in Path /\ w \notin EditorPaths /\ w \notin DOMAIN BaseOf
  BY PathsAssumption
<1>2. PICK p \in Proc : /\ holder = p /\ pc[p] = "publishing"
                        /\ ((aim[p] = w /\ Persist(p)) \/ RemoveRetired(p, w))
  BY <1>1, ChangedPath
<1>3. ASSUME NEW tree, NEW d, NEW cmd, Plannable(tree, cmd), job[p] = Materialized(tree, d, cmd)
      PROVE  disk'[w] = BaseAt(Renders[cmd.to], w)
  <2>1. Target(tree, cmd, w) = BaseAt(Renders[cmd.to], w)
    BY <1>1 DEF Target, BaseAt
  <2>2. /\ disk'[w] = Absent \/ disk'[w] = Target(tree, cmd, w)
        /\ Persist(p) => disk'[w] = Target(tree, cmd, w)
        /\ RemoveRetired(p, w) => w \in RemovedPaths(job[p])
    BY <1>1, <1>2, <1>3, RunsLeadToTarget
  <2>3. w \in RemovedPaths(job[p]) => Target(tree, cmd, w) = Absent
    BY <1>3, MaterializedIsFit
  <2> QED
    BY <1>2, <2>1, <2>2, <2>3
<1> QED
  BY <1>2, <1>3

(* What a plan does not touch of the merge base stays as it is settled.    *)
LEMMA BaseUntouched ==
  ASSUME NEW tree, NEW d, NEW cmd, Plannable(tree, cmd), NEW w \in BasePaths,
         w \notin TouchedPaths(Materialized(tree, d, cmd))
  PROVE  BaseAt(AcceptedProjection(tree), w) = BaseAt(Renders[cmd.to], w)
<1> DEFINE b == Materialized(tree, d, cmd)
           old == BaseTree(AcceptedProjection(tree))
           new == BaseTree(Renders[cmd.to])
           op == [kind |-> "tree", before |-> old, after |-> new]
<1>1. CASE old = new
  BY <1>1 DEF BaseAt
<1>2. CASE old # new
  <2>1. PublishBase(tree, cmd) = <<op>>
    BY <1>2 DEF PublishBase, When
  <2>2. op \in Entries(PublishBase(tree, cmd))
    <3>1. 1 \in DOMAIN <<op>> /\ <<op>>[1] = op
      OBVIOUS
    <3> HIDE DEF op
    <3> QED
      BY <2>1, <3>1 DEF Entries
  <2>3. op \in Entries(Operations(tree, cmd))
    BY <2>2, SequenceOfMoves DEF Moves, FrontMoves
  <2>4. PICK i \in DOMAIN b.ops : b.ops[i] = op
    BY <2>3 DEF Entries, Materialized
  <2>5. b.ops[i].kind = "tree" /\ b.ops[i].before = old /\ b.ops[i].after = new
    BY <2>4
  <2> HIDE DEF b, op, old, new
  <2>6. Written(b.ops[i]) \subseteq DesiredPaths(b) /\ Retired(b.ops[i]) \subseteq RemovedPaths(b)
    BY <2>5 DEF DesiredPaths, RemovedPaths
  <2>7. w \notin Written(b.ops[i]) \cup Retired(b.ops[i])
    BY <2>6 DEF TouchedPaths, b
  <2>8. w \notin DOMAIN old /\ w \notin DOMAIN new
    BY <2>5, <2>7 DEF Written, Retired
  <2> QED
    BY <2>8 DEF BaseAt, old, new
<1> QED
  BY <1>1, <1>2

(* What a run that comes to the end of its operations has touched holds    *)
(* what the plan leaves there.                                             *)
LEMMA TouchedWhenFinished ==
  ASSUME IInv, NEW p \in Proc, FinishOperations(p), at[p] > 0,
         NEW w \in Path, w \in TouchedPaths(job[p]), w \notin foreign[p]
  PROVE  disk[w] = Desired(job[p], w)
<1> DEFINE b == job[p]
<1>1. pc[p] = "publishing" /\ at[p] \notin DOMAIN b.ops /\ at[p] > 0 /\ at[p] \in Nat
  BY DEF FinishOperations, IInv, Typed
<1>2. DOMAIN b.ops = 1 .. Len(b.ops) /\ Len(b.ops) \in Nat
  BY <1>1 DEF IInv, Staging, Fit, IsBundle
<1>3. PICK i \in DOMAIN b.ops : w \in Touched(b.ops[i])
  BY DEF TouchedPaths, DesiredPaths, RemovedPaths, Touched
<1>4. i < at[p]
  BY <1>1, <1>2, <1>3
<1>5. Behind(p, w)
  BY <1>1, <1>2, <1>3, <1>4 DEF Behind
<1> QED
  BY <1>1, <1>5 DEF IInv, InOrder

(* When it gets there, the merge base is settled again.                    *)
LEMMA BaseWhenFinished ==
  ASSUME IInv, AllPlanned, Bases, faults = 0, NEW p \in Proc, FinishOperations(p)
  PROVE  BaseSettled(disk)
<1> DEFINE b == job[p]
<1>1. pc[p] = "publishing"
  BY DEF FinishOperations
<1>2. PICK tree, d, cmd : Plannable(tree, cmd) /\ b = Materialized(tree, d, cmd)
  BY <1>1 DEF AllPlanned, Planned
<1>3. at[p] > 0
  BY <1>1 DEF Bases, InPlace
<1>4. LockFile \notin foreign[p] /\ foreign[p] \cap BasePaths = {} /\ LockFile \in Path /\ BasePaths \subseteq Path
  BY <1>1, PathsAssumption DEF Bases, InPlace, LockUnseen, BaseUnseen, Admission
<1>5. disk[LockFile] \in {tree[LockFile], LockAfter(tree, cmd)}
  <2>1. PathAdmitted(disk, b, LockFile)
    BY <1>4 DEF IInv, Admissible
  <2> QED
    BY <1>1, <1>2, <2>1, LockOldOrNew DEF Bases
<1>6. disk[LockFile] = LockAfter(tree, cmd)
  <2>1. CASE tree[LockFile] = LockAfter(tree, cmd)
    BY <1>5, <2>1
  <2>2. CASE tree[LockFile] # LockAfter(tree, cmd)
    <3>1. Len(b.ops) \in DOMAIN b.ops /\ Written(b.ops[Len(b.ops)]) = {LockFile}
      BY <1>2, <2>2, MarkedByLock
    <3>2. LockFile \in DesiredPaths(b)
      BY <3>1 DEF DesiredPaths
    <3>3. disk[LockFile] = Desired(b, LockFile)
      BY <1>3, <1>4, <3>2, TouchedWhenFinished DEF TouchedPaths
    <3> QED
      BY <1>2, <3>2, <3>3, MaterializedIsFit, TargetTyped
  <2> QED
    BY <2>1, <2>2
<1>7. AcceptedProjection(disk) = Renders[cmd.to]
  BY <1>2, <1>5, <1>6, BaseOfLock
<1>8. ASSUME NEW w \in BasePaths PROVE disk[w] = BaseAt(Renders[cmd.to], w)
  <2>1. w \in Path /\ w \notin foreign[p] /\ w \notin DOMAIN BaseOf
    BY <1>4, PathsAssumption
  <2>2. Target(tree, cmd, w) = BaseAt(Renders[cmd.to], w)
    BY <2>1 DEF Target, BaseAt
  <2>3. CASE w \in TouchedPaths(b)
    <3>1. disk[w] = Desired(b, w)
      BY <1>3, <2>1, <2>3, TouchedWhenFinished
    <3>2. CASE w \in DesiredPaths(b)
      BY <1>2, <2>2, <3>1, <3>2, MaterializedIsFit
    <3>3. CASE w \notin DesiredPaths(b)
      <4>1. Desired(b, w) = Absent /\ w \in RemovedPaths(b)
        BY <2>3, <3>3 DEF Desired, TouchedPaths
      <4>2. Target(tree, cmd, w) = Absent
        BY <1>2, <4>1, MaterializedIsFit
      <4> QED
        BY <2>2, <3>1, <4>1, <4>2
    <3> QED
      BY <3>2, <3>3
  <2>4. CASE w \notin TouchedPaths(b)
    <3>1. BaseAt(AcceptedProjection(tree), w) = BaseAt(Renders[cmd.to], w)
      BY <1>2, <2>4, BaseUntouched
    <3>2. Working(p)
      BY <1>1 DEF Working
    <3>3. disk[w] \in {BaseAt(AcceptedProjection(tree), w), BaseAt(Renders[cmd.to], w)}
      BY <1>2, <3>2 DEF Bases, BaseKept, BaseOldOrNew
    <3> QED
      BY <3>1, <3>3
  <2> QED
    BY <2>3, <2>4
<1> QED
  BY <1>7, <1>8 DEF BaseSettled

(* Who is at work holds the lock, and so nobody else is.                   *)
LEMMA OneAtWork ==
  ASSUME OneWriter, NEW p \in Proc, NEW q \in Proc, Working(q), holder = p
  PROVE  p = q
  BY DEF OneWriter, Working, Holding

(* A run that starts to work finds the merge base it was made over, or     *)
(* that its plan leads to.                                                 *)
LEMMA BaseWhenAdmitted ==
  ASSUME IInv, AllPlanned, Bases, faults = 0, NEW q \in Proc, Admit(q)
  PROVE  BaseOldOrNew(q)
<1>1. pc[q] = "checking" /\ Admitted(disk, debris, job[q])
  BY DEF Admit
<1>2. \A p \in Proc : ~Working(p)
  <2>1. holder = q /\ ~Working(q)
    BY <1>1 DEF IInv, OneWriter, Holding, Working
  <2> QED
    BY <2>1, OneAtWork DEF IInv
<1>3. BaseSettled(disk)
  BY <1>2 DEF Bases, BaseKept
<1>4. PathAdmitted(disk, job[q], LockFile)
  BY <1>1, AdmittedPaths, PathsAssumption
<1>5. ASSUME NEW tree, NEW d, NEW cmd, Plannable(tree, cmd), job[q] = Materialized(tree, d, cmd), NEW w \in BasePaths
      PROVE  disk[w] \in {BaseAt(AcceptedProjection(tree), w), BaseAt(Renders[cmd.to], w)}
  <2>1. disk[LockFile] \in {tree[LockFile], LockAfter(tree, cmd)}
    BY <1>1, <1>4, <1>5, LockOldOrNew DEF Bases
  <2>2. AcceptedProjection(disk) \in {AcceptedProjection(tree), Renders[cmd.to]}
    BY <1>5, <2>1, BaseOfLock
  <2> QED
    BY <1>3, <2>2 DEF BaseSettled
<1> QED
  BY <1>5 DEF BaseOldOrNew

(* Only the run at work changes the merge base or the lock.                *)
LEMMA BaseKeptStep ==
  ASSUME EditorPaths \cap (BasePaths \cup {LockFile}) = {}, IInv, AllPlanned, Bases, [PNext]_pvars
  PROVE  BaseKept'
<1> SUFFICES ASSUME faults' = 0
             PROVE  /\ (\A p \in Proc : ~Working(p)') => BaseSettled(disk')
                    /\ \A p \in Proc : Working(p)' => BaseOldOrNew(p)'
  BY DEF BaseKept
<1>1. faults \in Nat /\ faults' \in {faults, faults + 1}
  BY WorkKeepsPlan, BoundsAssumption DEF IInv, Typed
<1>2. faults = 0
  BY <1>1
<1>3. ASSUME NEW q \in Proc, Working(q)' PROVE BaseOldOrNew(q)'
  <2>1. CASE Working(q)
    <3>1. job'[q] = job[q] /\ BaseOldOrNew(q)
      BY <1>2, <2>1, WorkKeepsPlan DEF Bases, BaseKept
    <3>2. ASSUME NEW tree, NEW d, NEW cmd, Plannable(tree, cmd), job'[q] = Materialized(tree, d, cmd), NEW w \in BasePaths
          PROVE  disk'[w] \in {BaseAt(AcceptedProjection(tree), w), BaseAt(Renders[cmd.to], w)}
      <4>1. CASE disk'[w] = disk[w]
        BY <3>1, <3>2, <4>1 DEF BaseOldOrNew
      <4>2. CASE disk'[w] # disk[w]
        <5>1. PICK p \in Proc :
                /\ holder = p
                /\ job[p] = Materialized(tree, d, cmd) => disk'[w] = BaseAt(Renders[cmd.to], w)
          BY <3>2, <4>2, BaseChanges
        <5>2. p = q
          BY <2>1, <5>1, OneAtWork DEF IInv
        <5> QED
          BY <3>1, <3>2, <5>1, <5>2
      <4> QED
        BY <4>1, <4>2
    <3> QED
      BY <3>2 DEF BaseOldOrNew
  <2>2. CASE ~Working(q)
    <3>1. Admit(q)
      BY <1>3, <2>2, PlaceStep DEF Working
    <3>2. BaseOldOrNew(q) /\ disk' = disk /\ job' = job
      BY <1>2, <3>1, BaseWhenAdmitted DEF Admit, files
    <3> QED
      BY <3>2 DEF BaseOldOrNew
  <2> QED
    BY <2>1, <2>2
<1>4. ASSUME \A p \in Proc : ~Working(p)' PROVE BaseSettled(disk')
  <2>1. ASSUME NEW p \in Proc, Working(p) PROVE BaseSettled(disk')
    <3>1. FinishOperations(p)
      BY <1>1, <1>2, <1>4, <2>1, PlaceStep DEF Working
    <3>2. BaseSettled(disk) /\ disk' = disk
      BY <1>2, <3>1, BaseWhenFinished DEF FinishOperations, files
    <3> QED
      BY <3>2
  <2>2. CASE \A p \in Proc : ~Working(p)
    <3>1. \A p \in Proc : pc[p] # "publishing"
      BY <2>2 DEF Working
    <3>2. disk'[LockFile] = disk[LockFile]
      BY <3>1, LockMoves DEF Bases
    <3>3. \A w \in BasePaths : disk'[w] = disk[w]
      BY <3>1, BaseChanges
    <3>4. AcceptedProjection(disk') = AcceptedProjection(disk)
      BY <3>2 DEF AcceptedProjection
    <3>5. BaseSettled(disk)
      BY <1>2, <2>2 DEF Bases, BaseKept
    <3> QED
      BY <3>3, <3>4, <3>5 DEF BaseSettled
  <2> QED
    BY <2>1, <2>2
<1> QED
  BY <1>3, <1>4

BInv == QInv /\ Bases

(* From a project whose merge base is the one its lock names, and as long  *)
(* as the reader leaves the merge base, the migrations and the lock alone, *)
(* a `sync` between commands none of which was cut short is never refused  *)
(* and has nothing to do, whatever was planned and applied in whatever     *)
(* order and whatever the reader typed into the managed files.             *)
THEOREM SyncIsSettled ==
  ASSUME EditorPaths \cap (BasePaths \cup MigrationPaths \cup {LockFile}) = {}
  PROVE  PSpec /\ BaseSettled(disk) => []SyncHasNothingToDo
<1>1. PInit /\ QInv /\ BaseSettled(disk) => BInv
  <2> SUFFICES ASSUME PInit, QInv, BaseSettled(disk) PROVE Bases
    BY DEF BInv
  <2>1. faults = 0 /\ \A p \in Proc : pc[p] = "idle"
    BY DEF PInit, Init
  <2> QED
    BY <2>1 DEF Bases, InPlace, LockUnseen, BaseUnseen, LockLasts, BaseKept, Working, Admission
<1>2. BInv /\ QInv' /\ [PNext]_pvars => BInv'
  <2> SUFFICES ASSUME IInv, AllPlanned, Bases, [PNext]_pvars PROVE Bases'
    BY DEF BInv, QInv, PInv
  <2>1. InPlace'
    BY InPlaceStep DEF Bases
  <2>2. LockLasts'
    BY LockLastsStep
  <2>3. BaseKept'
    BY BaseKeptStep
  <2>4. ASSUME NEW q \in Proc, pc'[q] \in Admission PROVE foreign'[q] \cap BasePaths = {}
    BY <2>4, ForeignStays DEF Bases, BaseUnseen
  <2> QED
    BY <2>1, <2>2, <2>3, <2>4 DEF Bases, BaseUnseen
<1>3. BInv => SyncHasNothingToDo
  <2> SUFFICES ASSUME BInv, NEW cmd \in Commands, Undisturbed, cmd.from = cmd.to, cmd.authored = << >>,
                      Accepted(disk) = cmd.to,
                      \A w \in PathsIn(Renders[cmd.to]) : disk[w] # Absent
               PROVE  ~PlanRefused(disk, cmd) /\ Operations(disk, cmd) = << >>
    BY DEF SyncHasNothingToDo
  <2>1. BaseSettled(disk)
    BY DEF Undisturbed, Applying, Admission, Working, BInv, Bases, BaseKept
  <2>2. Steady(disk, cmd)
    BY <2>1, CommandsAssumption DEF Steady, BInv, QInv, PInv, IInv, Typed, AllPlanned, Untouched
  <2> QED
    BY <2>2, SteadyIsPlanned, SteadyIsEmpty
<1>4. PSpec => []QInv
  BY UntouchedInvariant
<1> QED
  BY <1>1, <1>2, <1>3, <1>4, PTL DEF PSpec

-----------------------------------------------------------------------------
(* What the reader typed.  Every managed path is one artifact's, whatever  *)
(* model is declared, no model renders what the reader types, and no       *)
(* command is run with the consent that lets an edited leftover go.        *)
Rendered == UNION {DOMAIN Renders[m] : m \in Model}

OnePlaceEach ==
  /\ \A w \in DOMAIN BaseOf : \E a \in Rendered : w \in Places(a)
  /\ \A a, b \in Rendered : Places(a) \cap Places(b) # {} => a = b

NeverRendered == \A m \in Model : \A a \in DOMAIN Renders[m] : \A r \in Region : Renders[m][a].text[r] # Mine

NoConsent == \A cmd \in Commands : cmd.restore # "EditedAndRemoved"

Bears(c, r) == c # Absent /\ c[r] = Mine

BearsAfter(b, w, r) == w \in DesiredPaths(b) /\ Bears(Desired(b, w), r)

(* Where an artifact is rendered is a place of its own.                    *)
LEMMA PlacesOfArtifact ==
  ASSUME NEW tree, NEW cmd, Plannable(tree, cmd), NEW a \in Artifacts(tree, cmd)
  PROVE  /\ a \in Rendered
         /\ LivePath(tree, cmd.to, a) \in Places(a) /\ OutputPath(tree, cmd.to, a) \in Places(a)
<1>1. cmd.to \in Model /\ Readable(tree)
  BY DEF Plannable, IsCommand
<1>2. ASSUME NEW m \in Model, a \in DOMAIN Renders[m] PROVE a \in Rendered /\ Renders[m][a].path \in Places(a)
  BY <1>2 DEF Rendered, Places
<1>3. ASSUME a \in OldArtifacts(tree)
      PROVE  /\ a \in Rendered /\ AcceptedProjection(tree)[a].path \in Places(a)
  <2>1. tree[LockFile] # Absent
    BY <1>3 DEF OldArtifacts, AcceptedProjection
  <2>2. /\ Accepted(tree) \in Model /\ a \in DOMAIN Renders[Accepted(tree)]
        /\ AcceptedProjection(tree)[a].path = Renders[Accepted(tree)][a].path
    BY <1>1, <1>3, <2>1, AcceptedTyped DEF OldArtifacts
  <2> QED
    BY <1>2, <2>2
<1>4. a \in OldArtifacts(tree) \/ a \in DOMAIN Renders[cmd.to]
  BY DEF Artifacts
<1> QED
  BY <1>1, <1>2, <1>3, <1>4 DEF LivePath, OutputPath

(* An edited region outlives the plan: what becomes of the file still has  *)
(* it, unless the artifact is ejected and the file the reader's own.       *)
LEMMA VerdictBears ==
  ASSUME NeverRendered, NEW tree, NEW cmd, Plannable(tree, cmd), Legible(tree), cmd.restore # "EditedAndRemoved",
         NEW a \in OldArtifacts(tree) \ Ejects[cmd.to], NEW r \in Region,
         Bears(tree[LivePath(tree, cmd.to, a)], r)
  PROVE  Bears(Verdict(tree, cmd, a), r)
<1> DEFINE ours == tree[LivePath(tree, cmd.to, a)]
           text == TextIn(AcceptedProjection(tree), a)
           theirs == TextIn(Renders[cmd.to], a)
<1>1. /\ Readable(tree) /\ IsCommand(cmd) /\ cmd.to \in Model /\ a \in Artifacts(tree, cmd)
      /\ Verdict(tree, cmd, a) # Refused
  BY DEF Plannable, PlanRefused, Artifacts, IsCommand
<1>2. ours \in Text /\ ours # Absent /\ ours[r] = Mine
  BY <1>1, VerdictTyped DEF Bears, Readable
<1>3. text \in Text /\ text[r] # Mine
  <2>1. tree[LockFile] # Absent
    BY DEF OldArtifacts, AcceptedProjection
  <2>2. Accepted(tree) \in Model /\ AcceptedProjection(tree) = Renders[Accepted(tree)]
    BY <2>1, LegibleAccepts
  <2> QED
    BY <2>2, RendersAssumption DEF OldArtifacts, TextIn, NeverRendered
<1>4. text # Absent /\ Absent \notin Text
  BY <1>3, ImagesAssumption, AbsentAssumption
<1>5. CASE a \in DOMAIN Renders[cmd.to]
  <2>1. theirs \in Text
    BY <1>1, <1>5, RendersAssumption DEF TextIn
  <2>2. Verdict(tree, cmd, a) = ThreeWay(text, ours, theirs)
    BY <1>2, <1>4, <2>1 DEF Verdict, Settled
  <2>3. Verdict(tree, cmd, a) = Merged(text, ours, theirs)
    BY <1>1, <2>2 DEF ThreeWay
  <2>4. Verdict(tree, cmd, a) \in Text /\ Verdict(tree, cmd, a)[r] = Mine
    BY <1>2, <1>3, <2>1, <2>3 DEF Merged, Text
  <2> QED
    BY <1>4, <2>4 DEF Bears
<1>6. CASE a \notin DOMAIN Renders[cmd.to]
  <2>1. theirs = Absent
    BY <1>6 DEF TextIn
  <2>2. Verdict(tree, cmd, a) = Dropped(text, ours, FALSE, cmd.restore)
    <3>1. (a \in OldArtifacts(tree) /\ a \in Ejects[cmd.to]) = FALSE
      OBVIOUS
    <3>2. Verdict(tree, cmd, a) = Settled(text, ours, theirs, FALSE, cmd.restore)
      BY <3>1 DEF Verdict
    <3> QED
      BY <1>4, <2>1, <3>2 DEF Settled
  <2>3. ours # text
    BY <1>2, <1>3
  <2> QED
    BY <1>1, <1>2, <2>2, <2>3 DEF Dropped
<1> QED
  BY <1>5, <1>6

(* A sequence of one comes first.                                          *)
LEMMA FirstStays ==
  ASSUME NEW S, NEW s \in Seq(S), NEW t \in Seq(S), Len(s) >= 1
  PROVE  Len(s \o t) >= 1 /\ (s \o t)[1] = s[1] /\ s \o t \in Seq(S)
<1>1. Len(s) \in Nat /\ Len(t) \in Nat
  BY LenProperties
<1>2. /\ s \o t \in Seq(S) /\ Len(s \o t) = Len(s) + Len(t)
      /\ \A i \in 1 .. Len(s) + Len(t) : (s \o t)[i] = IF i <= Len(s) THEN s[i] ELSE t[i - Len(s)]
  BY ConcatProperties
<1> QED
  BY <1>1, <1>2

(* A plan that touches a managed file publishes the managed files first.   *)
LEMMA ManagedFirst ==
  ASSUME NEW tree, NEW d, NEW cmd, Plannable(tree, cmd), NEW w \in DOMAIN BaseOf,
         w \in TouchedPaths(Materialized(tree, d, cmd))
  PROVE  LET b == Materialized(tree, d, cmd)
         IN /\ 1 \in DOMAIN b.ops
            /\ Written(b.ops[1]) = DOMAIN TreeAfter(tree, cmd)
            /\ w \in DOMAIN TreeBefore(tree, cmd) \cup DOMAIN TreeAfter(tree, cmd)
            /\ w \in DesiredPaths(b) => w \in DOMAIN TreeAfter(tree, cmd)
<1> DEFINE b == Materialized(tree, d, cmd)
           op == [kind |-> "tree", before |-> TreeBefore(tree, cmd), after |-> TreeAfter(tree, cmd)]
<1>1. b.ops = Operations(tree, cmd)
  BY DEF Materialized
<1>2. ASSUME NEW i \in DOMAIN b.ops, w \in Touched(b.ops[i])
      PROVE  b.ops[i] = op /\ PublishManaged(tree, cmd) = <<op>>
  <2>1. b.ops[i] \in Moves(tree, cmd)
    BY <1>1, SequenceOfMoves DEF Entries
  <2>2. b.ops[i] \notin Entries(PublishBase(tree, cmd)) \cup Entries(RetireStrays(tree, cmd))
    BY <1>2, BaseMoves, PathsAssumption
  <2>3. b.ops[i] \notin Entries(Appends(tree, cmd)) \cup Entries(RestoreSealed(tree, cmd))
    BY <1>2, AppendMoves, RestoreMoves, KindsOfPath
  <2>4. b.ops[i] \notin Entries(ReplaceModel(tree, cmd)) \cup Entries(ReplaceLock(tree, cmd))
    BY <1>2, StateMoves, PathsAssumption
  <2>5. b.ops[i] \in Entries(PublishManaged(tree, cmd))
    BY <2>1, <2>2, <2>3, <2>4 DEF Moves, FrontMoves
  <2> HIDE DEF op, b
  <2>6. PublishManaged(tree, cmd) = When(TreeBefore(tree, cmd) # TreeAfter(tree, cmd), op)
    BY DEF PublishManaged, op
  <2> QED
    BY <2>5, <2>6, WhenSaysOne
<1>3. \E i \in DOMAIN b.ops : w \in Touched(b.ops[i])
  BY DEF TouchedPaths, DesiredPaths, RemovedPaths, Touched
<1>4. PublishManaged(tree, cmd) = <<op>>
  BY <1>2, <1>3
<1>5. 1 \in DOMAIN b.ops /\ b.ops[1] = op
  <2> DEFINE S == Moves(tree, cmd)
  <2>1. /\ PublishManaged(tree, cmd) \in Seq(S) /\ PublishBase(tree, cmd) \in Seq(S)
        /\ RetireStrays(tree, cmd) \in Seq(S) /\ Appends(tree, cmd) \in Seq(S)
        /\ RestoreSealed(tree, cmd) \in Seq(S) /\ ReplaceModel(tree, cmd) \in Seq(S)
        /\ ReplaceLock(tree, cmd) \in Seq(S)
    BY MovesAreSequences
  <2>2. Len(PublishManaged(tree, cmd)) >= 1 /\ PublishManaged(tree, cmd)[1] = op
    BY <1>4
  <2> HIDE DEF S, op
  <2> DEFINE s1 == PublishManaged(tree, cmd) \o PublishBase(tree, cmd)
             s2 == s1 \o RetireStrays(tree, cmd)
             s3 == s2 \o Appends(tree, cmd)
             s4 == s3 \o RestoreSealed(tree, cmd)
             s5 == s4 \o ReplaceModel(tree, cmd)
             s6 == s5 \o ReplaceLock(tree, cmd)
  <2>3. s1 \in Seq(S) /\ Len(s1) >= 1 /\ s1[1] = op
    BY <2>1, <2>2, FirstStays
  <2>4. Operations(tree, cmd) = s6
    BY DEF Operations
  <2> HIDE DEF s1
  <2>5. s2 \in Seq(S) /\ Len(s2) >= 1 /\ s2[1] = op
    BY <2>1, <2>3, FirstStays
  <2> HIDE DEF s2
  <2>6. s3 \in Seq(S) /\ Len(s3) >= 1 /\ s3[1] = op
    BY <2>1, <2>5, FirstStays
  <2> HIDE DEF s3
  <2>7. s4 \in Seq(S) /\ Len(s4) >= 1 /\ s4[1] = op
    BY <2>1, <2>6, FirstStays
  <2> HIDE DEF s4
  <2>8. s5 \in Seq(S) /\ Len(s5) >= 1 /\ s5[1] = op
    BY <2>1, <2>7, FirstStays
  <2> HIDE DEF s5
  <2>9. s6 \in Seq(S) /\ Len(s6) >= 1 /\ s6[1] = op
    BY <2>1, <2>8, FirstStays
  <2> HIDE DEF s6
  <2>10. Len(s6) \in Nat /\ DOMAIN s6 = 1 .. Len(s6)
    BY <2>9, LenProperties
  <2> QED
    BY <1>1, <2>4, <2>9, <2>10
<1>6. op.before = TreeBefore(tree, cmd) /\ op.after = TreeAfter(tree, cmd)
  OBVIOUS
<1> HIDE DEF op, b
<1>7. w \in DOMAIN TreeBefore(tree, cmd) \cup DOMAIN TreeAfter(tree, cmd)
  BY <1>2, <1>3, <1>6 DEF Touched, Written, Retired
<1>8. w \in DesiredPaths(b) => w \in DOMAIN TreeAfter(tree, cmd)
  BY <1>2, <1>6 DEF DesiredPaths, Touched, Written
<1> QED
  BY <1>5, <1>6, <1>7, <1>8 DEF Written, b

(* What is published of an artifact is what became of it.                  *)
LEMMA PublishedVerdict ==
  ASSUME OnePlaceEach, NEW tree, NEW cmd, Plannable(tree, cmd),
         NEW a \in Artifacts(tree, cmd), Verdict(tree, cmd, a) # Absent
  PROVE  LET u == OutputPath(tree, cmd.to, a)
         IN /\ u \in DOMAIN TreeAfter(tree, cmd) /\ TreeAfter(tree, cmd)[u] = Verdict(tree, cmd, a)
            /\ Target(tree, cmd, u) = Verdict(tree, cmd, a)
<1> DEFINE u == OutputPath(tree, cmd.to, a)
           carried == {c \in Artifacts(tree, cmd) : Verdict(tree, cmd, c) # Absent}
           first == CHOOSE c \in carried : OutputPath(tree, cmd.to, c) = u
<1>1. u \in DOMAIN BaseOf
  BY VerdictTyped DEF Plannable
<1>2. a \in carried
  OBVIOUS
<1>3. first \in carried /\ OutputPath(tree, cmd.to, first) = u
  BY <1>2
<1>4. first = a
  <2>1. first \in Rendered /\ u \in Places(first)
    BY <1>3, PlacesOfArtifact
  <2>2. a \in Rendered /\ u \in Places(a)
    BY PlacesOfArtifact
  <2> QED
    BY <2>1, <2>2 DEF OnePlaceEach
<1>5. u \in DOMAIN TreeAfter(tree, cmd) /\ TreeAfter(tree, cmd)[u] = Verdict(tree, cmd, first)
  BY <1>2 DEF TreeAfter
<1> QED
  BY <1>1, <1>4, <1>5 DEF Target

(* A file with a typed region that the plan captured or publishes is that  *)
(* of an artifact the plan carries over.                                   *)
LEMMA TypedIsCarried ==
  ASSUME OnePlaceEach, NeverRendered, NEW tree, NEW cmd, Plannable(tree, cmd), Legible(tree), cmd.restore # "EditedAndRemoved",
         NEW a \in Rendered, NEW r \in Region, NEW v \in Places(a), Bears(tree[v], r),
         v \in DOMAIN TreeBefore(tree, cmd) \cup DOMAIN TreeAfter(tree, cmd)
  PROVE  a \in OldArtifacts(tree) /\ Bears(Verdict(tree, cmd, a), r)
<1> DEFINE carried == {c \in Artifacts(tree, cmd) : Verdict(tree, cmd, c) # Absent}
<1>1. /\ Readable(tree) /\ IsCommand(cmd) /\ cmd.to \in Model /\ MovedOnto(tree, cmd) = {}
      /\ \A c \in Artifacts(tree, cmd) : Verdict(tree, cmd, c) # Refused
  BY DEF Plannable, PlanRefused, IsCommand
<1>2. ASSUME NEW c \in Artifacts(tree, cmd), v \in {LivePath(tree, cmd.to, c), OutputPath(tree, cmd.to, c)}
      PROVE  c = a
  <2>1. c \in Rendered /\ v \in Places(c)
    BY <1>2, PlacesOfArtifact
  <2> QED
    BY <2>1 DEF OnePlaceEach
<1>3. CASE v \in DOMAIN TreeBefore(tree, cmd)
  <2>1. PICK c \in OldArtifacts(tree) \ Ejects[cmd.to] : v = LivePath(tree, cmd.to, c)
    BY <1>3 DEF TreeBefore
  <2>2. c = a
    BY <1>2, <2>1 DEF Artifacts
  <2> QED
    BY <2>1, <2>2, VerdictBears
<1>4. CASE v \in DOMAIN TreeAfter(tree, cmd) /\ v \notin DOMAIN TreeBefore(tree, cmd)
  <2>1. PICK c \in carried : v = OutputPath(tree, cmd.to, c)
    BY <1>4 DEF TreeAfter
  <2>2. a \in carried /\ v = OutputPath(tree, cmd.to, a)
    BY <1>2, <2>1
  <2>3. tree[v] # Absent
    BY DEF Bears
  <2>4. ASSUME a \in OldArtifacts(tree), v = LivePath(tree, cmd.to, a) PROVE FALSE
    <3>1. a \in Ejects[cmd.to]
      BY <1>4, <2>3, <2>4 DEF TreeBefore
    <3>2. a \notin DOMAIN Renders[cmd.to]
      BY <1>1, <3>1, RendersAssumption
    <3>3. TextIn(Renders[cmd.to], a) = Absent
      BY <3>2 DEF TextIn
    <3>4. (a \in OldArtifacts(tree) /\ a \in Ejects[cmd.to]) = TRUE
      BY <2>4, <3>1
    <3>5. Verdict(tree, cmd, a) = Absent
      BY <3>3, <3>4 DEF Verdict, Settled, Dropped
    <3> QED
      BY <2>2, <3>5
  <2>5. ASSUME a \in OldArtifacts(tree), v # LivePath(tree, cmd.to, a) PROVE FALSE
    <3>1. a \in DOMAIN Renders[cmd.to]
      BY <2>2, <2>5 DEF OutputPath
    <3> QED
      BY <1>1, <2>2, <2>3, <2>5, <3>1 DEF MovedOnto
  <2>6. ASSUME a \notin OldArtifacts(tree) PROVE FALSE
    <3>1. a \in DOMAIN Renders[cmd.to] /\ LivePath(tree, cmd.to, a) = v
      BY <2>2, <2>6 DEF Artifacts, LivePath, OutputPath
    <3>2. /\ TextIn(AcceptedProjection(tree), a) = Absent
          /\ TextIn(Renders[cmd.to], a) = Renders[cmd.to][a].text
      BY <2>6, <3>1 DEF TextIn, OldArtifacts
    <3>3. Renders[cmd.to][a].text \in Text /\ Renders[cmd.to][a].text[r] # Mine
      BY <1>1, <3>1, RendersAssumption DEF NeverRendered
    <3>4. Renders[cmd.to][a].text # Absent
      BY <3>3, ImagesAssumption, AbsentAssumption
    <3>5. Verdict(tree, cmd, a) = Claimed(tree[v], Renders[cmd.to][a].text)
      BY <3>1, <3>2, <3>4 DEF Verdict, Settled
    <3>6. tree[v] # Absent /\ tree[v] # Renders[cmd.to][a].text
      BY <3>3 DEF Bears
    <3>7. Verdict(tree, cmd, a) = Refused
      BY <3>5, <3>6 DEF Claimed
    <3> QED
      BY <1>1, <2>2, <3>7
  <2> QED
    BY <2>4, <2>5, <2>6
<1> QED
  BY <1>3, <1>4

(* What is typed is safe from a plan that is admitted over it: the plan    *)
(* does not touch the file, leaves what was typed in it, or publishes that *)
(* at the artifact's new place before it removes the old one.              *)
LEMMA CarriedWhenAdmitted ==
  ASSUME OnePlaceEach, NeverRendered, NEW tree, NEW d, NEW cmd, Plannable(tree, cmd), Legible(tree),
         cmd.restore # "EditedAndRemoved",
         NEW a \in Rendered, NEW r \in Region, NEW v \in Places(a), NEW now, Bears(now[v], r),
         PathAdmitted(now, Materialized(tree, d, cmd), v)
  PROVE  LET b == Materialized(tree, d, cmd)
         IN \/ v \notin TouchedPaths(b)
            \/ BearsAfter(b, v, r)
            \/ /\ v \notin DesiredPaths(b) /\ 1 \in DOMAIN b.ops
               /\ \E u \in Places(a) : BearsAfter(b, u, r) /\ u \in Written(b.ops[1])
<1> DEFINE b == Materialized(tree, d, cmd)
<1> SUFFICES ASSUME v \in TouchedPaths(b), ~BearsAfter(b, v, r)
             PROVE  /\ v \notin DesiredPaths(b) /\ 1 \in DOMAIN b.ops
                    /\ \E u \in Places(a) : BearsAfter(b, u, r) /\ u \in Written(b.ops[1])
  OBVIOUS
<1>1. v \in DOMAIN BaseOf
  BY RendersAssumption DEF Places
<1>2. /\ 1 \in DOMAIN b.ops /\ Written(b.ops[1]) = DOMAIN TreeAfter(tree, cmd)
      /\ v \in DOMAIN TreeBefore(tree, cmd) \cup DOMAIN TreeAfter(tree, cmd)
  BY <1>1, ManagedFirst
<1>3. now[v] # Absent /\ now[v] # Desired(b, v)
  <2>1. now[v] # Absent
    BY DEF Bears
  <2>2. v \notin DesiredPaths(b) => Desired(b, v) = Absent
    BY DEF Desired
  <2> QED
    BY <2>1, <2>2 DEF BearsAfter
<1>4. now[v] = tree[v]
  <2>1. ASSUME v \in DOMAIN TreeBefore(tree, cmd) PROVE v \in DOMAIN b.base
    <3>1. PICK c \in OldArtifacts(tree) : v = LivePath(tree, cmd.to, c)
      BY <2>1 DEF TreeBefore
    <3>2. v \in PathsIn(AcceptedProjection(tree))
      BY <3>1 DEF LivePath, OldArtifacts, PathsIn
    <3> QED
      BY <3>2 DEF Materialized, Observed
  <2>2. v \in DOMAIN TreeAfter(tree, cmd) => v \in DesiredPaths(b)
    BY <1>2 DEF DesiredPaths
  <2>3. v \in DOMAIN b.base => b.base[v] = tree[v]
    BY DEF Materialized
  <2> QED
    BY <1>2, <1>3, <2>1, <2>2, <2>3 DEF PathAdmitted, FileAdmitted, NewPathAdmitted
<1>5. a \in OldArtifacts(tree) /\ Bears(Verdict(tree, cmd, a), r)
  BY <1>2, <1>4, TypedIsCarried
<1> DEFINE u == OutputPath(tree, cmd.to, a)
<1>6. u \in DOMAIN TreeAfter(tree, cmd) /\ Target(tree, cmd, u) = Verdict(tree, cmd, a)
  BY <1>5, PublishedVerdict DEF Artifacts, Bears
<1>7. u \in Places(a)
  BY <1>5, PlacesOfArtifact DEF Artifacts
<1>8. u \in Written(b.ops[1]) /\ u \in DesiredPaths(b)
  BY <1>2, <1>6 DEF DesiredPaths
<1>9. BearsAfter(b, u, r)
  BY <1>5, <1>6, <1>8, MaterializedIsFit DEF BearsAfter
<1>10. v \notin DesiredPaths(b)
  <2>1. ASSUME v \in DesiredPaths(b) PROVE FALSE
    <3>1. v \in DOMAIN TreeAfter(tree, cmd)
      BY <1>1, <2>1, ManagedFirst
    <3>2. PICK c \in Artifacts(tree, cmd) : v = OutputPath(tree, cmd.to, c)
      BY <3>1 DEF TreeAfter
    <3>3. c \in Rendered /\ v \in Places(c)
      BY <3>2, PlacesOfArtifact
    <3>4. v = u
      BY <3>2, <3>3 DEF OnePlaceEach
    <3> QED
      BY <1>9, <3>4
  <2> QED
    BY <2>1
<1> QED
  BY <1>2, <1>7, <1>8, <1>9, <1>10

-----------------------------------------------------------------------------
(* A run that is at work on a plan: what it will publish at u is among the *)
(* first files it publishes, and it has not come to it.                    *)
Awaits(p, u) ==
  /\ 1 \in DOMAIN job[p].ops /\ u \in Written(job[p].ops[1])
  /\ pc[p] = "publishing" => at[p] = 1 /\ u \in left[p]

(* One of the artifact's files has what was typed, and keeps it under the  *)
(* plan or gives it to another of them first.                              *)
Carries(p, a, r) ==
  \E v \in Places(a) :
    /\ Bears(disk[v], r)
    /\ \/ v \notin TouchedPaths(job[p])
       \/ BearsAfter(job[p], v, r)
       \/ /\ v \notin DesiredPaths(job[p])
          /\ \E u \in Places(a) : BearsAfter(job[p], u, r) /\ Awaits(p, u)

PlannedGently(b) ==
  \E tree, d, cmd :
    Plannable(tree, cmd) /\ Legible(tree) /\ cmd.restore # "EditedAndRemoved" /\ b = Materialized(tree, d, cmd)

(* What was typed is in one of its artifact's files, and safe from the run *)
(* that is at work.                                                        *)
Held ==
  /\ \A p \in Proc : pc[p] # "idle" => PlannedGently(job[p])
  /\ \A t \in typed :
       /\ t[2] \in Region
       /\ \E a \in Rendered :
            /\ t[1] \in Places(a)
            /\ \E v \in Places(a) : Bears(disk[v], t[2])
            /\ \A p \in Proc : Working(p) => Carries(p, a, t[2])

(* A file the run has not come to is still to come, or is published now,   *)
(* and until then nothing is removed.                                      *)
LEMMA AwaitStep ==
  ASSUME IInv, AllPlanned, [PNext]_pvars, NEW p \in Proc, Working(p), Working(p)', NEW u, Awaits(p, u)
  PROVE  /\ \A w \in Path : ~RemoveRetired(p, w)
         /\ \/ Awaits(p, u)'
            \/ /\ pc[p] = "publishing" /\ at[p] = 1
               /\ (aim[p] = u /\ Persist(p)) \/ SkipWrite(p, u)
<1> DEFINE Now == /\ pc[p] = "publishing" /\ at[p] = 1
                  /\ (aim[p] = u /\ Persist(p)) \/ SkipWrite(p, u)
<1>1. /\ pc = [q \in Proc |-> pc[q]] /\ at = [q \in Proc |-> at[q]] /\ left = [q \in Proc |-> left[q]]
      /\ left[p] \in SUBSET (Path \cup Dir)
  BY DEF IInv, Typed
<1>2. job'[p] = job[p]
  BY WorkKeepsPlan
<1>3. \A w \in Path : ~RemoveRetired(p, w)
  BY DEF RemoveRetired, Publishing, ToWrite, CurrentOp, Awaits
<1> SUFFICES Awaits(p, u)' \/ Now
  BY <1>3
<1>4. ASSUME pc'[p] = pc[p], at'[p] = at[p], u \in left[p] => u \in left'[p] PROVE Awaits(p, u)'
  BY <1>2, <1>4 DEF Awaits
<1>5. CASE UNCHANGED pvars
  <2>1. pc' = pc /\ at' = at /\ left' = left
    BY <1>5 DEF pvars
  <2> QED
    BY <1>4, <2>1
<1>6. ASSUME NEW q \in Proc, NEW cmd \in Commands, Plan(q, cmd) PROVE Awaits(p, u)'
  <2>1. q # p
    BY <1>6 DEF Plan, Over, Working
  <2> QED
    BY <1>1, <1>4, <1>6, <2>1 DEF Plan, Goto
<1>7. ASSUME NEW w \in EditorPaths, Delete(w) \/ \E r \in Region : Type(w, r) PROVE Awaits(p, u)'
  BY <1>4, <1>7, ReaderIsEditor DEF Edit, progress
<1>8. ASSUME NEW q \in Proc, Apply(q), q # p PROVE Awaits(p, u)'
  <2>1. CASE Rerun(q) \/ Acquire(q) \/ FinishOperations(q)
    BY <1>1, <1>4, <1>8, <2>1 DEF Rerun, Acquire, FinishOperations, Goto, progress
  <2>2. CASE Sweep(q) \/ Admit(q) \/ StartOperations(q)
    BY <1>1, <1>4, <1>8, <2>2 DEF Sweep, Admit, StartOperations, Goto
  <2>3. CASE Refuse(q) \/ Verify(q)
    BY <1>1, <1>4, <1>8, <2>3 DEF Refuse, Verify, Leave, Goto
  <2>4. CASE Fail(q) \/ Abort(q)
    BY <1>1, <1>4, <1>8, <2>4 DEF Fail, Abort, Leave, Goto
  <2>5. ASSUME NEW d \in Dir, Probe(q, d) PROVE Awaits(p, u)'
    BY <1>1, <1>4, <1>8, <2>5 DEF Probe
  <2>6. ASSUME NEW w \in Path, SkipWrite(q, w) \/ Stage(q, w) \/ RemoveRetired(q, w) PROVE Awaits(p, u)'
    BY <1>1, <1>4, <1>8, <2>6 DEF SkipWrite, Stage, RemoveRetired, Handled
  <2>7. CASE DropProbe(q) \/ Persist(q) \/ NextOperation(q)
    BY <1>1, <1>4, <1>8, <2>7 DEF DropProbe, Persist, NextOperation, Handled
  <2> QED
    BY <1>8, <2>1, <2>2, <2>3, <2>4, <2>5, <2>6, <2>7 DEF Apply, Work
<1>9. CASE Apply(p)
  <2>1. CASE Rerun(p) \/ Acquire(p) \/ Sweep(p) \/ Admit(p) \/ Refuse(p) \/ Verify(p)
    BY <2>1 DEF Rerun, Acquire, Sweep, Admit, Refuse, Verify, Over, Working
  <2>2. CASE FinishOperations(p)
    BY <1>1, <2>2 DEF FinishOperations, Goto, Working
  <2>3. CASE Fail(p) \/ Abort(p)
    BY <1>1, <2>3 DEF Fail, Abort, Leave, Goto, Working
  <2>4. ASSUME NEW d \in Dir, Probe(p, d) PROVE Awaits(p, u)'
    BY <1>2, <2>4 DEF Probe, Awaits
  <2>5. CASE DropProbe(p)
    <3>1. pc' = pc /\ at' = at /\ left' = left
      BY <2>5 DEF DropProbe
    <3> QED
      BY <1>4, <3>1
  <2>6. CASE StartOperations(p)
    <3>1. pc'[p] = "publishing" /\ at'[p] = 1 /\ left'[p] = PathsOf(job[p], 1)
      BY <1>1, <2>6 DEF StartOperations, Goto
    <3>2. u \in PathsOf(job[p], 1)
      BY DEF PathsOf, Touched, Awaits
    <3> QED
      BY <1>2, <3>1, <3>2 DEF Awaits
  <2>7. ASSUME NEW w \in Path, SkipWrite(p, w) PROVE Awaits(p, u)' \/ Now
    BY <1>1, <1>4, <2>7 DEF SkipWrite, Handled, Publishing, Awaits
  <2>8. ASSUME NEW w \in Path, Stage(p, w) PROVE Awaits(p, u)'
    BY <1>4, <2>8 DEF Stage
  <2>9. CASE Persist(p)
    <3>1. pc' = pc /\ at' = at /\ left'[p] = left[p] \ {aim[p]} /\ pc[p] = "publishing"
      BY <1>1, <2>9 DEF Persist, Handled, Publishing
    <3>2. CASE aim[p] = u
      BY <2>9, <3>1, <3>2 DEF Awaits
    <3>3. CASE aim[p] # u
      BY <1>4, <3>1, <3>3
    <3> QED
      BY <3>2, <3>3
  <2>10. CASE NextOperation(p)
    BY <2>10 DEF NextOperation, Publishing, Awaits
  <2> QED
    BY <1>3, <1>9, <2>1, <2>2, <2>3, <2>4, <2>5, <2>6, <2>7, <2>8, <2>9, <2>10 DEF Apply, Work
<1> QED
  BY <1>5, <1>6, <1>7, <1>8, <1>9 DEF PNext

(* Publishing the plan keeps what was typed.                               *)
LEMMA CarriesStep ==
  ASSUME IInv, AllPlanned, [PNext]_pvars, edits' = edits,
         NEW p \in Proc, Working(p), Working(p)', NEW a, NEW r, Places(a) \subseteq Path, Carries(p, a, r)
  PROVE  Carries(p, a, r)'
<1> DEFINE b == job[p]
           Safe(v) == v \notin TouchedPaths(b) \/ BearsAfter(b, v, r)
           Awaited(v) == v \notin DesiredPaths(b) /\ \E u \in Places(a) : BearsAfter(b, u, r) /\ Awaits(p, u)
<1>1. PICK v \in Places(a) : Bears(disk[v], r) /\ (Safe(v) \/ Awaited(v))
  BY DEF Carries
<1>2. job'[p] = b
  BY WorkKeepsPlan
<1>3. Fit(b)
  BY DEF IInv, Staging, Working
<1>4. ASSUME NEW w \in Places(a), Bears(disk'[w], r), Safe(w) PROVE Carries(p, a, r)'
  BY <1>2, <1>4 DEF Carries
<1>5. CASE disk'[v] = disk[v]
  <2>1. CASE Safe(v)
    BY <1>1, <1>4, <1>5, <2>1
  <2>2. CASE Awaited(v)
    <3>1. PICK u \in Places(a) : BearsAfter(b, u, r) /\ Awaits(p, u)
      BY <2>2
    <3>2. CASE Awaits(p, u)'
      BY <1>1, <1>2, <1>5, <2>2, <3>1, <3>2 DEF Carries
    <3>3. CASE aim[p] = u /\ Persist(p)
      <4>1. disk'[u] = Desired(b, u)
        BY <3>3, PersistTypes DEF IInv, Typed, Tree
      <4> QED
        BY <1>4, <3>1, <4>1 DEF BearsAfter
    <3>4. CASE SkipWrite(p, u) /\ at[p] = 1
      <4>1. disk[u] = b.ops[1].after[u] /\ disk' = disk
        BY <3>4 DEF SkipWrite, CurrentOp, files
      <4>2. Desired(b, u) = b.ops[1].after[u]
        BY <1>3, <3>1, DesiredImage DEF Awaits, Fit
      <4> QED
        BY <1>4, <3>1, <4>1, <4>2 DEF BearsAfter
    <3> QED
      BY <3>1, <3>2, <3>3, <3>4, AwaitStep
  <2> QED
    BY <1>1, <2>1, <2>2
<1>6. CASE disk'[v] # disk[v]
  <2>1. [OpenNext]_vars
    BY PipelineIsOpen
  <2>2. PICK q \in Proc : holder = q /\ ((aim[q] = v /\ Persist(q)) \/ RemoveRetired(q, v))
    BY <1>6, <2>1, WhoWrites DEF IInv
  <2>3. q = p
    BY <2>2, OneAtWork DEF IInv
  <2>4. CASE aim[p] = v /\ Persist(p)
    <3>1. v \in DesiredPaths(b) /\ disk'[v] = Desired(b, v)
      BY <2>4, PersistTypes DEF IInv, Typed, Tree
    <3>2. Safe(v) /\ Bears(Desired(b, v), r)
      BY <1>1, <3>1 DEF TouchedPaths, BearsAfter
    <3> QED
      BY <1>4, <3>1, <3>2
  <2>5. CASE RemoveRetired(p, v)
    <3>1. v \in RemovedPaths(b) /\ Desired(b, v) = Absent
      BY <2>5, RemoveTypes DEF IInv
    <3>2. ~Safe(v)
      BY <3>1 DEF TouchedPaths, BearsAfter, Bears
    <3>3. \E u \in Places(a) : Awaits(p, u)
      BY <1>1, <3>2
    <3> QED
      BY <2>5, <3>3, AwaitStep
  <2> QED
    BY <2>2, <2>3, <2>4, <2>5
<1> QED
  BY <1>5, <1>6

(* A run that starts to work is no danger to what was typed.               *)
LEMMA CarriesWhenAdmitted ==
  ASSUME OnePlaceEach, NeverRendered, NEW p \in Proc, Admit(p), pc = [q \in Proc |-> pc[q]], PlannedGently(job[p]),
         NEW a \in Rendered, NEW r \in Region, \E v \in Places(a) : Bears(disk[v], r)
  PROVE  Carries(p, a, r)'
<1>1. /\ disk' = disk /\ job' = job /\ pc'[p] = "probing"
      /\ FilesAdmitted(disk, job[p])
  BY DEF Admit, Goto, files, Admitted
<1>2. PICK tree, d, cmd :
        Plannable(tree, cmd) /\ Legible(tree) /\ cmd.restore # "EditedAndRemoved" /\ job[p] = Materialized(tree, d, cmd)
  BY DEF PlannedGently
<1>3. PICK v \in Places(a) : Bears(disk[v], r)
  OBVIOUS
<1>4. v \in Path
  BY RendersAssumption, PathsAssumption DEF Places
<1>5. \/ v \notin TouchedPaths(job[p])
      \/ BearsAfter(job[p], v, r)
      \/ /\ v \notin DesiredPaths(job[p]) /\ 1 \in DOMAIN job[p].ops
         /\ \E u \in Places(a) : BearsAfter(job[p], u, r) /\ u \in Written(job[p].ops[1])
  BY <1>1, <1>2, <1>3, <1>4, CarriedWhenAdmitted DEF FilesAdmitted
<1>6. \A u \in Places(a) : 1 \in DOMAIN job[p].ops /\ u \in Written(job[p].ops[1]) => Awaits(p, u)'
  BY <1>1 DEF Awaits
<1> QED
  BY <1>1, <1>3, <1>5, <1>6 DEF Carries

(* The reader's other edits leave what was typed alone.                    *)
LEMMA BearsThroughEdit ==
  ASSUME IInv, AllPlanned, NEW w \in EditorPaths, NEW v \in Path, NEW r, Bears(disk[v], r),
         (Delete(w) /\ v # w) \/ \E s \in Region : Type(w, s)
  PROVE  Bears(disk'[v], r)
<1>1. disk = [u \in Path |-> disk[u]]
  BY DEF IInv, Typed, Tree
<1>2. CASE v # w
  <2>1. disk'[v] = disk[v]
    BY <1>1, <1>2 DEF Delete, Type, Edit
  <2> QED
    BY <2>1
<1>3. ASSUME v = w, NEW s \in Region, Type(w, s) PROVE Bears(disk'[v], r)
  <2>1. disk[v] \in Text /\ disk'[v] = [disk[v] EXCEPT ![s] = Mine]
    BY <1>1, <1>3 DEF Type, Edit
  <2>2. disk'[v] \in Text
    BY <2>1, MineAssumption DEF Text
  <2>3. disk'[v] # Absent
    BY <2>2, ImagesAssumption, AbsentAssumption
  <2>4. disk'[v][r] = Mine
    BY <2>1 DEF Bears, Text
  <2> QED
    BY <2>3, <2>4 DEF Bears
<1> QED
  BY <1>2, <1>3

(* What was typed stays held by whatever a run does.                       *)
LEMMA HeldThroughRun ==
  ASSUME OnePlaceEach, NeverRendered, IInv, AllPlanned, Held, [PNext]_pvars, edits' = edits,
         NEW a \in Rendered, NEW r \in Region, \E v \in Places(a) : Bears(disk[v], r),
         \A p \in Proc : Working(p) => Carries(p, a, r)
  PROVE  /\ \E v \in Places(a) : Bears(disk'[v], r)
         /\ \A p \in Proc : Working(p)' => Carries(p, a, r)'
<1>1. Places(a) \subseteq Path
  BY RendersAssumption, PathsAssumption DEF Places
<1>2. ASSUME NEW p \in Proc, Working(p)' PROVE Carries(p, a, r)'
  <2>1. CASE Working(p)
    BY <1>1, <1>2, <2>1, CarriesStep
  <2>2. CASE ~Working(p)
    <3>1. Admit(p)
      BY <1>2, <2>2, PlaceStep DEF Working
    <3>2. PlannedGently(job[p]) /\ pc = [q \in Proc |-> pc[q]]
      BY <3>1 DEF Admit, Held, IInv, Typed
    <3> QED
      BY <3>1, <3>2, CarriesWhenAdmitted
  <2> QED
    BY <2>1, <2>2
<1>3. (\A v \in Places(a) : disk'[v] = disk[v]) => \E v \in Places(a) : Bears(disk'[v], r)
  OBVIOUS
<1>4. ASSUME NEW w \in Places(a), disk'[w] # disk[w] PROVE \E v \in Places(a) : Bears(disk'[v], r)
  <2>1. [OpenNext]_vars
    BY PipelineIsOpen
  <2>2. PICK p \in Proc : Persist(p) \/ RemoveRetired(p, w)
    BY <1>1, <1>4, <2>1, WhoWrites DEF IInv
  <2>3. Working(p)'
    BY <2>2 DEF Persist, RemoveRetired, Publishing, Working
  <2> QED
    BY <1>2, <2>3 DEF Carries
<1> QED
  BY <1>2, <1>3, <1>4

(* Nothing an editor does moves a run.                                     *)
LEMMA CarriesThroughEdit ==
  ASSUME IInv, AllPlanned, NEW w \in EditorPaths, Delete(w) \/ \E s \in Region : Type(w, s),
         NEW p \in Proc, NEW a, NEW r, Carries(p, a, r),
         \A v \in Places(a) : Bears(disk[v], r) => Bears(disk'[v], r)
  PROVE  Carries(p, a, r)'
<1>1. pc' = pc /\ job' = job /\ at' = at /\ left' = left
  BY ReaderIsEditor DEF Edit, progress
<1>2. \A u : Awaits(p, u) => Awaits(p, u)'
  BY <1>1 DEF Awaits
<1> QED
  BY <1>1, <1>2 DEF Carries

(* So nothing that happens lets what was typed go.                         *)
LEMMA HeldStep ==
  ASSUME OnePlaceEach, NeverRendered, NoConsent, IInv, AllPlanned, Held, [PNext]_pvars
  PROVE  Held'
<1> DEFINE In(a, t) == /\ t[1] \in Places(a)
                       /\ \E v \in Places(a) : Bears(disk[v], t[2])
                       /\ \A p \in Proc : Working(p) => Carries(p, a, t[2])
           Fine == \A t \in typed : t[2] \in Region /\ \E a \in Rendered : In(a, t)
<1>1. ASSUME NEW q \in Proc, pc'[q] # "idle" PROVE PlannedGently(job'[q])
  <2>1. CASE pc[q] # "idle" /\ job'[q] = job[q]
    BY <2>1 DEF Held
  <2>2. ASSUME NEW cmd \in Commands, Plannable(disk, cmd), job'[q] = Materialized(disk, debris, cmd)
        PROVE  PlannedGently(job'[q])
    BY <2>2 DEF NoConsent, PlannedGently, AllPlanned
  <2> QED
    BY <1>1, <2>1, <2>2, HandedPlan
<1>2. \A a \in Rendered : Places(a) \subseteq Path
  BY RendersAssumption, PathsAssumption DEF Places
<1>3. ASSUME edits' = edits, typed' = typed PROVE Fine'
  <2> SUFFICES ASSUME NEW t \in typed PROVE t[2] \in Region /\ \E a \in Rendered : In(a, t)'
    BY <1>3
  <2>1. PICK a \in Rendered : In(a, t)
    BY DEF Held
  <2>2. t[2] \in Region
    BY DEF Held
  <2> QED
    BY <1>3, <2>1, <2>2, HeldThroughRun
<1>4. ASSUME NEW w \in EditorPaths, Delete(w) PROVE Fine'
  <2> SUFFICES ASSUME NEW t \in typed' PROVE t[2] \in Region /\ \E a \in Rendered : In(a, t)'
    OBVIOUS
  <2>1. t \in typed /\ w \notin Homes(t[1])
    BY <1>4 DEF Delete
  <2>2. PICK a \in Rendered : In(a, t)
    BY <2>1 DEF Held
  <2>3. w \notin Places(a)
    BY <2>1, <2>2 DEF Homes, Rendered
  <2>4. \A v \in Places(a) : Bears(disk[v], t[2]) => Bears(disk'[v], t[2])
    BY <1>2, <1>4, <2>3, BearsThroughEdit
  <2>5. \A p \in Proc : Working(p)' => Working(p)
    BY <1>4 DEF Delete, Edit, Working
  <2> QED
    BY <1>4, <2>1, <2>2, <2>4, <2>5, CarriesThroughEdit DEF Held
<1>5. ASSUME NEW w \in EditorPaths, NEW r \in Region, Type(w, r) PROVE Fine'
  <2> SUFFICES ASSUME NEW t \in typed' PROVE t[2] \in Region /\ \E a \in Rendered : In(a, t)'
    OBVIOUS
  <2>1. \A p \in Proc : Working(p)' => Working(p)
    BY <1>5 DEF Type, Edit, Working
  <2>2. CASE t \in typed
    <3>1. PICK a \in Rendered : In(a, t)
      BY <2>2 DEF Held
    <3>2. \A v \in Places(a) : Bears(disk[v], t[2]) => Bears(disk'[v], t[2])
      BY <1>2, <1>5, BearsThroughEdit
    <3> QED
      BY <1>5, <2>1, <2>2, <3>1, <3>2, CarriesThroughEdit DEF Held
  <2>3. CASE t \notin typed
    <3>1. t = <<w, r>> /\ ~Applying /\ w \in DOMAIN BaseOf
      BY <1>5, <2>3 DEF Type
    <3>2. PICK a \in Rendered : w \in Places(a)
      BY <3>1 DEF OnePlaceEach
    <3>3. Bears(disk'[w], r)
      <4>1. disk[w] \in Text /\ w \in Path /\ disk' = [disk EXCEPT ![w] = [disk[w] EXCEPT ![r] = Mine]]
        BY <1>5, EditorAssumption DEF Type, Edit
      <4>2. disk'[w] = [disk[w] EXCEPT ![r] = Mine]
        BY <4>1 DEF IInv, Typed, Tree
      <4>3. disk'[w] \in Text /\ disk'[w][r] = Mine
        BY <4>1, <4>2, MineAssumption DEF Text
      <4> QED
        BY <4>3, ImagesAssumption, AbsentAssumption DEF Bears
    <3>4. \A p \in Proc : ~Working(p)'
      BY <2>1, <3>1 DEF Applying, Admission, Working
    <3> QED
      BY <3>1, <3>2, <3>3, <3>4
  <2> QED
    BY <2>2, <2>3
<1>6. ASSUME NEW p \in Proc, (\E cmd \in Commands : Plan(p, cmd)) \/ Apply(p)
      PROVE  edits' = edits /\ typed' = typed
  BY <1>6, RunsKeepPlans DEF Plan, Apply
<1>7. UNCHANGED pvars => edits' = edits /\ typed' = typed
  BY DEF pvars
<1>8. Fine'
  BY <1>3, <1>4, <1>5, <1>6, <1>7 DEF PNext
<1> QED
  BY <1>1, <1>8 DEF Held

(* What the reader typed between commands stays in the project, however    *)
(* many commands render that file again, rename it or eject it, in         *)
(* whatever order their plans were made and applied, wherever a run was    *)
(* cut short and whatever else the reader does meanwhile, but delete it.   *)
(* It takes that every managed path is one artifact's, that nothing the    *)
(* reader types is what some model renders there, and that no command is   *)
(* run with the reader's consent to lose an edited file.                   *)
THEOREM TypedTextStays ==
  ASSUME OnePlaceEach, NeverRendered, NoConsent
  PROVE  PSpec => []HandEditKept
<1>1. PInit => Held
  BY DEF PInit, Init, Held
<1>2. PInv /\ Held /\ [PNext]_pvars => Held'
  BY HeldStep DEF PInv
<1>3. Held => HandEditKept
  BY DEF Held, HandEditKept, Homes, Bears, Rendered
<1>4. PSpec => []PInv
  BY PipelineInvariant
<1> QED
  BY <1>1, <1>2, <1>3, <1>4, PTL DEF PSpec

-----------------------------------------------------------------------------
(* Undo.  The operations of an inverse are those of its plan, each turned  *)
(* round, the last one first.                                              *)
LEMMA InverseOperations ==
  ASSUME NEW b, IsBundle(b)
  PROVE  /\ Len(b.ops) \in Nat /\ DOMAIN b.ops = 1 .. Len(b.ops)
         /\ DOMAIN InverseBundle(b).ops = 1 .. Len(b.ops) /\ Len(InverseBundle(b).ops) = Len(b.ops)
         /\ \A i \in DOMAIN b.ops : \E j \in DOMAIN InverseBundle(b).ops : InverseBundle(b).ops[j] = InverseOp(b.ops[i])
         /\ \A j \in DOMAIN InverseBundle(b).ops : \E i \in DOMAIN b.ops : InverseBundle(b).ops[j] = InverseOp(b.ops[i])
<1> DEFINE n == Len(b.ops)
           inverse == [i \in DOMAIN b.ops |-> InverseOp(b.ops[i])]
           ops == InverseBundle(b).ops
<1>1. n \in Nat /\ DOMAIN b.ops = 1 .. n
  BY DEF IsBundle
<1>2. Len(inverse) = n
  <2>1. inverse \in Seq({InverseOp(b.ops[i]) : i \in DOMAIN b.ops})
    BY <1>1, SeqDef
  <2> QED
    BY <1>1, <2>1, LenProperties
<1>3. ops = [j \in 1 .. n |-> inverse[(n - j) + 1]]
  BY <1>2 DEF InverseBundle, Seqs!Reverse
<1> HIDE DEF ops, n
<1>4. ASSUME NEW j \in 1 .. n PROVE n - j + 1 \in DOMAIN b.ops /\ ops[j] = InverseOp(b.ops[n - j + 1])
  BY <1>1, <1>3
<1>5. ASSUME NEW i \in DOMAIN b.ops PROVE n - i + 1 \in 1 .. n /\ ops[n - i + 1] = InverseOp(b.ops[i])
  <2>1. n - i + 1 \in 1 .. n /\ n - (n - i + 1) + 1 = i
    BY <1>1
  <2> QED
    BY <1>4, <2>1
<1>6. ops \in Seq({InverseOp(b.ops[i]) : i \in DOMAIN b.ops}) /\ DOMAIN ops = 1 .. n
  <2> DEFINE S == {InverseOp(b.ops[i]) : i \in DOMAIN b.ops}
  <2>1. \A j \in 1 .. n : ops[j] \in S
    BY <1>4
  <2> HIDE DEF S
  <2>2. ops \in [1 .. n -> S]
    BY <1>3, <2>1
  <2> QED
    BY <1>1, <2>2, SeqDef DEF S
<1>7. Len(ops) = n
  BY <1>1, <1>6, LenProperties
<1> QED
  BY <1>1, <1>4, <1>5, <1>6, <1>7 DEF ops, n

(* What an operation turned round writes and retires.                      *)
LEMMA InverseTouches ==
  ASSUME NEW op
  PROVE  /\ Written(InverseOp(op)) = DOMAIN op.before
         /\ Retired(InverseOp(op)) = Written(op) \ DOMAIN op.before
         /\ InverseOp(op).kind = InverseKind(op)
         /\ InverseOp(op).after = op.before
  BY DEF InverseOp, Written, Retired

(* An operation that can be taken back from the tree it was planned on:    *)
(* what it found is what the tree held, and it found all it replaces,      *)
(* unless it publishes a tree or creates a file.                           *)
Invertible(op, tree) ==
  /\ \A w \in DOMAIN op.before : op.before[w] = tree[w]
  /\ op.kind = "tree" \/ Written(op) = {} \/ DOMAIN op.before = {} \/ Written(op) \subseteq DOMAIN op.before

(* What it writes over without having found it was not there, or is as it  *)
(* leaves it, or a leftover.                                               *)
Creates(op, tree) ==
  \A w \in Written(op) \ DOMAIN op.before :
    tree[w] \in {Absent, op.after[w]} \/ w \in BasePaths \ DOMAIN BaseTree(AcceptedProjection(tree))

(* A plan whose operations are all like that, and none writes what another *)
(* found, or writes it too.                                                *)
InvertibleBundle(b, tree) ==
  /\ Fit(b)
  /\ \A i \in DOMAIN b.ops : Invertible(b.ops[i], tree)
  /\ \A i, j \in DOMAIN b.ops :
       DOMAIN b.ops[i].before \cap Written(b.ops[j]) \subseteq DOMAIN b.ops[j].before

(* The inverse of such a plan is one the executor may be handed, touches   *)
(* what the plan touches, and puts back what it found.                     *)
LEMMA InverseIsFit ==
  ASSUME NEW b, NEW tree, InvertibleBundle(b, tree)
  PROVE  LET back == InverseBundle(b)
         IN /\ Fit(back)
            /\ \A i \in DOMAIN b.ops : \A w \in DOMAIN b.ops[i].before :
                 w \in DesiredPaths(back) /\ Desired(back, w) = tree[w]
            /\ \A w \in DesiredPaths(back) : \E i \in DOMAIN b.ops : w \in DOMAIN b.ops[i].before
            /\ \A i \in DOMAIN b.ops : \A w \in Written(b.ops[i]) \ DOMAIN b.ops[i].before :
                 w \in RemovedPaths(back) /\ Desired(back, w) = Absent
<1> DEFINE back == InverseBundle(b)
<1>1. IsBundle(b) /\ WellFormed(b)
  BY DEF InvertibleBundle, Fit
<1>2. /\ Len(b.ops) \in Nat /\ DOMAIN back.ops = 1 .. Len(back.ops) /\ Len(back.ops) \in Nat
      /\ \A i \in DOMAIN b.ops : \E j \in DOMAIN back.ops : back.ops[j] = InverseOp(b.ops[i])
      /\ \A j \in DOMAIN back.ops : \E i \in DOMAIN b.ops : back.ops[j] = InverseOp(b.ops[i])
  BY <1>1, InverseOperations
<1>3. back.base = InverseBase(b) /\ back.dirs = [d \in {} |-> {}]
  BY DEF InverseBundle
<1> HIDE DEF back
<1>4. IsBundle(back)
  <2>1. PartialFunction(back.base, Path, Content)
    <3> DEFINE removed == UNION {Retired(b.ops[i]) : i \in {j \in DOMAIN b.ops : b.ops[j].kind = "remove"}}
    <3>1. back.base = [w \in DesiredPaths(b) \cup removed |-> Desired(b, w)]
      BY <1>3 DEF InverseBase
    <3>2. DesiredPaths(b) \subseteq Path /\ removed \subseteq Path
      BY <1>1, TouchedTypes DEF RemovedPaths
    <3>3. ASSUME NEW w \in DesiredPaths(b) \cup removed PROVE Desired(b, w) \in Content
      <4>1. CASE w \in DesiredPaths(b)
        <5>1. PICK i \in DOMAIN b.ops : w \in Written(b.ops[i])
          BY <4>1 DEF DesiredPaths
        <5> QED
          BY <1>1, <5>1, DesiredImage DEF Content
      <4>2. CASE w \notin DesiredPaths(b)
        BY <4>2 DEF Desired, Content
      <4> QED
        BY <4>1, <4>2
    <3> HIDE DEF removed
    <3> QED
      BY <3>1, <3>2, <3>3 DEF PartialFunction
  <2>2. ASSUME NEW j \in DOMAIN back.ops PROVE IsOperation(back.ops[j])
    <3>1. PICK i \in DOMAIN b.ops : back.ops[j] = InverseOp(b.ops[i])
      BY <1>2
    <3>2. IsOperation(b.ops[i])
      BY <1>1 DEF IsBundle
    <3> QED
      BY <3>1, <3>2 DEF InverseOp, InverseKind, IsOperation
  <2> QED
    BY <1>2, <1>3, <2>1, <2>2 DEF IsBundle
<1>5. ASSUME NEW i \in DOMAIN b.ops, NEW w \in DOMAIN b.ops[i].before
      PROVE  w \in DesiredPaths(back)
  <2>1. PICK j \in DOMAIN back.ops : back.ops[j] = InverseOp(b.ops[i])
    BY <1>2
  <2> QED
    BY <2>1, InverseTouches DEF DesiredPaths
<1>6. ASSUME NEW w \in DesiredPaths(back) PROVE \E i \in DOMAIN b.ops : w \in DOMAIN b.ops[i].before
  <2>1. PICK j \in DOMAIN back.ops : w \in Written(back.ops[j])
    BY DEF DesiredPaths
  <2>2. PICK i \in DOMAIN b.ops : back.ops[j] = InverseOp(b.ops[i])
    BY <1>2
  <2> QED
    BY <2>1, <2>2, InverseTouches
<1>7. ASSUME NEW j \in DOMAIN back.ops, NEW w \in Retired(back.ops[j]), w \in DesiredPaths(back) PROVE FALSE
  <2>1. PICK i \in DOMAIN b.ops : back.ops[j] = InverseOp(b.ops[i])
    BY <1>2
  <2>2. w \in Written(b.ops[i]) \ DOMAIN b.ops[i].before
    BY <1>7, <2>1, InverseTouches
  <2>3. PICK k \in DOMAIN b.ops : w \in DOMAIN b.ops[k].before
    BY <1>6, <1>7
  <2> QED
    BY <2>2, <2>3 DEF InvertibleBundle
<1>8. ASSUME NEW j \in DOMAIN back.ops, NEW w \in Written(back.ops[j]) PROVE back.ops[j].after[w] = tree[w]
  <2>1. PICK i \in DOMAIN b.ops : back.ops[j] = InverseOp(b.ops[i])
    BY <1>2
  <2> QED
    BY <2>1, InverseTouches DEF InvertibleBundle, Invertible
<1>9. ASSUME NEW j \in DOMAIN back.ops, back.ops[j].kind \in {"file", "append"} PROVE Retired(back.ops[j]) = {}
  <2>1. PICK i \in DOMAIN b.ops : back.ops[j] = InverseOp(b.ops[i])
    BY <1>2
  <2>2. InverseKind(b.ops[i]) \in {"file", "append"}
    BY <1>9, <2>1, InverseTouches
  <2>3. Written(b.ops[i]) \subseteq DOMAIN b.ops[i].before
    BY <2>2 DEF InverseKind, InvertibleBundle, Invertible
  <2> QED
    BY <2>1, <2>3, InverseTouches
<1>10. WellFormed(back)
  <2>1. DesiredPaths(back) \cap RemovedPaths(back) = {}
    BY <1>7 DEF RemovedPaths
  <2> QED
    BY <1>8, <1>9, <2>1 DEF WellFormed
<1>11. ASSUME NEW w \in DesiredPaths(back) PROVE Desired(back, w) = tree[w]
  <2>1. PICK j \in DOMAIN back.ops : w \in Written(back.ops[j])
    BY DEF DesiredPaths
  <2> QED
    BY <1>4, <1>8, <1>10, <2>1, DesiredImage
<1>12. ASSUME NEW i \in DOMAIN b.ops, NEW w \in Written(b.ops[i]) \ DOMAIN b.ops[i].before
       PROVE  w \in RemovedPaths(back) /\ Desired(back, w) = Absent
  <2>1. PICK j \in DOMAIN back.ops : back.ops[j] = InverseOp(b.ops[i])
    BY <1>2
  <2>2. w \in Retired(back.ops[j])
    BY <2>1, InverseTouches
  <2> QED
    BY <1>4, <1>10, <2>2, RetiredIsAbsent
<1> QED
  BY <1>4, <1>5, <1>6, <1>10, <1>11, <1>12 DEF Fit, back
(* What a plan captured at a path, unless there was nothing.               *)
Captures(op, tree, cmd) ==
  \A w \in Touched(op) \cup DOMAIN op.before :
    tree[w] = Absent \/ w \in Observed(tree, cmd.to) \cup {Slot[s] : s \in Fresh(tree, cmd)}

(* The managed files: what was found is replaced, and what is created had  *)
(* nothing in its place or the same text.                                  *)
LEMMA ManagedCreates ==
  ASSUME NEW tree, NEW cmd, Plannable(tree, cmd), NEW op \in Entries(PublishManaged(tree, cmd))
  PROVE  /\ Invertible(op, tree) /\ Creates(op, tree) /\ Captures(op, tree, cmd)
         /\ Touched(op) \cup DOMAIN op.before \subseteq DOMAIN BaseOf
<1> DEFINE old == AcceptedProjection(tree)
           next == Renders[cmd.to]
           stays == {a \in Artifacts(tree, cmd) : Verdict(tree, cmd, a) # Absent}
           before == TreeBefore(tree, cmd)
           after == TreeAfter(tree, cmd)
<1>1. op = [kind |-> "tree", before |-> before, after |-> after]
  BY WhenSaysOne DEF PublishManaged
<1>2. /\ Readable(tree) /\ IsCommand(cmd) /\ cmd.to \in Model /\ MovedOnto(tree, cmd) = {}
      /\ \A a \in Artifacts(tree, cmd) : Verdict(tree, cmd, a) # Refused
  BY DEF Plannable, PlanRefused, IsCommand
<1>3. PartialFunction(before, DOMAIN BaseOf, Text) /\ PartialFunction(after, DOMAIN BaseOf, Text)
  BY ManagedTrees
<1>4. Touched(op) \cup DOMAIN op.before \subseteq DOMAIN BaseOf /\ Written(op) = DOMAIN after
  BY <1>1, <1>3 DEF PartialFunction, Touched, Written, Retired
<1>5. ASSUME NEW w \in DOMAIN before
      PROVE  before[w] = tree[w] /\ \E a \in OldArtifacts(tree) : w = LivePath(tree, cmd.to, a)
  BY DEF TreeBefore
<1>6. Invertible(op, tree)
  BY <1>1, <1>5 DEF Invertible
<1>7. IsProjection(old) /\ IsProjection(next) /\ Absent \notin Text
  BY <1>2, AcceptedTyped, RendersAssumption, ImagesAssumption, AbsentAssumption DEF IsProjection
<1>8. ASSUME NEW w \in DOMAIN after
      PROVE  \E a \in stays : w = OutputPath(tree, cmd.to, a) /\ after[w] = Verdict(tree, cmd, a)
  <2>1. after = [v \in {OutputPath(tree, cmd.to, a) : a \in stays} |->
                   Verdict(tree, cmd, CHOOSE a \in stays : OutputPath(tree, cmd.to, a) = v)]
    BY DEF TreeAfter
  <2> HIDE DEF stays, after
  <2>2. \E a \in stays : OutputPath(tree, cmd.to, a) = w
    BY <1>8, <2>1
  <2> QED
    BY <1>8, <2>1, <2>2
<1>9. ASSUME NEW w \in DOMAIN after \ DOMAIN before PROVE tree[w] \in {Absent, after[w]}
  <2>1. PICK a \in stays : w = OutputPath(tree, cmd.to, a) /\ after[w] = Verdict(tree, cmd, a)
    BY <1>8
  <2>2. Verdict(tree, cmd, a) \notin {Absent, Refused} /\ a \in Artifacts(tree, cmd)
    BY <1>2, <2>1
  <2>3. CASE a \in OldArtifacts(tree) /\ a \in DOMAIN next
    <3>1. a \notin Ejects[cmd.to]
      BY <1>2, <2>3, RendersAssumption
    <3>2. CASE w = LivePath(tree, cmd.to, a)
      BY <2>3, <3>1, <3>2 DEF TreeBefore
    <3>3. CASE w # LivePath(tree, cmd.to, a)
      BY <1>2, <2>1, <2>3, <3>3 DEF MovedOnto
    <3> QED
      BY <3>2, <3>3
  <2>4. CASE a \notin DOMAIN next
    <3>1. a \in DOMAIN old /\ TextIn(next, a) = Absent /\ TextIn(old, a) # Absent
      BY <1>7, <2>2, <2>4 DEF Artifacts, OldArtifacts, TextIn, IsProjection
    <3>2. Verdict(tree, cmd, a) \in {Absent, Refused}
      BY <3>1 DEF Verdict, Settled, Dropped
    <3> QED
      BY <2>2, <3>2
  <2>5. CASE a \notin OldArtifacts(tree) /\ a \in DOMAIN next
    <3>1. TextIn(old, a) = Absent /\ TextIn(next, a) # Absent /\ LivePath(tree, cmd.to, a) = w
      BY <1>7, <2>1, <2>5 DEF OldArtifacts, TextIn, IsProjection, LivePath, OutputPath
    <3>2. Verdict(tree, cmd, a) = Claimed(tree[w], TextIn(next, a))
      BY <3>1 DEF Verdict, Settled
    <3> QED
      BY <2>1, <2>2, <3>2 DEF Claimed
  <2> QED
    BY <2>3, <2>4, <2>5
<1>10. Creates(op, tree)
  BY <1>1, <1>4, <1>9 DEF Creates
<1>11. ASSUME NEW w \in DOMAIN before \cup DOMAIN after PROVE w \in Observed(tree, cmd.to)
  <2>1. ASSUME NEW a \in OldArtifacts(tree) PROVE LivePath(tree, cmd.to, a) \in Observed(tree, cmd.to)
    BY DEF OldArtifacts, LivePath, PathsIn, Observed
  <2>2. ASSUME NEW a \in DOMAIN next PROVE OutputPath(tree, cmd.to, a) \in Observed(tree, cmd.to)
    BY DEF OutputPath, PathsIn, Observed
  <2>3. ASSUME NEW a \in OldArtifacts(tree) \ DOMAIN next PROVE OutputPath(tree, cmd.to, a) = LivePath(tree, cmd.to, a)
    BY DEF OutputPath
  <2>4. ASSUME w \in DOMAIN after PROVE w \in Observed(tree, cmd.to)
    <3>1. PICK a \in stays : w = OutputPath(tree, cmd.to, a)
      BY <1>8, <2>4
    <3>2. a \in OldArtifacts(tree) \/ a \in DOMAIN next
      BY DEF Artifacts
    <3> QED
      BY <2>1, <2>2, <2>3, <3>1, <3>2
  <2> QED
    BY <1>5, <2>1, <2>4
<1>12. Captures(op, tree, cmd)
  BY <1>1, <1>11 DEF Captures, Touched, Written, Retired
<1> QED
  BY <1>4, <1>6, <1>10, <1>12

(* The merge base: the accepted one was found, whole, and a stray is taken *)
(* away as it was found.                                                   *)
LEMMA BaseCreates ==
  ASSUME NEW tree, NEW cmd, Plannable(tree, cmd),
         NEW op \in Entries(PublishBase(tree, cmd)) \cup Entries(RetireStrays(tree, cmd))
  PROVE  /\ Invertible(op, tree) /\ Creates(op, tree) /\ Captures(op, tree, cmd)
         /\ Touched(op) \cup DOMAIN op.before \subseteq BasePaths
         /\ op \in Entries(RetireStrays(tree, cmd)) =>
              /\ Written(op) = {}
              /\ DOMAIN op.before \cap (DOMAIN BaseTree(AcceptedProjection(tree)) \cup DOMAIN BaseTree(Renders[cmd.to])) = {}
         /\ op \in Entries(PublishBase(tree, cmd)) =>
              /\ Written(op) = DOMAIN BaseTree(Renders[cmd.to])
              /\ DOMAIN op.before = DOMAIN BaseTree(AcceptedProjection(tree))
<1> DEFINE old == BaseTree(AcceptedProjection(tree))
           new == BaseTree(Renders[cmd.to])
           strays == {w \in BasePaths \ (DOMAIN old \cup DOMAIN new) : tree[w] # Absent}
<1>1. Readable(tree) /\ IsCommand(cmd) /\ BaseIntact(tree)
  BY DEF Plannable, PlanRefused
<1>2. PartialFunction(old, BasePaths, Text) /\ PartialFunction(new, BasePaths, Text)
  BY <1>1, AcceptedTyped, BaseTyped, RendersAssumption DEF IsProjection, IsCommand
<1>3. ASSUME op \in Entries(PublishBase(tree, cmd))
      PROVE  op = [kind |-> "tree", before |-> old, after |-> new]
  BY <1>3, WhenSaysOne DEF PublishBase
<1>4. ASSUME op \in Entries(RetireStrays(tree, cmd))
      PROVE  op = [kind |-> "remove", before |-> Present(tree, strays), after |-> << >>]
  <2> DEFINE retire == [kind |-> "remove", before |-> Present(tree, strays), after |-> << >>]
  <2>1. RetireStrays(tree, cmd) = When(strays # {}, retire)
    BY DEF RetireStrays
  <2>2. op \in Entries(When(strays # {}, retire))
    BY <1>4, <2>1
  <2> HIDE DEF retire, strays
  <2>3. op = retire
    BY <2>2, WhenSaysOne
  <2> QED
    BY <2>3 DEF retire
<1>5. DOMAIN old \subseteq Observed(tree, cmd.to)
  BY DEF BaseTree, Observed
<1>6. \A w \in BasePaths : tree[w] = Absent \/ w \in Observed(tree, cmd.to)
  BY PathsAssumption DEF Observed
<1>7. CASE op \in Entries(PublishBase(tree, cmd))
  <2>1. Written(op) = DOMAIN new /\ DOMAIN op.before = DOMAIN old /\ Touched(op) \subseteq DOMAIN old \cup DOMAIN new
    BY <1>3, <1>7 DEF Written, Touched, Retired
  <2>2. Invertible(op, tree)
    BY <1>1, <1>3, <1>7 DEF Invertible, BaseIntact
  <2>3. Creates(op, tree)
    BY <1>2, <2>1 DEF Creates, PartialFunction
  <2>4. Touched(op) \cup DOMAIN op.before \subseteq BasePaths
    BY <1>2, <2>1 DEF PartialFunction
  <2>5. Captures(op, tree, cmd)
    BY <1>6, <2>4 DEF Captures
  <2>6. op \in Entries(RetireStrays(tree, cmd)) => FALSE
    BY <1>3, <1>4, <1>7
  <2> QED
    BY <2>1, <2>2, <2>3, <2>4, <2>5, <2>6
<1>8. CASE op \in Entries(RetireStrays(tree, cmd))
  <2>1. DOMAIN Present(tree, strays) \subseteq strays /\ \A w \in DOMAIN Present(tree, strays) : Present(tree, strays)[w] = tree[w]
    BY DEF Present
  <2>2. Written(op) = {} /\ DOMAIN op.before \subseteq strays /\ Touched(op) \subseteq strays
    BY <1>4, <1>8, <2>1 DEF Written, Touched, Retired
  <2>3. Invertible(op, tree) /\ Creates(op, tree)
    BY <1>4, <1>8, <2>1, <2>2 DEF Invertible, Creates
  <2>4. Touched(op) \cup DOMAIN op.before \subseteq BasePaths
    BY <2>2
  <2>5. Captures(op, tree, cmd)
    BY <1>6, <2>4 DEF Captures
  <2>6. op \in Entries(PublishBase(tree, cmd)) => FALSE
    BY <1>3, <1>4, <1>8
  <2> QED
    BY <2>2, <2>3, <2>4, <2>5, <2>6
<1> QED
  BY <1>7, <1>8

(* A fresh migration was not there.                                        *)
LEMMA AppendCreates ==
  ASSUME NEW tree, NEW cmd, Plannable(tree, cmd), NEW op \in Entries(Appends(tree, cmd))
  PROVE  /\ Invertible(op, tree) /\ Creates(op, tree) /\ Captures(op, tree, cmd)
         /\ DOMAIN op.before = {} /\ Touched(op) \subseteq MigrationPaths
<1>1. PICK i \in DOMAIN Drafted(tree, cmd) :
        op = [kind |-> "append", before |-> << >>,
              after |-> [w \in {Slot[Allotted(tree, cmd, i)]} |-> Drafted(tree, cmd)[i]]]
  BY DEF Appends, Entries
<1> DEFINE s == Allotted(tree, cmd, i)
<1>2. s \in Fresh(tree, cmd) /\ s \in DOMAIN Slot /\ s \notin Taken(tree)
  BY FreshIsNew DEF Fresh
<1>3. tree[Slot[s]] = Absent
  BY <1>2 DEF Taken
<1>4. DOMAIN op.before = {} /\ Written(op) = {Slot[s]} /\ Touched(op) = {Slot[s]}
  BY <1>1 DEF Written, Touched, Retired
<1> HIDE DEF s
<1> QED
  BY <1>2, <1>3, <1>4 DEF Invertible, Creates, Captures, MigrationPaths

(* The model and the lock: what was there is replaced.                     *)
LEMMA StateCreates ==
  ASSUME NEW tree, NEW cmd, Plannable(tree, cmd),
         NEW op \in Entries(ReplaceModel(tree, cmd)) \cup Entries(ReplaceLock(tree, cmd))
  PROVE  /\ Invertible(op, tree) /\ Creates(op, tree) /\ Captures(op, tree, cmd)
         /\ op \in Entries(ReplaceModel(tree, cmd)) => Touched(op) \cup DOMAIN op.before = {ModelFile}
         /\ op \in Entries(ReplaceLock(tree, cmd)) => Touched(op) \cup DOMAIN op.before = {LockFile}
<1>1. ASSUME NEW w \in {ModelFile, LockFile}, op.before = Present(tree, {w}), Written(op) = {w}
      PROVE  /\ Invertible(op, tree) /\ Creates(op, tree) /\ Captures(op, tree, cmd)
             /\ Touched(op) \cup DOMAIN op.before = {w}
  <2>1. DOMAIN op.before \subseteq {w} /\ \A v \in DOMAIN op.before : op.before[v] = tree[v]
    BY <1>1 DEF Present
  <2>2. w \in DOMAIN op.before \/ tree[w] = Absent
    BY <1>1 DEF Present
  <2>3. Touched(op) = {w}
    BY <1>1, <2>1 DEF Touched, Retired
  <2>4. w \in Observed(tree, cmd.to)
    BY DEF Observed
  <2> QED
    BY <1>1, <2>1, <2>2, <2>3, <2>4 DEF Invertible, Creates, Captures
<1>2. ASSUME op \in Entries(ReplaceModel(tree, cmd))
      PROVE  op.before = Present(tree, {ModelFile}) /\ Written(op) = {ModelFile}
  <2> DEFINE replaced == [kind |-> "file", before |-> Present(tree, {ModelFile}), after |-> [v \in {ModelFile} |-> cmd.to]]
  <2>1. ReplaceModel(tree, cmd) = When(cmd.to # cmd.from, replaced)
    BY DEF ReplaceModel
  <2> HIDE DEF replaced
  <2>2. op \in Entries(When(cmd.to # cmd.from, replaced))
    BY <1>2, <2>1
  <2>3. op = replaced
    BY <2>2, WhenSaysOne
  <2> QED
    BY <2>3 DEF replaced, Written
<1>3. ASSUME op \in Entries(ReplaceLock(tree, cmd))
      PROVE  op.before = Present(tree, {LockFile}) /\ Written(op) = {LockFile}
  <2> DEFINE replaced == [kind |-> "file", before |-> Present(tree, {LockFile}),
                          after |-> [v \in {LockFile} |-> LockAfter(tree, cmd)]]
  <2>1. ReplaceLock(tree, cmd) = When(tree[LockFile] # LockAfter(tree, cmd), replaced)
    BY DEF ReplaceLock, LockAfter
  <2>2. op = replaced
    BY <1>3, <2>1, WhenSaysOne
  <2> QED
    BY <2>2 DEF Written
<1> QED
  BY <1>1, <1>2, <1>3

(* So every operation of a generation can be taken back, and no two of     *)
(* them meet.                                                              *)
LEMMA MovesCreate ==
  ASSUME NEW tree, NEW cmd, Plannable(tree, cmd), ~RestoresMissing(cmd.restore), NEW op \in Moves(tree, cmd)
  PROVE  /\ Invertible(op, tree) /\ Creates(op, tree) /\ Captures(op, tree, cmd)
         /\ \A other \in Moves(tree, cmd) : DOMAIN op.before \cap Written(other) \subseteq DOMAIN other.before
<1> DEFINE managed == Entries(PublishManaged(tree, cmd))
           base == Entries(PublishBase(tree, cmd))
           strays == Entries(RetireStrays(tree, cmd))
           appends == Entries(Appends(tree, cmd))
           model == Entries(ReplaceModel(tree, cmd))
           lock == Entries(ReplaceLock(tree, cmd))
<1>1. Entries(RestoreSealed(tree, cmd)) = {}
  <2>1. Restored(tree, cmd) = {}
    BY DEF Restored
  <2> QED
    BY <2>1, WhenSaysOne DEF RestoreSealed
<1>2. Moves(tree, cmd) = managed \cup base \cup strays \cup appends \cup model \cup lock
  BY <1>1 DEF Moves, FrontMoves
<1>3. \A o \in base \cup strays : Invertible(o, tree) /\ Creates(o, tree) /\ Captures(o, tree, cmd)
  BY BaseCreates
<1>4. \A o \in model \cup lock : Invertible(o, tree) /\ Creates(o, tree) /\ Captures(o, tree, cmd)
  BY StateCreates
<1>5. Invertible(op, tree) /\ Creates(op, tree) /\ Captures(op, tree, cmd)
  BY <1>2, <1>3, <1>4, ManagedCreates, AppendCreates
<1>6. ASSUME NEW other \in Moves(tree, cmd), NEW w \in DOMAIN op.before \cap Written(other)
      PROVE  w \in DOMAIN other.before
  <2> DEFINE Reach(o) == Touched(o) \cup DOMAIN o.before
  <2>1. w \in Reach(op) /\ w \in Reach(other)
    BY <1>6 DEF Touched
  <2>2. \A o \in managed : Reach(o) \subseteq DOMAIN BaseOf
    BY ManagedCreates
  <2>3. \A o \in base \cup strays : Reach(o) \subseteq BasePaths
    BY BaseCreates
  <2>4. \A o \in appends : Touched(o) \subseteq MigrationPaths /\ DOMAIN o.before = {}
    BY AppendCreates
  <2>5. \A o \in model : Reach(o) = {ModelFile}
    BY StateCreates
  <2>6. \A o \in lock : Reach(o) = {LockFile}
    BY StateCreates
  <2>7. CASE op \in managed /\ other \in managed
    <3>1. op = other
      BY <2>7, WhenSaysOne DEF PublishManaged
    <3> QED
      BY <1>6, <3>1
  <2>8. CASE op \in base \cup strays /\ other \in base \cup strays
    <3>1. CASE other \in strays
      BY <1>6, <3>1, BaseCreates
    <3>2. CASE op \in strays /\ other \in base
      BY <1>6, <3>2, BaseCreates
    <3>3. CASE op \in base /\ other \in base
      BY <1>6, <3>3, BaseCreates
    <3> QED
      BY <2>8, <3>1, <3>2, <3>3
  <2>9. CASE op \in model /\ other \in model
    <3>1. op = other
      BY <2>9, WhenSaysOne DEF ReplaceModel
    <3> QED
      BY <1>6, <3>1
  <2>10. CASE op \in lock /\ other \in lock
    <3>1. op = other
      BY <2>10, WhenSaysOne DEF ReplaceLock
    <3> QED
      BY <1>6, <3>1
  <2>11. op \notin appends
    BY <1>6, <2>4
  <2> HIDE DEF Reach, managed, base, strays, appends, model, lock
  <2>12. w \in MigrationPaths => other \notin managed \cup base \cup strays \cup model \cup lock
    BY <2>1, <2>2, <2>3, <2>5, <2>6, KindsOfPath
  <2>13. other \in appends => op \in appends
    <3>1. CASE other \in appends
      <4>1. w \in MigrationPaths
        BY <1>6, <2>4, <3>1 DEF Touched
      <4> QED
        BY <1>2, <2>1, <2>2, <2>3, <2>5, <2>6, <4>1, KindsOfPath
    <3> QED
      BY <3>1
  <2>14. other \in managed \cup base \cup strays \cup model \cup lock /\ op \in managed \cup base \cup strays \cup model \cup lock
    BY <1>2, <2>11, <2>13
  <2>15. \/ op \in managed /\ other \in managed
         \/ op \in base \cup strays /\ other \in base \cup strays
         \/ op \in model /\ other \in model
         \/ op \in lock /\ other \in lock
    BY <2>1, <2>2, <2>3, <2>5, <2>6, <2>14, PathsAssumption
  <2> QED
    BY <2>7, <2>8, <2>9, <2>10, <2>15
<1> QED
  BY <1>5, <1>6

(* What undo reads back: a plan made by a command that is not a repair.    *)
Undoable(b) ==
  \E tree, d, cmd :
    Plannable(tree, cmd) /\ ~RestoresMissing(cmd.restore) /\ b = Materialized(tree, d, cmd)

(* Its inverse puts back what was captured, and takes away what was not.   *)
LEMMA UndoneAsCaptured ==
  ASSUME NEW b, Undoable(b), NEW w \in TouchedPaths(b)
  PROVE  LET back == InverseBundle(b)
         IN /\ w \in TouchedPaths(back)
            /\ \/ Desired(back, w) = CapturedAt(b, w)
               \/ Desired(back, w) = Absent /\ (CapturedAt(b, w) = Desired(b, w) \/ w \in Leftover(b))
<1> DEFINE back == InverseBundle(b)
<1>1. PICK tree, d, cmd :
        Plannable(tree, cmd) /\ ~RestoresMissing(cmd.restore) /\ b = Materialized(tree, d, cmd)
  BY DEF Undoable
<1>2. Fit(b) /\ b.ops = Operations(tree, cmd)
  BY <1>1, MaterializedIsFit DEF Materialized
<1>3. \A i \in DOMAIN b.ops : b.ops[i] \in Moves(tree, cmd)
  BY <1>1, <1>2, SequenceOfMoves DEF Entries
<1>4. InvertibleBundle(b, tree)
  BY <1>1, <1>2, <1>3, MovesCreate DEF InvertibleBundle
<1>5. PICK i \in DOMAIN b.ops : w \in Touched(b.ops[i])
  BY DEF TouchedPaths, DesiredPaths, RemovedPaths, Touched
<1>6. CapturedAt(b, w) = tree[w]
  <2>1. tree[w] = Absent \/ w \in Observed(tree, cmd.to) \cup {Slot[s] : s \in Fresh(tree, cmd)}
    BY <1>1, <1>3, <1>5, MovesCreate DEF Captures
  <2>2. /\ Observed(tree, cmd.to) \cup {Slot[s] : s \in Fresh(tree, cmd)} \subseteq DOMAIN b.base
        /\ \A v \in DOMAIN b.base : b.base[v] = tree[v]
    BY <1>1 DEF Materialized, Fresh, Allotments
  <2> QED
    BY <2>1, <2>2 DEF CapturedAt
<1>7. Leftover(b) = BasePaths \ DOMAIN BaseTree(AcceptedProjection(tree))
  BY <1>1, LockCaptured DEF Leftover, AcceptedProjection
<1>8. CASE w \in DOMAIN b.ops[i].before
  <2>1. w \in DesiredPaths(back) /\ Desired(back, w) = tree[w]
    BY <1>4, <1>8, InverseIsFit
  <2> QED
    BY <1>6, <2>1 DEF TouchedPaths
<1>9. CASE w \notin DOMAIN b.ops[i].before
  <2>1. w \in Written(b.ops[i]) \ DOMAIN b.ops[i].before
    BY <1>5, <1>9 DEF Touched, Retired
  <2>2. w \in RemovedPaths(back) /\ Desired(back, w) = Absent
    BY <1>4, <2>1, InverseIsFit
  <2>3. tree[w] \in {Absent, b.ops[i].after[w]} \/ w \in Leftover(b)
    BY <1>1, <1>3, <1>7, <2>1, MovesCreate DEF Creates
  <2>4. Desired(b, w) = b.ops[i].after[w]
    BY <1>2, <2>1, DesiredImage DEF Fit
  <2> QED
    BY <1>6, <2>2, <2>3, <2>4 DEF TouchedPaths
<1> QED
  BY <1>8, <1>9

-----------------------------------------------------------------------------
(* Somebody who does not take the lock, but for the editor: the formatter, *)
(* which everybody sees write, and a process that gives up a command whose *)
(* plan is applied.                                                        *)
Meddle ==
  /\ disk' \in Tree
  /\ \E some \in SUBSET Path :
       /\ foreign' = [q \in Proc |-> foreign[q] \cup some]
       /\ \A w \in Path \ some : disk'[w] = disk[w]
  /\ faults' \in 0 .. MaxFaults
  /\ UNCHANGED <<made, debris, holder, pc, progress, edits>>

(* It is accounted for like an editor's save.                              *)
LEMMA MeddlingIsAccounted ==
  ASSUME Meddle
  PROVE  Accounted /\ \A q \in Proc : Recorded(q) /\ foreign[q] \subseteq foreign'[q]
  BY DEF Meddle, Accounted, Recorded, progress

LEMMA MeddlingKeeps ==
  ASSUME IInv, Meddle
  PROVE  IInv'
<1>1. /\ Typed /\ OneWriter /\ StagedIsLive /\ Staging /\ Nearby
      /\ Cleared /\ SweptClean /\ Admissible /\ InOrder /\ Guarded
  BY DEF IInv
<1>2. UNCHANGED <<made, debris, holder, pc, job, at, left, temp, aim, edits>>
  BY DEF Meddle, progress
<1>3. \A q \in Proc : foreign[q] \subseteq foreign'[q] /\ \A w \in Path \ foreign'[q] : disk'[w] = disk[w]
  BY DEF Meddle
<1>4. Typed'
  BY <1>1, <1>2 DEF Meddle, Typed
<1>5. OneWriter' /\ StagedIsLive' /\ Staging' /\ Nearby' /\ Cleared' /\ SweptClean'
  BY <1>1, <1>2, <1>3 DEF OneWriter, StagedIsLive, Staging, Nearby, Cleared, SweptClean
<1>6. Admissible'
  BY <1>1, MeddlingIsAccounted, AdmissibleStep
<1>7. InOrder'
  <2> SUFFICES ASSUME NEW q \in Proc, pc'[q] = "publishing", NEW w \in Path \ foreign'[q], Behind(q, w)'
               PROVE  disk'[w] = Desired(job'[q], w)
    BY DEF InOrder
  <2>1. Behind(q, w) /\ w \notin foreign[q] /\ disk'[w] = disk[w]
    BY <1>2, <1>3 DEF Behind
  <2> QED
    BY <1>1, <1>2, <2>1 DEF InOrder
<1>8. Guarded'
  <2> SUFFICES ASSUME NEW q \in Proc, pc'[q] # "idle", GuardsAppends(job'[q])
               PROVE  /\ \A w \in Path \ foreign'[q] :
                           DirOf[w] \in DOMAIN job'[q].dirs => GuardedPath(disk', job'[q], w)
                      /\ \A d \in DOMAIN job'[q].dirs \ foreign'[q] : GuardedDir(debris', job'[q], d)
    BY DEF Guarded
  <2>1. pc[q] # "idle" /\ job'[q] = job[q] /\ GuardsAppends(job[q]) /\ debris' = debris
    BY <1>2
  <2>2. ASSUME NEW w \in Path \ foreign'[q], DirOf[w] \in DOMAIN job[q].dirs PROVE GuardedPath(disk', job[q], w)
    <3>1. GuardedPath(disk, job[q], w) /\ disk'[w] = disk[w]
      BY <1>1, <1>3, <2>1, <2>2 DEF Guarded
    <3> QED
      BY <3>1 DEF GuardedPath
  <2>3. ASSUME NEW d \in DOMAIN job[q].dirs \ foreign'[q] PROVE GuardedDir(debris, job[q], d)
    BY <1>1, <1>3, <2>1 DEF Guarded
  <2> QED
    BY <2>1, <2>2, <2>3
<1> QED
  BY <1>4, <1>5, <1>6, <1>7, <1>8 DEF IInv

-----------------------------------------------------------------------------
(* A plan that was applied is there, but for what somebody else has        *)
(* changed since it was admitted.                                          *)
Finished ==
  \A p \in Proc : pc[p] = "done" =>
    \A w \in TouchedPaths(job[p]) \ foreign[p] : disk[w] = Desired(job[p], w)

(* A run ends well where `verify_after` has found its plan applied.        *)
LEMMA DoneBy ==
  ASSUME IInv, [OpenNext]_vars, NEW q \in Proc, pc'[q] = "done"
  PROVE  \/ pc[q] = "done"
         \/ disk' = disk /\ job' = job /\ Applied(disk, job[q])
<1> DEFINE Found == pc[q] = "done" \/ (disk' = disk /\ job' = job /\ Applied(disk, job[q]))
<1>1. pc = [p \in Proc |-> pc[p]]
  BY DEF IInv, Typed
<1>2. UNCHANGED vars => Found
  BY DEF vars
<1>3. ASSUME NEW p \in Proc, NEW b, Hand(p, b) PROVE Found
  BY <1>1, <1>3 DEF Hand, Goto
<1>4. ASSUME NEW p \in Proc, Rerun(p) \/ Acquire(p) \/ FinishOperations(p) PROVE Found
  BY <1>1, <1>4 DEF Rerun, Acquire, FinishOperations, Goto
<1>5. ASSUME NEW p \in Proc, Sweep(p) \/ Admit(p) \/ StartOperations(p) PROVE Found
  BY <1>1, <1>5 DEF Sweep, Admit, StartOperations, Goto
<1>6. ASSUME NEW p \in Proc, Refuse(p) PROVE Found
  BY <1>1, <1>6 DEF Refuse, Leave, Goto
<1>7. ASSUME NEW p \in Proc, Verify(p) PROVE Found
  BY <1>1, <1>7 DEF Verify, Leave, Goto, files
<1>8. ASSUME NEW p \in Proc, Fail(p) \/ Abort(p) PROVE Found
  BY <1>1, <1>8 DEF Fail, Abort, Leave, Goto
<1>9. ASSUME NEW p \in Proc, NEW d \in Dir, Probe(p, d) PROVE Found
  BY <1>9 DEF Probe
<1>10. ASSUME NEW p \in Proc, NEW w \in Path, SkipWrite(p, w) \/ Stage(p, w) \/ RemoveRetired(p, w) PROVE Found
  BY <1>10 DEF SkipWrite, Stage, RemoveRetired
<1>11. ASSUME NEW p \in Proc, DropProbe(p) \/ Persist(p) \/ NextOperation(p) PROVE Found
  BY <1>11 DEF DropProbe, Persist, NextOperation
<1>12. ASSUME NEW w \in Path, NEW c \in Content, Edit(w, c) PROVE Found
  BY <1>12 DEF Edit
<1> QED
  BY <1>2, <1>3, <1>4, <1>5, <1>6, <1>7, <1>8, <1>9, <1>10, <1>11, <1>12 DEF OpenNext, OpenStep, Work

LEMMA FinishedStep ==
  ASSUME IInv, Finished, [OpenNext]_vars \/ Meddle
  PROVE  Finished'
<1> SUFFICES ASSUME NEW q \in Proc, pc'[q] = "done", NEW w \in TouchedPaths(job'[q]) \ foreign'[q]
             PROVE  disk'[w] = Desired(job'[q], w)
  BY DEF Finished
<1>1. Accounted
  BY AccountStep, MeddlingIsAccounted DEF IInv
<1>2. IInv'
  BY Inductive, MeddlingKeeps
<1>3. w \in Path
  <2>1. IsBundle(job[q])'
    BY <1>2 DEF IInv, Staging, Fit
  <2> QED
    BY <2>1, TouchedTypes DEF TouchedPaths
<1>4. CASE pc[q] = "done"
  <2>1. ~Balanced(q) /\ ~Opened(q)
    BY <1>3, <1>4 DEF Balanced, Opened
  <2>2. Recorded(q)
    BY <1>1, <2>1 DEF Accounted
  <2>3. disk[w] = Desired(job[q], w)
    BY <1>4, <2>2 DEF Finished, Recorded
  <2> QED
    BY <1>3, <2>2, <2>3 DEF Recorded
<1>5. CASE pc[q] # "done"
  <2>1. ~Meddle
    BY <1>5 DEF Meddle
  <2>2. disk' = disk /\ job' = job /\ Applied(disk, job[q])
    BY <1>5, <2>1, DoneBy
  <2> QED
    BY <2>2 DEF Applied
<1> QED
  BY <1>4, <1>5
-----------------------------------------------------------------------------
(* What a plan, or an inverse, puts where a plan will look.                *)
Bearable(w, c) ==
  /\ w \in DOMAIN BaseOf => c \in Text \cup {Absent}
  /\ w = LockFile => c = Absent \/ IsLock(c)

Lawful(b) == \A w \in DesiredPaths(b) : Bearable(w, Desired(b, w))

LEMMA PlansAreLawful ==
  ASSUME NEW tree, NEW d, NEW cmd, Plannable(tree, cmd)
  PROVE  Lawful(Materialized(tree, d, cmd))
  BY MaterializedIsFit, TargetTyped, LockIsLock DEF Lawful, Bearable

LEMMA InversesAreLawful ==
  ASSUME NEW b, Undoable(b)
  PROVE  Fit(InverseBundle(b)) /\ Lawful(InverseBundle(b))
<1> DEFINE back == InverseBundle(b)
<1>1. PICK tree, d, cmd :
        Plannable(tree, cmd) /\ ~RestoresMissing(cmd.restore) /\ b = Materialized(tree, d, cmd)
  BY DEF Undoable
<1>2. Fit(b) /\ b.ops = Operations(tree, cmd)
  BY <1>1, MaterializedIsFit DEF Materialized
<1>3. \A i \in DOMAIN b.ops : b.ops[i] \in Moves(tree, cmd)
  BY <1>1, <1>2, SequenceOfMoves DEF Entries
<1>4. InvertibleBundle(b, tree)
  BY <1>1, <1>2, <1>3, MovesCreate DEF InvertibleBundle
<1>5. ASSUME NEW w \in DesiredPaths(back) PROVE Bearable(w, Desired(back, w))
  <2>1. PICK i \in DOMAIN b.ops : w \in DOMAIN b.ops[i].before
    BY <1>4, <1>5, InverseIsFit
  <2>2. Desired(back, w) = tree[w]
    BY <1>4, <2>1, InverseIsFit
  <2> QED
    BY <1>1, <2>2 DEF Plannable, Readable, Bearable
<1> QED
  BY <1>4, <1>5, InverseIsFit DEF Lawful

(* A lock is a file like any other, and no managed one.                    *)
LocksAreImages == \A lock : IsLock(lock) => lock \in Image \ Text

(* The formatter rewords a lock, and leaves it one.                        *)
LEMMA RewordedLock ==
  ASSUME NEW lock, IsLock(lock), NEW a \in DOMAIN lock.projection, NEW text \in Text
  PROVE  LET reworded == [lock EXCEPT !.projection[a].text = text]
         IN IsLock(reworded) /\ PathsIn(reworded.projection) = PathsIn(lock.projection)
<1> DEFINE reworded == [lock EXCEPT !.projection[a].text = text]
           Lettered(m, texts) == [v \in DOMAIN Renders[m] |-> [path |-> Renders[m][v].path, text |-> texts[v]]]
<1>1. PICK m \in Model : \E slots \in SUBSET Sealable, texts \in [DOMAIN Renders[m] -> Text] :
        lock = [model |-> m, projection |-> Lettered(m, texts), sealed |-> LockOf(m, slots).sealed]
  BY DEF IsLock
<1>2. PICK slots \in SUBSET Sealable, texts \in [DOMAIN Renders[m] -> Text] :
        lock = [model |-> m, projection |-> Lettered(m, texts), sealed |-> LockOf(m, slots).sealed]
  BY <1>1
<1> DEFINE others == [texts EXCEPT ![a] = text]
<1>3. others \in [DOMAIN Renders[m] -> Text] /\ a \in DOMAIN Renders[m]
  BY <1>2
<1>4. [lock.projection EXCEPT ![a].text = text] = Lettered(m, others)
  BY <1>2, <1>3
<1>5. reworded = [lock EXCEPT !.projection = Lettered(m, others)]
  <2>1. reworded = [lock EXCEPT !.projection = [lock.projection EXCEPT ![a].text = text]]
    OBVIOUS
  <2> HIDE DEF Lettered, others, reworded
  <2> QED
    BY <1>4, <2>1
<1>6. reworded = [model |-> m, projection |-> Lettered(m, others), sealed |-> LockOf(m, slots).sealed]
  <2> HIDE DEF Lettered, others, reworded
  <2> QED
    BY <1>2, <1>5
<1>7. IsLock(reworded)
  <2> HIDE DEF others, reworded
  <2> QED
    BY <1>3, <1>6 DEF IsLock
<1>8. PathsIn(reworded.projection) = PathsIn(lock.projection)
  <2>1. \A v \in DOMAIN Renders[m] : Lettered(m, others)[v].path = Lettered(m, texts)[v].path
    OBVIOUS
  <2>2. DOMAIN Lettered(m, others) = DOMAIN Renders[m] /\ DOMAIN Lettered(m, texts) = DOMAIN Renders[m]
    OBVIOUS
  <2>3. reworded.projection = Lettered(m, others) /\ lock.projection = Lettered(m, texts)
    BY <1>2, <1>6
  <2> HIDE DEF others, reworded, Lettered
  <2> QED
    BY <2>1, <2>2, <2>3 DEF PathsIn
<1> QED
  BY <1>7, <1>8

-----------------------------------------------------------------------------
(* What a run of the formatter holds in memory: a lock, and paths of it.   *)
Advancing ==
  advance # None =>
    /\ advance = [todo |-> advance.todo, lock |-> advance.lock, changed |-> advance.changed]
    /\ IsLock(advance.lock)
    /\ advance.todo \subseteq PathsIn(advance.lock.projection)

(* Write is a save that everybody sees.                                    *)
LEMMA WritesMeddle ==
  ASSUME IInv, Readable(disk), NEW w \in Path, NEW c \in Content, Bearable(w, c), Write(w, c), UNCHANGED <<Elsewhere, faults>>
  PROVE  Meddle /\ Readable(disk')
<1>1. disk \in Tree /\ disk' = [disk EXCEPT ![w] = c] /\ faults \in 0 .. MaxFaults
  BY DEF Write, IInv, Typed
<1>2. disk' \in Tree /\ \A v \in Path : disk'[v] = IF v = w THEN c ELSE disk[v]
  BY <1>1 DEF Tree
<1>3. \E some \in SUBSET Path :
        /\ foreign' = [q \in Proc |-> foreign[q] \cup some]
        /\ \A v \in Path \ some : disk'[v] = disk[v]
  <2>1. {w} \in SUBSET Path
    OBVIOUS
  <2> QED
    BY <1>2, <2>1 DEF Write
<1>4. Readable(disk')
  <2>1. DOMAIN BaseOf \subseteq Path /\ LockFile \in Path
    BY PathsAssumption
  <2> QED
    BY <1>2, <2>1 DEF Readable, Bearable
<1> QED
  BY <1>1, <1>2, <1>3, <1>4 DEF Meddle, Elsewhere, progress

(* So does a step that leaves the project as it is.                        *)
LEMMA IdlingMeddles ==
  ASSUME IInv, Readable(disk), UNCHANGED <<Elsewhere, disk, foreign>>, faults' \in 0 .. MaxFaults
  PROVE  Meddle /\ Readable(disk')
<1>1. disk \in Tree /\ foreign = [q \in Proc |-> foreign[q] \cup {}] /\ {} \in SUBSET Path
  BY DEF IInv, Typed
<1> QED
  BY <1>1 DEF Meddle, Elsewhere, progress

(* Spotless rewrites texts as texts, and leaves the lock alone.            *)
LEMMA ReformatMeddles ==
  ASSUME LocksAreImages, IInv, Readable(disk), Reformat
  PROVE  Meddle /\ Readable(disk') /\ Advancing'
<1> DEFINE tidied == [w \in Path |-> IF w \in Sources THEN [r \in Region |-> Tidy[disk[w][r]]] ELSE disk[w]]
<1>1. /\ disk' = tidied /\ disk \in Tree /\ faults \in 0 .. MaxFaults
      /\ foreign' = [q \in Proc |-> foreign[q] \cup {w \in Path : tidied[w] # disk[w]}]
      /\ UNCHANGED <<Elsewhere, faults>>
  BY DEF Reformat, IInv, Typed
<1>2. ASSUME NEW w \in Path PROVE disk'[w] = disk[w] \/ (disk'[w] \in Text /\ w # LockFile)
  <2>1. CASE w \in Sources
    <3>1. disk[w] \in [Region -> Word]
      BY <2>1 DEF Sources, Text
    <3>2. disk'[w] \in Text
      BY <1>1, <2>1, <3>1, TidyAssumption DEF Text
    <3>3. disk[w] \in Text /\ Absent \notin Text
      BY <2>1, ImagesAssumption, AbsentAssumption DEF Sources
    <3>4. w # LockFile
      BY <3>3 DEF Readable, LocksAreImages
    <3> QED
      BY <3>2, <3>4
  <2>2. CASE w \notin Sources
    BY <1>1, <2>2
  <2> QED
    BY <2>1, <2>2
<1>3. disk' \in Tree
  <2>1. \A w \in Path : disk'[w] \in Content
    BY <1>1, <1>2, ImagesAssumption DEF Tree, Content
  <2>2. disk' = [w \in Path |-> disk'[w]]
    BY <1>1
  <2> QED
    BY <2>1, <2>2 DEF Tree
<1>4. \E some \in SUBSET Path :
        /\ foreign' = [q \in Proc |-> foreign[q] \cup some]
        /\ \A w \in Path \ some : disk'[w] = disk[w]
  <2> DEFINE some == {w \in Path : tidied[w] # disk[w]}
  <2>1. some \in SUBSET Path /\ \A w \in Path \ some : disk'[w] = disk[w]
    BY <1>1
  <2> QED
    BY <1>1, <2>1
<1>5. Meddle
  BY <1>1, <1>3, <1>4 DEF Meddle, Elsewhere, progress
<1>6. Readable(disk')
  <2>1. DOMAIN BaseOf \subseteq Path /\ LockFile \in Path
    BY PathsAssumption
  <2> QED
    BY <1>2, <2>1 DEF Readable
<1>7. Advancing'
  <2> SUFFICES ASSUME advance' # None
               PROVE  /\ advance' = [todo |-> advance'.todo, lock |-> advance'.lock, changed |-> advance'.changed]
                      /\ IsLock(advance'.lock)
                      /\ advance'.todo \subseteq PathsIn(advance'.lock.projection)
    BY DEF Advancing
  <2>1. /\ disk[LockFile] # Absent
        /\ advance' = [todo |-> PathsIn(AcceptedProjection(disk)), lock |-> disk[LockFile], changed |-> FALSE]
    BY DEF Reformat
  <2>2. AcceptedProjection(disk) = disk[LockFile].projection
    BY <2>1 DEF AcceptedProjection
  <2> QED
    BY <2>1, <2>2 DEF Readable
<1> QED
  BY <1>5, <1>6, <1>7

(* A file that differs from the lock becomes its own merge base, and the   *)
(* lock to be written says so.                                             *)
LEMMA AdvanceBaseMeddles ==
  ASSUME IInv, Readable(disk), Advancing, NEW w \in DOMAIN BaseOf, AdvanceBase(w)
  PROVE  Meddle /\ Readable(disk') /\ Advancing'
<1> DEFINE lock == advance.lock
           a == Artifact(lock, w)
           reworded == [lock EXCEPT !.projection[a].text = disk[w]]
<1>1. /\ advance = [todo |-> advance.todo, lock |-> lock, changed |-> advance.changed]
      /\ IsLock(lock) /\ advance.todo \subseteq PathsIn(lock.projection) /\ w \in advance.todo
  BY DEF AdvanceBase, Advancing
<1>2. disk[w] \in Text /\ w \in Path
  BY PathsAssumption DEF AdvanceBase, Readable
<1>3. a \in DOMAIN lock.projection
  <2>1. \E v \in DOMAIN lock.projection : lock.projection[v].path = w
    BY <1>1 DEF PathsIn
  <2> QED
    BY <2>1 DEF Artifact
<1>4. IsLock(reworded) /\ PathsIn(reworded.projection) = PathsIn(lock.projection)
  <2> HIDE DEF a, lock
  <2> QED
    BY <1>1, <1>2, <1>3, RewordedLock
<1>5. advance' = [advance EXCEPT !.todo = @ \ {w}, !.changed = TRUE, !.lock = reworded]
  BY DEF AdvanceBase
<1>6. advance' = [todo |-> advance.todo \ {w}, lock |-> reworded, changed |-> TRUE]
  <2> HIDE DEF reworded, lock
  <2> QED
    BY <1>1, <1>5
<1>7. Advancing'
  <2> HIDE DEF reworded, lock
  <2>1. /\ advance' = [todo |-> advance'.todo, lock |-> advance'.lock, changed |-> advance'.changed]
        /\ IsLock(advance'.lock) /\ advance'.todo \subseteq PathsIn(advance'.lock.projection)
    BY <1>1, <1>4, <1>6
  <2> QED
    BY <2>1 DEF Advancing
<1>8. Meddle /\ Readable(disk')
  <2>1. BaseOf[w] \in Path /\ BaseOf[w] \notin DOMAIN BaseOf /\ BaseOf[w] # LockFile
    BY PathsAssumption DEF BasePaths
  <2>2. disk[w] \in Content /\ Bearable(BaseOf[w], disk[w])
    BY <1>2, <2>1, ImagesAssumption DEF Content, Bearable
  <2> QED
    BY <2>1, <2>2, WritesMeddle DEF AdvanceBase
<1> QED
  BY <1>7, <1>8

(* And so with every step of the formatter.                                *)
LEMMA FormatterMeddles ==
  ASSUME LocksAreImages, IInv, Readable(disk), Advancing, Formatter
  PROVE  Meddle /\ Readable(disk') /\ Advancing'
<1> DEFINE Goal == Meddle /\ Readable(disk') /\ Advancing'
<1>1. faults \in 0 .. MaxFaults /\ MaxFaults \in Nat
  BY BoundsAssumption DEF IInv, Typed
<1>2. CASE Reformat
  BY <1>2, ReformatMeddles
<1>3. ASSUME NEW w \in DOMAIN BaseOf, PassOver(w) PROVE Goal
  <2>1. Meddle /\ Readable(disk')
    BY <1>1, <1>3, IdlingMeddles DEF PassOver
  <2>2. /\ advance = [todo |-> advance.todo, lock |-> advance.lock, changed |-> advance.changed]
        /\ IsLock(advance.lock) /\ advance.todo \subseteq PathsIn(advance.lock.projection)
    BY <1>3 DEF PassOver, Advancing
  <2>3. advance' = [todo |-> advance.todo \ {w}, lock |-> advance.lock, changed |-> advance.changed]
    BY <1>3, <2>2 DEF PassOver
  <2>4. Advancing'
    BY <2>2, <2>3 DEF Advancing
  <2> QED
    BY <2>1, <2>4
<1>4. ASSUME NEW w \in DOMAIN BaseOf, AdvanceBase(w) PROVE Goal
  BY <1>4, AdvanceBaseMeddles
<1>5. CASE AdvanceLock
  <2>1. Advancing'
    BY <1>5 DEF AdvanceLock, Advancing
  <2>2. CASE advance.changed
    <3>1. IsLock(advance.lock)
      BY <1>5 DEF AdvanceLock, Advancing
    <3>2. /\ LockFile \in Path /\ LockFile \notin DOMAIN BaseOf
          /\ advance.lock \in Content /\ Bearable(LockFile, advance.lock)
      BY <3>1, PathsAssumption DEF LocksAreImages, Content, Bearable
    <3> QED
      BY <1>5, <2>1, <2>2, <3>2, WritesMeddle DEF AdvanceLock
  <2>3. CASE ~advance.changed
    BY <1>1, <1>5, <2>1, <2>3, IdlingMeddles DEF AdvanceLock
  <2> QED
    BY <2>2, <2>3
<1>6. CASE StopAdvance
  <2>1. faults' \in 0 .. MaxFaults
    BY <1>1, <1>6 DEF StopAdvance
  <2> QED
    BY <1>6, <2>1, IdlingMeddles DEF StopAdvance, Advancing
<1> QED
  BY <1>2, <1>3, <1>4, <1>5, <1>6 DEF Formatter

-----------------------------------------------------------------------------
(* Undo's inductive invariant.  What is kept, or about to be, was made by  *)
(* a command that appends and does not restore, so that it can be read     *)
(* backwards.                                                              *)
Undoing ==
  /\ tail = [p \in Proc |-> tail[p]]
  /\ Readable(disk)
  /\ Advancing
  /\ kept # None => Undoable(kept)
  /\ \A p \in Proc : pc[p] # "idle" => Lawful(job[p]) /\ (tail[p] = "remember" => Undoable(job[p]))

UInv == IInv /\ Finished /\ Undoing

(* What a command hands the executor.                                      *)
LEMMA GenerateIsHand ==
  ASSUME UInv, NEW p \in Proc, NEW cmd \in Commands, Generate(p, cmd)
  PROVE  /\ Plannable(disk, cmd)
         /\ Hand(p, Materialized(disk, debris, cmd))
         /\ Duty(cmd) = "remember" => Undoable(Materialized(disk, debris, cmd))
<1>1. Plannable(disk, cmd)
  BY CommandsAssumption DEF Generate, Plan, Plannable, UInv, Undoing, IInv, Typed
<1>2. Fit(Materialized(disk, debris, cmd))
  BY <1>1, MaterializedIsFit
<1>3. Duty(cmd) = "remember" => ~RestoresMissing(cmd.restore)
  BY DEF Duty, RestoresMissing
<1> QED
  BY <1>1, <1>2, <1>3 DEF Generate, Plan, Hand, Undoable

LEMMA UndoIsHand ==
  ASSUME UInv, NEW p \in Proc, UndoLast(p)
  PROVE  Hand(p, InverseBundle(kept)) /\ Lawful(InverseBundle(kept))
<1>1. Undoable(kept)
  BY DEF UndoLast, UInv, Undoing
<1> QED
  BY <1>1, InversesAreLawful DEF UndoLast, Free, Hand

LEMMA CeaseMeddles ==
  ASSUME IInv, NEW p \in Proc, Cease(p)
  PROVE  Meddle
<1>1. disk \in Tree /\ foreign = [q \in Proc |-> foreign[q] \cup {}] /\ {} \in SUBSET Path
      /\ faults' \in 0 .. MaxFaults
  BY BoundsAssumption DEF Cease, IInv, Typed
<1> QED
  BY <1>1 DEF Meddle, Cease, Elsewhere, progress

(* The reader edits as before.                                             *)
LEMMA ReadIsEdit ==
  ASSUME IInv, Read
  PROVE  \E w \in Path, c \in Content : Edit(w, c) /\ Bearable(w, c)
<1>1. ASSUME NEW w \in EditorPaths, Delete(w) PROVE w \in Path /\ Edit(w, Absent) /\ Absent \in Content /\ Bearable(w, Absent)
  BY <1>1, EditorAssumption DEF Delete, Content, Bearable
<1>2. ASSUME NEW w \in EditorPaths, NEW r \in Region, Type(w, r)
      PROVE  \E c \in Content : w \in Path /\ Edit(w, c) /\ Bearable(w, c)
  <2> DEFINE c == [disk[w] EXCEPT ![r] = Mine]
  <2>1. c \in Text
    BY <1>2, MineAssumption DEF Type, Text
  <2>2. c \in Content
    BY <2>1, ImagesAssumption DEF Content
  <2>3. Edit(w, c) /\ w \in DOMAIN BaseOf /\ w \in Path
    BY <1>2, EditorAssumption DEF Type
  <2>4. Bearable(w, c)
    <3> HIDE DEF c
    <3> QED
      BY <2>1, <2>3, PathsAssumption DEF Bearable
  <2> QED
    BY <2>2, <2>3, <2>4
<1> QED
  BY <1>1, <1>2 DEF Read, Reader

(* What is written where a plan will look, a plan can read.                *)
LEMMA BearableIsReadable ==
  ASSUME Readable(disk), \A w \in Path : disk'[w] = disk[w] \/ Bearable(w, disk'[w])
  PROVE  Readable(disk')
<1>1. DOMAIN BaseOf \subseteq Path /\ LockFile \in Path
  BY PathsAssumption
<1> QED
  BY <1>1 DEF Readable, Bearable

LEMMA RunsLeaveItReadable ==
  ASSUME UInv, NEW p \in Proc, Rerun(p) \/ Acquire(p) \/ Work(p) \/ Fail(p) \/ Abort(p)
  PROVE  Readable(disk')
<1>1. Typed /\ OneWriter /\ Staging /\ IInv /\ disk \in Tree
  BY DEF UInv, IInv, Typed
<1>2. OpenNext
  BY DEF OpenNext, OpenStep
<1>3. edits' = edits
  BY <1>1, RunsKeepPlans
<1>4. ASSUME NEW w \in Path, disk'[w] # disk[w] PROVE Bearable(w, disk'[w])
  <2>1. ASSUME NEW q \in Proc, aim[q] = w, Persist(q) PROVE Bearable(w, disk'[w])
    <3>1. w \in DesiredPaths(job[q]) /\ disk' = [disk EXCEPT ![w] = Desired(job[q], w)]
      BY <1>1, <2>1, PersistTypes
    <3>2. disk'[w] = Desired(job[q], w)
      BY <1>1, <3>1 DEF Tree
    <3>3. Lawful(job[q])
      BY <2>1 DEF Persist, Publishing, UInv, Undoing
    <3> QED
      BY <3>1, <3>2, <3>3 DEF Lawful
  <2>2. ASSUME NEW q \in Proc, RemoveRetired(q, w) PROVE Bearable(w, disk'[w])
    <3>1. disk'[w] = Absent
      BY <1>1, <2>2 DEF RemoveRetired, Tree
    <3> QED
      BY <3>1 DEF Bearable
  <2> QED
    BY <1>1, <1>2, <1>3, <1>4, <2>1, <2>2, WhoWrites
<1> QED
  BY <1>4, BearableIsReadable DEF UInv, Undoing

(* Every step of undo, of the commands it takes back, of the formatter and *)
(* of the reader is one of the executor, or is seen by all, and keeps this.*)
LEMMA UndoingStep ==
  ASSUME LocksAreImages, UInv, [UNext]_uvars
  PROVE  ([OpenNext]_vars \/ Meddle) /\ Undoing'
<1> DEFINE Goal == ([OpenNext]_vars \/ Meddle) /\ Undoing'
           Plain == \A q \in Proc : pc'[q] # "idle" => pc[q] # "idle" /\ job'[q] = job[q]
           Told(p) == \E duty \in {"nothing", "format", "forget", "advance"} : Then(p, duty)
<1>1. /\ IInv /\ Readable(disk) /\ Advancing /\ tail = [q \in Proc |-> tail[q]]
      /\ pc = [q \in Proc |-> pc[q]] /\ job = [q \in Proc |-> job[q]]
  BY DEF UInv, Undoing, IInv, Typed
<1>2. ASSUME Plain, (tail' = tail \/ \E p \in Proc : Told(p)), Readable(disk'), Advancing', kept' # None => Undoable(kept')
      PROVE  Undoing'
  <2>1. tail' = [q \in Proc |-> tail'[q]] /\ \A q \in Proc : tail'[q] = "remember" => tail[q] = "remember"
    BY <1>1, <1>2 DEF Then
  <2> QED
    BY <1>2, <2>1 DEF UInv, Undoing
<1>3. kept' = kept => (kept' # None => Undoable(kept'))
  BY DEF UInv, Undoing
<1>4. advance' = advance => Advancing'
  BY <1>1 DEF Advancing
<1>5. CASE UNCHANGED uvars
  <2>1. UNCHANGED vars /\ UNCHANGED <<advance, kept, tail>>
    BY <1>5 DEF uvars, fvars, vars
  <2>2. Plain /\ Readable(disk')
    BY <1>1, <2>1 DEF vars
  <2> QED
    BY <1>2, <1>3, <1>4, <2>1, <2>2
<1>6. ASSUME NEW p \in Proc, NEW cmd \in Commands, Generate(p, cmd) PROVE Goal
  <2> DEFINE b == Materialized(disk, debris, cmd)
  <2>1. Hand(p, b) /\ Plannable(disk, cmd) /\ (Duty(cmd) = "remember" => Undoable(b))
    BY <1>6, GenerateIsHand
  <2>2. Lawful(b)
    BY <2>1, PlansAreLawful
  <2> HIDE DEF b
  <2>3. /\ disk' = disk /\ kept' = kept /\ advance' = advance
        /\ tail' = [tail EXCEPT ![p] = Duty(cmd)] /\ job' = [job EXCEPT ![p] = b] /\ pc' = [pc EXCEPT ![p] = "waiting"]
    BY <1>6, <2>1 DEF Generate, Hand, Then, Goto, files
  <2>4. ASSUME NEW q \in Proc, pc'[q] # "idle"
        PROVE  Lawful(job'[q]) /\ (tail'[q] = "remember" => Undoable(job'[q]))
    <3>1. CASE q = p
      BY <1>1, <2>1, <2>2, <2>3, <3>1
    <3>2. CASE q # p
      BY <1>1, <2>3, <2>4, <3>2 DEF UInv, Undoing
    <3> QED
      BY <3>1, <3>2
  <2>5. tail' = [q \in Proc |-> tail'[q]] /\ Readable(disk')
    BY <1>1, <2>3
  <2>6. Undoing'
    BY <1>3, <1>4, <2>3, <2>4, <2>5 DEF Undoing
  <2> QED
    BY <2>1, <2>6 DEF OpenNext, OpenStep
<1>7. ASSUME NEW p \in Proc, UndoLast(p) PROVE Goal
  <2> DEFINE b == InverseBundle(kept)
  <2>1. Hand(p, b) /\ Lawful(b)
    BY <1>7, UndoIsHand
  <2> HIDE DEF b
  <2>2. /\ disk' = disk /\ kept' = kept /\ advance' = advance
        /\ tail' = [tail EXCEPT ![p] = "forget"] /\ job' = [job EXCEPT ![p] = b] /\ pc' = [pc EXCEPT ![p] = "waiting"]
    BY <1>7, <2>1 DEF UndoLast, Hand, Then, Goto, files
  <2>3. ASSUME NEW q \in Proc, pc'[q] # "idle"
        PROVE  Lawful(job'[q]) /\ (tail'[q] = "remember" => Undoable(job'[q]))
    <3>1. CASE q = p
      BY <1>1, <2>1, <2>2, <3>1
    <3>2. CASE q # p
      BY <1>1, <2>2, <2>3, <3>2 DEF UInv, Undoing
    <3> QED
      BY <3>1, <3>2
  <2>4. tail' = [q \in Proc |-> tail'[q]] /\ Readable(disk')
    BY <1>1, <2>2
  <2>5. Undoing'
    BY <1>3, <1>4, <2>2, <2>3, <2>4 DEF Undoing
  <2> QED
    BY <2>1, <2>5 DEF OpenNext, OpenStep
<1>8. ASSUME NEW p \in Proc, Run(p) PROVE Goal
  <2>1. Rerun(p) \/ Acquire(p) \/ Work(p) \/ Fail(p) \/ Abort(p)
    BY <1>8 DEF Run, Apply
  <2>2. Plain
    BY <1>1, <2>1, RunsKeepPlans
  <2>3. Readable(disk')
    BY <2>1, RunsLeaveItReadable
  <2>4. (tail' = tail \/ Told(p)) /\ kept' = kept /\ advance' = advance
    BY <1>8 DEF Run
  <2>5. OpenNext
    BY <2>1 DEF OpenNext, OpenStep
  <2> QED
    BY <1>2, <1>3, <1>4, <2>2, <2>3, <2>4, <2>5
<1>9. ASSUME NEW p \in Proc, Keep(p) PROVE Goal
  <2>1. UNCHANGED vars /\ advance' = advance /\ kept' = job[p] /\ Then(p, "format")
    BY <1>9 DEF Keep, pvars, vars
  <2>2. Undoable(kept')
    BY <1>9, <2>1 DEF Keep, UInv, Undoing
  <2>3. Plain /\ Readable(disk') /\ Told(p)
    BY <1>1, <2>1 DEF vars
  <2> QED
    BY <1>2, <1>4, <2>1, <2>2, <2>3
<1>10. ASSUME NEW p \in Proc, Forget(p) PROVE Goal
  <2>1. UNCHANGED vars /\ advance' = advance /\ kept' = None /\ Then(p, "nothing")
    BY <1>10 DEF Forget, pvars, vars
  <2>2. Plain /\ Readable(disk') /\ Told(p)
    BY <1>1, <2>1 DEF vars
  <2> QED
    BY <1>2, <1>4, <2>1, <2>2
<1>11. ASSUME NEW p \in Proc, Cease(p) PROVE Goal
  <2>1. /\ disk' = disk /\ pc' = pc /\ job' = job /\ advance' = advance /\ kept' = kept /\ Then(p, "nothing")
    BY <1>11 DEF Cease, Elsewhere, progress
  <2>2. Plain /\ Readable(disk') /\ Told(p)
    BY <1>1, <2>1
  <2>3. Meddle
    BY <1>1, <1>11, CeaseMeddles
  <2> QED
    BY <1>2, <1>3, <1>4, <2>1, <2>2, <2>3
<1>12. ASSUME Formatter, kept' = kept, tail' = tail \/ \E p \in Proc : Told(p) PROVE Goal
  <2>1. Meddle /\ Readable(disk') /\ Advancing'
    BY <1>1, <1>12, FormatterMeddles
  <2>2. Plain
    BY <2>1 DEF Meddle, progress
  <2> QED
    BY <1>2, <1>3, <1>12, <2>1, <2>2
<1>13. ASSUME NEW p \in Proc, FollowUp(p) PROVE Goal
  <2>1. kept' = kept
    BY <1>13 DEF FollowUp
  <2>2. CASE Reformat /\ Then(p, "advance")
    BY <1>12, <2>1, <2>2 DEF Formatter
  <2>3. CASE Then(p, "nothing") /\ UNCHANGED <<pvars, formats, advance>>
    <3>1. UNCHANGED vars
      BY <2>3 DEF pvars, vars
    <3>2. Plain /\ Readable(disk') /\ Told(p)
      BY <1>1, <2>3, <3>1 DEF vars
    <3> QED
      BY <1>2, <1>3, <1>4, <2>1, <2>3, <3>1, <3>2
  <2> QED
    BY <1>13, <2>2, <2>3 DEF FollowUp
<1>14. CASE Read
  <2>1. PICK w \in Path, c \in Content : Edit(w, c) /\ Bearable(w, c)
    BY <1>1, <1>14, ReadIsEdit
  <2>2. disk \in Tree /\ disk' = [disk EXCEPT ![w] = c] /\ pc' = pc /\ job' = job
    BY <1>1, <2>1 DEF Edit, IInv, Typed, progress
  <2>3. \A v \in Path : disk'[v] = disk[v] \/ Bearable(v, disk'[v])
    BY <2>1, <2>2 DEF Tree
  <2>4. Plain /\ Readable(disk') /\ OpenNext
    BY <1>1, <2>1, <2>2, <2>3, BearableIsReadable DEF OpenNext
  <2>5. UNCHANGED <<advance, kept, tail>>
    BY <1>14 DEF Read
  <2> QED
    BY <1>2, <1>3, <1>4, <2>4, <2>5
<1> QED
  BY <1>5, <1>6, <1>7, <1>8, <1>9, <1>10, <1>11, <1>12, <1>13, <1>14 DEF UNext, Commanded

(* The invariant of undo holds of every reachable state.                   *)
LEMMA UndoInitially == UInit => UInv
<1> SUFFICES ASSUME UInit PROVE UInv
  OBVIOUS
<1>1. Init /\ Readable(disk) /\ kept = None /\ advance = None /\ tail = [p \in Proc |-> "nothing"]
  BY LegibleIsReadable DEF UInit, FInit, PInit, Sound
<1>2. \A p \in Proc : pc[p] = "idle"
  BY <1>1 DEF Init
<1> QED
  BY <1>1, <1>2, InitialInvariant DEF UInv, Undoing, Finished, Advancing

LEMMA UndoInvariant ==
  ASSUME LocksAreImages
  PROVE  USpec => []UInv
<1>1. UInv /\ [UNext]_uvars => UInv'
  BY UndoingStep, Inductive, MeddlingKeeps, FinishedStep DEF UInv
<1> QED
  BY <1>1, UndoInitially, PTL DEF USpec

(* Undo puts back what the plan found, for every project, command and      *)
(* order of events, whoever comes between the plan, its application, the   *)
(* keeping of it and its undoing, and with the formatter at work: but for  *)
(* what the reader has changed since, what the plan had met as it was to   *)
(* leave it, and leftovers.                                                *)
THEOREM UndoPutsBack ==
  ASSUME LocksAreImages
  PROVE  USpec => []UndoIsExact
<1>1. UInv => UndoIsExact
  <2> SUFFICES ASSUME UInv, NEW p \in Proc, pc[p] = "done", kept # None, job[p] = InverseBundle(kept),
                      NEW w \in TouchedPaths(kept) \ foreign[p]
               PROVE  \/ disk[w] = CapturedAt(kept, w)
                      \/ disk[w] = Absent /\ (CapturedAt(kept, w) = Desired(kept, w) \/ w \in Leftover(kept))
    BY DEF UndoIsExact
  <2>1. Undoable(kept)
    BY DEF UInv, Undoing
  <2>2. w \in TouchedPaths(job[p])
    BY <2>1, UndoneAsCaptured
  <2>3. disk[w] = Desired(job[p], w)
    BY <2>2 DEF UInv, Finished
  <2> QED
    BY <2>1, <2>3, UndoneAsCaptured
<1> QED
  BY <1>1, UndoInvariant, PTL

-----------------------------------------------------------------------------
(* The files of jails' own: the merge base, the migrations and the lock,   *)
(* which neither the reader nor Spotless writes.                           *)
Own == BasePaths \cup MigrationPaths \cup {LockFile}

(* Every migration in the project that jails derived is sealed, with the   *)
(* content it has.                                                         *)
AllSealed(tree) ==
  \A slot \in Taken(tree) \cap Sealable :
    Slot[slot] \in DOMAIN Sealed(tree) /\ Sealed(tree)[Slot[slot]] = slot[2]

Orderly(tree) == BaseIntact(tree) /\ AllSealed(tree)

(* A plan made on a project that held what its lock sealed ...             *)
Ahead(b) == \E tree, d, cmd : Plannable(tree, cmd) /\ SealedThere(tree) /\ b = Materialized(tree, d, cmd)

(* ... one that can be read backwards, and one read backwards.             *)
Revocable(b) ==
  \E tree, d, cmd :
    /\ Plannable(tree, cmd) /\ SealedThere(tree) /\ ~RestoresMissing(cmd.restore)
    /\ b = Materialized(tree, d, cmd)

Backward(b) == \E k : Revocable(k) /\ b = InverseBundle(k)

(* A plan that may be applied to an orderly project leaves an orderly one. *)
Settles(b) ==
  \A tree, later :
    /\ tree \in Tree /\ Readable(tree) /\ Orderly(tree) /\ FilesAdmitted(tree, b)
    /\ \A w \in Own : later[w] = IF w \in TouchedPaths(b) THEN Desired(b, w) ELSE tree[w]
    => Orderly(later)

(* A migration of the reader's is in no lock.                              *)
LEMMA AuthoredUnsealed ==
  ASSUME NEW tree, Readable(tree), NEW slot \in DOMAIN Slot \ Sealable
  PROVE  Slot[slot] \notin DOMAIN Sealed(tree)
<1>1. PICK slots \in SUBSET Sealable : DOMAIN Sealed(tree) = {Slot[s] : s \in slots}
  BY SealedTyped
<1> QED
  BY <1>1, SealableAreSlots, SlotAssumption

(* The three kinds of file are apart from each other and from the managed  *)
(* ones.                                                                   *)
LEMMA OwnIsApart ==
  /\ Own \subseteq Path /\ BasePaths \subseteq Own /\ MigrationPaths \subseteq Own /\ LockFile \in Own
  /\ BasePaths \cap MigrationPaths = {} /\ LockFile \notin BasePaths /\ LockFile \notin MigrationPaths
  /\ DOMAIN BaseOf \cap Own = {}
  /\ \A slot \in DOMAIN Slot : Slot[slot] \in MigrationPaths
BY PathsAssumption, KindsOfPath DEF Own, MigrationPaths

(* What a lock names as the merge base are merge base paths, with texts.   *)
LEMMA BaseNamed ==
  ASSUME NEW tree, Readable(tree), NEW w \in DOMAIN BaseTree(AcceptedProjection(tree))
  PROVE  w \in BasePaths /\ BaseTree(AcceptedProjection(tree))[w] \in Text
<1>1. IsProjection(AcceptedProjection(tree))
  BY AcceptedTyped
<1> QED
  BY <1>1, BaseTyped DEF PartialFunction

(* A project without a lock names no merge base and seals nothing.         *)
LEMMA NothingAccepted ==
  ASSUME NEW tree, tree[LockFile] = Absent
  PROVE  /\ DOMAIN BaseTree(AcceptedProjection(tree)) = {} /\ DOMAIN Sealed(tree) = {}
         /\ BaseIntact(tree) /\ (AllSealed(tree) <=> Taken(tree) \cap Sealable = {})
<1>1. DOMAIN AcceptedProjection(tree) = {} /\ DOMAIN Sealed(tree) = {}
  BY DEF AcceptedProjection, Sealed
<1>2. PathsIn(AcceptedProjection(tree)) = {}
  BY <1>1 DEF PathsIn
<1>3. DOMAIN BaseTree(AcceptedProjection(tree)) = {}
  BY <1>2 DEF BaseTree
<1> QED
  BY <1>1, <1>3 DEF BaseIntact, AllSealed

(* What a project says about itself, it says in files of jails' own.       *)
LEMMA OrderlyOnOwn ==
  ASSUME NEW tree, Readable(tree), Orderly(tree), NEW later, \A w \in Own : later[w] = tree[w]
  PROVE  Orderly(later) /\ Sealed(later) = Sealed(tree)
<1>1. later[LockFile] = tree[LockFile] /\ \A w \in BasePaths \cup MigrationPaths : later[w] = tree[w]
  BY OwnIsApart
<1>2. AcceptedProjection(later) = AcceptedProjection(tree) /\ Sealed(later) = Sealed(tree)
  BY <1>1 DEF AcceptedProjection, Sealed
<1>3. BaseIntact(later)
  BY <1>1, <1>2, BaseNamed DEF BaseIntact, Orderly
<1>4. Taken(later) = Taken(tree)
  BY <1>1, OwnIsApart DEF Taken
<1> QED
  BY <1>2, <1>3, <1>4 DEF Orderly, AllSealed

(* The lock a plan leaves seals what the one it found sealed, alike.       *)
LEMMA SealsMore ==
  ASSUME NEW tree, NEW cmd, Plannable(tree, cmd), NEW w \in DOMAIN Sealed(tree)
  PROVE  w \in DOMAIN SealedAfter(tree, cmd) /\ SealedAfter(tree, cmd)[w] = Sealed(tree)[w]
<1>1. Readable(tree)
  BY DEF Plannable
<1>2. PICK slots \in SUBSET Sealable :
        /\ DOMAIN Sealed(tree) = {Slot[s] : s \in slots}
        /\ \A s \in slots : Sealed(tree)[Slot[s]] = s[2]
  BY <1>1, SealedTyped
<1>3. PICK s \in slots : w = Slot[s]
  BY <1>2
<1>4. w \in DOMAIN SealedAfter(tree, cmd) /\ SealedAfter(tree, cmd)[w] = MigrationsAfter(tree, cmd)[w]
  <2>1. DOMAIN SealedAfter(tree, cmd) =
          DOMAIN Sealed(tree) \cup {Slot[f] : f \in Fresh(tree, cmd) \cap Sealable}
    BY SealedAfterTyped
  <2>2. w \in DOMAIN SealedAfter(tree, cmd)
    BY <2>1
  <2> QED
    BY <2>2, SealedAsLeft
<1>5. CASE \E f \in Fresh(tree, cmd) : w = Slot[f]
  <2>1. PICK f \in Fresh(tree, cmd) : w = Slot[f]
    BY <1>5
  <2>2. f \in DOMAIN Slot /\ s \in DOMAIN Slot
    BY FreshIsNew, SealableAreSlots
  <2>3. f = s
    BY <1>3, <2>1, <2>2, SlotAssumption
  <2>4. MigrationsAfter(tree, cmd)[w] = f[2]
    BY <2>1, FreshAfter
  <2> QED
    BY <1>2, <1>3, <1>4, <2>3, <2>4
<1>6. CASE ~\E f \in Fresh(tree, cmd) : w = Slot[f]
  <2>1. MigrationsAfter(tree, cmd)[w] = Sealed(tree)[w]
    BY <1>6, MigrationsAfterTyped
  <2> QED
    BY <1>4, <2>1
<1> QED
  BY <1>5, <1>6

(* What a plan touches, one of its operations does.                        *)
LEMMA TouchedByMove ==
  ASSUME NEW tree, NEW d, NEW cmd, Plannable(tree, cmd), NEW w \in TouchedPaths(Materialized(tree, d, cmd))
  PROVE  \E op \in Moves(tree, cmd) : w \in Touched(op)
<1> DEFINE b == Materialized(tree, d, cmd)
           ops == Operations(tree, cmd)
<1>1. b.ops = ops
  BY DEF Materialized
<1>2. Entries(ops) = Moves(tree, cmd)
  BY SequenceOfMoves
<1> HIDE DEF ops
<1>3. \E i \in DOMAIN b.ops : w \in Touched(b.ops[i])
  BY DEF TouchedPaths, DesiredPaths, RemovedPaths, Touched
<1> QED
  BY <1>1, <1>2, <1>3 DEF Entries

(* A plan writes the lock unless it is as it should be, and never takes it *)
(* away.                                                                   *)
LEMMA LockWritten ==
  ASSUME NEW tree, NEW d, NEW cmd, Plannable(tree, cmd)
  PROVE  LET b == Materialized(tree, d, cmd)
         IN /\ LockFile \notin RemovedPaths(b) /\ LockAfter(tree, cmd) # Absent
            /\ tree[LockFile] # LockAfter(tree, cmd) =>
                 LockFile \in DesiredPaths(b) /\ Desired(b, LockFile) = LockAfter(tree, cmd)
            /\ tree[LockFile] = LockAfter(tree, cmd) => LockFile \notin TouchedPaths(b)
<1> DEFINE b == Materialized(tree, d, cmd)
<1>1. LockAfter(tree, cmd) # Absent /\ Target(tree, cmd, LockFile) = LockAfter(tree, cmd)
  BY TargetTyped, LockAfterTyped, AbsentAssumption
<1>2. LockFile \notin RemovedPaths(b)
  BY <1>1, MaterializedIsFit
<1>3. ASSUME tree[LockFile] # LockAfter(tree, cmd)
      PROVE  LockFile \in DesiredPaths(b) /\ Desired(b, LockFile) = LockAfter(tree, cmd)
  <2>1. Len(b.ops) \in DOMAIN b.ops /\ Written(b.ops[Len(b.ops)]) = {LockFile}
    BY <1>3, MarkedByLock
  <2>2. LockFile \in DesiredPaths(b)
    BY <2>1 DEF DesiredPaths
  <2> QED
    BY <1>1, <2>2, MaterializedIsFit
<1>4. ASSUME tree[LockFile] = LockAfter(tree, cmd), LockFile \in TouchedPaths(b) PROVE FALSE
  <2>1. PICK op \in Moves(tree, cmd) : LockFile \in Touched(op)
    BY <1>4, TouchedByMove
  <2>2. ReplaceLock(tree, cmd) = << >>
    BY <1>4, LockStands
  <2>3. op \in FrontMoves(tree, cmd)
    BY <2>2 DEF Moves, Entries
  <2> QED
    BY <2>1, <2>3, MovesFollow
<1> QED
  BY <1>1, <1>2, <1>3, <1>4

(* What a plan leaves of the merge base, and of the migrations.            *)
LEMMA BaseLeft ==
  ASSUME NEW tree, NEW d, NEW cmd, Plannable(tree, cmd), NEW w \in BasePaths,
         w \in TouchedPaths(Materialized(tree, d, cmd))
  PROVE  Desired(Materialized(tree, d, cmd), w) = BaseAt(Renders[cmd.to], w)
<1> DEFINE b == Materialized(tree, d, cmd)
<1>1. w \notin DOMAIN BaseOf
  BY OwnIsApart
<1>2. Target(tree, cmd, w) = BaseAt(Renders[cmd.to], w)
  BY <1>1 DEF Target, BaseAt
<1>3. CASE w \in DesiredPaths(b)
  BY <1>2, <1>3, MaterializedIsFit
<1>4. CASE w \notin DesiredPaths(b)
  <2>1. Desired(b, w) = Absent /\ w \in RemovedPaths(b)
    BY <1>4 DEF Desired, TouchedPaths
  <2>2. Target(tree, cmd, w) = Absent
    BY <2>1, MaterializedIsFit
  <2> QED
    BY <1>2, <2>1, <2>2
<1> QED
  BY <1>3, <1>4

(* A migration a plan touches is one it adds, and its lock seals it so if  *)
(* jails derived it.                                                       *)
LEMMA MigrationLeft ==
  ASSUME NEW tree, NEW d, NEW cmd, Plannable(tree, cmd), SealedThere(tree), NEW w \in MigrationPaths,
         w \in TouchedPaths(Materialized(tree, d, cmd))
  PROVE  \E s \in Fresh(tree, cmd) :
           /\ w = Slot[s]
           /\ s \in Sealable => w \in DOMAIN SealedAfter(tree, cmd) /\ SealedAfter(tree, cmd)[w] = s[2]
           /\ w \in DesiredPaths(Materialized(tree, d, cmd)) /\ Desired(Materialized(tree, d, cmd), w) = s[2]
<1> DEFINE b == Materialized(tree, d, cmd)
<1>1. PICK s \in Fresh(tree, cmd) : w = Slot[s]
  BY FreshTouched
<1>2. Slot[s] \in AppendedPaths(b)
  BY FreshTouched
<1>3. w \in DesiredPaths(b)
  BY <1>1, <1>2, AppendedTypes
<1>4. Desired(b, w) = MigrationsAfter(tree, cmd)[w] /\ MigrationsAfter(tree, cmd)[w] = s[2]
  BY <1>1, <1>3, MaterializedIsFit, MigrationTarget, FreshAfter
<1>5. s \in Sealable => w \in DOMAIN SealedAfter(tree, cmd)
  <2>1. DOMAIN SealedAfter(tree, cmd) =
          DOMAIN Sealed(tree) \cup {Slot[f] : f \in Fresh(tree, cmd) \cap Sealable}
    BY SealedAfterTyped
  <2> QED
    BY <1>1, <2>1
<1>6. w \in DOMAIN SealedAfter(tree, cmd) => SealedAfter(tree, cmd)[w] = MigrationsAfter(tree, cmd)[w]
  BY SealedAsLeft
<1> HIDE DEF b
<1> QED
  BY <1>1, <1>3, <1>4, <1>5, <1>6 DEF b

(* The lock a plan may be applied over.                                    *)
LEMMA LockAdmitted ==
  ASSUME NEW tree, NEW d, NEW cmd, Plannable(tree, cmd),
         NEW live, PathAdmitted(live, Materialized(tree, d, cmd), LockFile)
  PROVE  \/ live[LockFile] \in {tree[LockFile], LockAfter(tree, cmd)}
         \/ live[LockFile] = Absent /\ tree[LockFile] = LockAfter(tree, cmd)
<1> DEFINE b == Materialized(tree, d, cmd)
<1>1. LockFile \in DOMAIN b.base /\ b.base[LockFile] = tree[LockFile]
  BY LockCaptured
<1>2. live[LockFile] = tree[LockFile] \/ live[LockFile] = Desired(b, LockFile)
  BY <1>1, LockWritten DEF PathAdmitted, FileAdmitted
<1>3. tree[LockFile] = LockAfter(tree, cmd) => Desired(b, LockFile) = Absent
  BY LockWritten DEF TouchedPaths, Desired
<1> QED
  BY <1>2, <1>3, LockWritten

(* A lock that says what the plan says it accepted.                        *)
LEMMA LockAfterSays ==
  ASSUME NEW tree, NEW cmd, Plannable(tree, cmd), NEW live, live[LockFile] = LockAfter(tree, cmd)
  PROVE  AcceptedProjection(live) = Renders[cmd.to] /\ Sealed(live) = SealedAfter(tree, cmd)
<1>1. LockAfter(tree, cmd) # Absent
  BY LockAfterTyped, AbsentAssumption
<1> QED
  BY <1>1 DEF AcceptedProjection, Sealed, LockAfter

(* A plan applied leaves an orderly project.                               *)
LEMMA PlansSettle ==
  ASSUME NEW b, Ahead(b)
  PROVE  Settles(b)
<1>1. PICK tree, d, cmd : Plannable(tree, cmd) /\ SealedThere(tree) /\ b = Materialized(tree, d, cmd)
  BY DEF Ahead
<1> SUFFICES ASSUME NEW live, NEW later,
                    live \in Tree, Readable(live), Orderly(live), FilesAdmitted(live, b),
                    \A w \in Own : later[w] = IF w \in TouchedPaths(b) THEN Desired(b, w) ELSE live[w]
             PROVE  Orderly(later)
  BY DEF Settles
<1>2. /\ LockFile \in Own /\ BasePaths \subseteq Own /\ MigrationPaths \subseteq Own
      /\ \A slot \in DOMAIN Slot : Slot[slot] \in MigrationPaths
  BY OwnIsApart
<1>3. \/ live[LockFile] \in {tree[LockFile], LockAfter(tree, cmd)}
      \/ live[LockFile] = Absent /\ tree[LockFile] = LockAfter(tree, cmd)
  <2>1. PathAdmitted(live, b, LockFile)
    BY <1>2, OwnIsApart DEF FilesAdmitted
  <2> QED
    BY <1>1, <2>1, LockAdmitted
<1>4. CASE live[LockFile] = Absent /\ tree[LockFile] = LockAfter(tree, cmd)
  <2>1. later[LockFile] = Absent
    BY <1>1, <1>2, <1>4, LockWritten
  <2>2. Taken(live) \cap Sealable = {}
    BY <1>4, NothingAccepted DEF Orderly
  <2>3. Fresh(tree, cmd) \cap Sealable = {}
    BY <1>1, <1>4, LockStands
  <2>4. ASSUME NEW s \in Sealable PROVE Slot[s] \notin TouchedPaths(b)
    <3>1. s \in DOMAIN Slot /\ Slot[s] \in MigrationPaths
      BY <1>2, SealableAreSlots
    <3>2. SUFFICES ASSUME Slot[s] \in TouchedPaths(b) PROVE FALSE
      OBVIOUS
    <3>3. PICK f \in Fresh(tree, cmd) : Slot[s] = Slot[f]
      BY <1>1, <3>1, <3>2, MigrationLeft
    <3>4. f \in DOMAIN Slot
      BY <1>1, FreshIsNew
    <3>5. f = s
      BY <3>1, <3>3, <3>4, SlotAssumption
    <3> QED
      BY <2>3, <3>5
  <2>5. Taken(later) \cap Sealable = {}
    BY <1>2, <2>2, <2>4, SealableAreSlots DEF Taken
  <2> QED
    BY <2>1, <2>5, NothingAccepted DEF Orderly
<1>5. CASE live[LockFile] \in {tree[LockFile], LockAfter(tree, cmd)}
  <2>1. later[LockFile] = LockAfter(tree, cmd)
    BY <1>1, <1>2, <1>5, LockWritten DEF TouchedPaths
  <2>2. AcceptedProjection(later) = Renders[cmd.to] /\ Sealed(later) = SealedAfter(tree, cmd)
    BY <1>1, <2>1, LockAfterSays
  <2>3. /\ AcceptedProjection(live) \in {AcceptedProjection(tree), Renders[cmd.to]}
        /\ Sealed(live) \in {Sealed(tree), SealedAfter(tree, cmd)}
    <3>1. CASE live[LockFile] = tree[LockFile]
      BY <3>1 DEF AcceptedProjection, Sealed
    <3>2. CASE live[LockFile] = LockAfter(tree, cmd)
      BY <1>1, <3>2, LockAfterSays
    <3> QED
      BY <1>5, <3>1, <3>2
  <2>4. ASSUME NEW w \in DOMAIN BaseTree(AcceptedProjection(later))
        PROVE  later[w] = BaseTree(AcceptedProjection(later))[w]
    <3>1. w \in BasePaths /\ w \in Own
      <4>1. IsProjection(Renders[cmd.to])
        BY <1>1, RendersAssumption DEF IsProjection, Plannable, IsCommand
      <4> QED
        BY <1>2, <2>2, <4>1, BaseTyped DEF PartialFunction
    <3>2. BaseTree(AcceptedProjection(later))[w] = BaseAt(Renders[cmd.to], w)
      BY <2>2, <2>4 DEF BaseAt
    <3>3. CASE w \in TouchedPaths(b)
      BY <1>1, <3>1, <3>2, <3>3, BaseLeft
    <3>4. CASE w \notin TouchedPaths(b)
      <4>1. later[w] = live[w]
        BY <3>1, <3>4
      <4>2. BaseAt(AcceptedProjection(tree), w) = BaseAt(Renders[cmd.to], w)
        BY <1>1, <3>1, <3>4, BaseUntouched
      <4>3. BaseAt(AcceptedProjection(live), w) = BaseAt(Renders[cmd.to], w)
        BY <2>3, <4>2
      <4>4. BaseAt(Renders[cmd.to], w) # Absent
        <5>1. IsProjection(Renders[cmd.to])
          BY <1>1, RendersAssumption DEF IsProjection, Plannable, IsCommand
        <5>2. BaseTree(Renders[cmd.to])[w] \in Text
          BY <2>2, <2>4, <5>1, BaseTyped DEF PartialFunction
        <5> QED
          BY <2>2, <2>4, <5>2, ImagesAssumption, AbsentAssumption DEF BaseAt
      <4>5. w \in DOMAIN BaseTree(AcceptedProjection(live))
        BY <4>3, <4>4 DEF BaseAt
      <4>6. live[w] = BaseAt(AcceptedProjection(live), w)
        BY <4>5 DEF Orderly, BaseIntact, BaseAt
      <4> QED
        BY <3>2, <4>1, <4>3, <4>6
    <3> QED
      BY <3>3, <3>4
  <2>5. ASSUME NEW slot \in Taken(later) \cap Sealable
        PROVE  Slot[slot] \in DOMAIN Sealed(later) /\ Sealed(later)[Slot[slot]] = slot[2]
    <3> DEFINE w == Slot[slot]
    <3>1. slot \in DOMAIN Slot /\ later[w] # Absent /\ w \in MigrationPaths /\ w \in Own
      BY <1>2 DEF Taken
    <3>2. CASE w \in TouchedPaths(b)
      <4>1. PICK s \in Fresh(tree, cmd) :
              /\ w = Slot[s]
              /\ s \in Sealable => w \in DOMAIN SealedAfter(tree, cmd) /\ SealedAfter(tree, cmd)[w] = s[2]
        BY <1>1, <3>1, <3>2, MigrationLeft
      <4>2. s \in DOMAIN Slot
        BY <1>1, FreshIsNew
      <4>3. s = slot
        BY <3>1, <4>1, <4>2, SlotAssumption
      <4> QED
        BY <2>2, <4>1, <4>3
    <3>3. CASE w \notin TouchedPaths(b)
      <4>1. slot \in Taken(live)
        BY <3>1, <3>3 DEF Taken
      <4>2. w \in DOMAIN Sealed(live) /\ Sealed(live)[w] = slot[2]
        BY <4>1 DEF Orderly, AllSealed
      <4>3. CASE Sealed(live) = Sealed(tree)
        BY <1>1, <2>2, <4>2, <4>3, SealsMore
      <4> QED
        BY <2>2, <2>3, <4>2, <4>3
    <3> QED
      BY <3>2, <3>3
  <2> QED
    BY <2>4, <2>5 DEF Orderly, BaseIntact, AllSealed
<1> QED
  BY <1>3, <1>4, <1>5

-----------------------------------------------------------------------------
(* An inverse, by what the operations it reads backwards reach.            *)
Reach(op) == Touched(op) \cup DOMAIN op.before

(* What one operation touches, by kind of file.                            *)
LEMMA MoveReach ==
  ASSUME NEW tree, NEW cmd, Plannable(tree, cmd), ~RestoresMissing(cmd.restore), NEW op \in Moves(tree, cmd)
  PROVE  \/ Reach(op) \subseteq DOMAIN BaseOf
         \/ op \in Entries(PublishBase(tree, cmd)) \cup Entries(RetireStrays(tree, cmd)) /\ Reach(op) \subseteq BasePaths
         \/ /\ op \in Entries(Appends(tree, cmd)) /\ DOMAIN op.before = {}
            /\ \E s \in Fresh(tree, cmd) : Reach(op) = {Slot[s]}
         \/ Reach(op) = {ModelFile}
         \/ op \in Entries(ReplaceLock(tree, cmd)) /\ Reach(op) = {LockFile}
<1>1. CASE op \in Entries(PublishManaged(tree, cmd))
  BY <1>1, ManagedCreates DEF Reach
<1>2. CASE op \in Entries(PublishBase(tree, cmd)) \cup Entries(RetireStrays(tree, cmd))
  BY <1>2, BaseCreates DEF Reach
<1>3. CASE op \in Entries(Appends(tree, cmd))
  <2>1. DOMAIN op.before = {}
    BY <1>3, AppendCreates
  <2>2. \E s \in Fresh(tree, cmd) : Touched(op) = {Slot[s]}
    BY <1>3, AppendMoves
  <2> QED
    BY <1>3, <2>1, <2>2 DEF Reach
<1>4. CASE op \in Entries(RestoreSealed(tree, cmd))
  <2>1. Restored(tree, cmd) = {}
    BY DEF Restored
  <2>2. Entries(RestoreSealed(tree, cmd)) = {}
    BY <2>1, WhenSaysOne DEF RestoreSealed
  <2> QED
    BY <1>4, <2>2
<1>5. CASE op \in Entries(ReplaceModel(tree, cmd))
  BY <1>5, StateCreates DEF Reach
<1>6. CASE op \in Entries(ReplaceLock(tree, cmd))
  BY <1>6, StateCreates DEF Reach
<1> QED
  BY <1>1, <1>2, <1>3, <1>4, <1>5, <1>6 DEF Moves, FrontMoves

(* An inverse leaves what its operations had found, and touches what they  *)
(* reach.                                                                  *)
LEMMA InverseReach ==
  ASSUME NEW tree, NEW d, NEW cmd, Plannable(tree, cmd), ~RestoresMissing(cmd.restore)
  PROVE  LET back == InverseBundle(Materialized(tree, d, cmd))
         IN /\ Fit(back)
            /\ \A op \in Moves(tree, cmd) : \A w \in DOMAIN op.before :
                 w \in DesiredPaths(back) /\ Desired(back, w) = tree[w]
            /\ \A op \in Moves(tree, cmd) : \A w \in Written(op) \ DOMAIN op.before :
                 w \in RemovedPaths(back) /\ w \notin DesiredPaths(back) /\ Desired(back, w) = Absent
            /\ \A w \in TouchedPaths(back) : \E op \in Moves(tree, cmd) : w \in Reach(op)
<1> DEFINE b == Materialized(tree, d, cmd)
           back == InverseBundle(b)
<1>1. Fit(b) /\ b.ops = Operations(tree, cmd)
  BY MaterializedIsFit DEF Materialized
<1>2. Entries(Operations(tree, cmd)) = Moves(tree, cmd)
  BY SequenceOfMoves
<1>3. /\ \A i \in DOMAIN b.ops : b.ops[i] \in Moves(tree, cmd)
      /\ \A op \in Moves(tree, cmd) : \E i \in DOMAIN b.ops : b.ops[i] = op
  BY <1>1, <1>2 DEF Entries
<1> HIDE DEF b
<1>4. InvertibleBundle(b, tree)
  BY <1>1, <1>3, MovesCreate DEF InvertibleBundle
<1>5. Fit(back)
  BY <1>4, InverseIsFit
<1>6. ASSUME NEW op \in Moves(tree, cmd), NEW w \in DOMAIN op.before
      PROVE  w \in DesiredPaths(back) /\ Desired(back, w) = tree[w]
  BY <1>3, <1>4, InverseIsFit
<1>7. ASSUME NEW op \in Moves(tree, cmd), NEW w \in Written(op) \ DOMAIN op.before
      PROVE  w \in RemovedPaths(back) /\ w \notin DesiredPaths(back) /\ Desired(back, w) = Absent
  <2>1. w \in RemovedPaths(back) /\ Desired(back, w) = Absent
    BY <1>3, <1>4, InverseIsFit
  <2> QED
    BY <1>5, <2>1 DEF Fit, WellFormed
<1>8. ASSUME NEW w \in TouchedPaths(back) PROVE \E op \in Moves(tree, cmd) : w \in Reach(op)
  <2>1. PICK j \in DOMAIN back.ops : w \in Touched(back.ops[j])
    BY DEF TouchedPaths, DesiredPaths, RemovedPaths, Touched
  <2>2. PICK i \in DOMAIN b.ops : back.ops[j] = InverseOp(b.ops[i])
    BY <1>1, <2>1, InverseOperations DEF Fit
  <2>3. w \in Reach(b.ops[i])
    BY <2>1, <2>2, InverseTouches DEF Touched, Reach
  <2> QED
    BY <1>3, <2>3
<1> QED
  BY <1>5, <1>6, <1>7, <1>8 DEF b

(* An inverse puts the lock back that the plan replaced ...                *)
LEMMA InverseOnLock ==
  ASSUME NEW tree, NEW d, NEW cmd, Plannable(tree, cmd), ~RestoresMissing(cmd.restore)
  PROVE  LET back == InverseBundle(Materialized(tree, d, cmd))
         IN /\ tree[LockFile] # LockAfter(tree, cmd) =>
                 /\ LockFile \in TouchedPaths(back) /\ Desired(back, LockFile) = tree[LockFile]
                 /\ LockFile \in RemovedPaths(back) => tree[LockFile] = Absent
            /\ tree[LockFile] = LockAfter(tree, cmd) => LockFile \notin TouchedPaths(back)
<1> DEFINE back == InverseBundle(Materialized(tree, d, cmd))
<1>1. /\ Fit(back)
      /\ \A op \in Moves(tree, cmd) : \A w \in DOMAIN op.before :
           w \in DesiredPaths(back) /\ Desired(back, w) = tree[w]
      /\ \A op \in Moves(tree, cmd) : \A w \in Written(op) \ DOMAIN op.before :
           w \in RemovedPaths(back) /\ w \notin DesiredPaths(back) /\ Desired(back, w) = Absent
      /\ \A w \in TouchedPaths(back) : \E op \in Moves(tree, cmd) : w \in Reach(op)
  BY InverseReach
<1> HIDE DEF back
<1>2. ASSUME tree[LockFile] # LockAfter(tree, cmd)
      PROVE  /\ LockFile \in TouchedPaths(back) /\ Desired(back, LockFile) = tree[LockFile]
             /\ LockFile \in RemovedPaths(back) => tree[LockFile] = Absent
  <2> DEFINE op == [kind |-> "file", before |-> Present(tree, {LockFile}),
                    after |-> [w \in {LockFile} |-> LockAfter(tree, cmd)]]
  <2>1. ReplaceLock(tree, cmd) = <<op>>
    BY <1>2, WhenSaysOne DEF ReplaceLock, LockAfter
  <2>2. op \in Moves(tree, cmd)
    BY <2>1 DEF Moves, Entries
  <2>3. Written(op) = {LockFile} /\ DOMAIN op.before = {v \in {LockFile} : tree[v] # Absent}
    BY DEF Written, Present
  <2> HIDE DEF op
  <2>4. CASE tree[LockFile] = Absent
    <3>1. LockFile \in Written(op) \ DOMAIN op.before
      BY <2>3, <2>4
    <3> QED
      BY <1>1, <2>2, <2>4, <3>1 DEF TouchedPaths
  <2>5. CASE tree[LockFile] # Absent
    <3>1. LockFile \in DOMAIN op.before
      BY <2>3, <2>5
    <3>2. LockFile \in DesiredPaths(back) /\ Desired(back, LockFile) = tree[LockFile]
      BY <1>1, <2>2, <3>1
    <3> QED
      BY <1>1, <3>2 DEF TouchedPaths, Fit, WellFormed
  <2> QED
    BY <2>4, <2>5
<1>3. ASSUME tree[LockFile] = LockAfter(tree, cmd), LockFile \in TouchedPaths(back) PROVE FALSE
  <2>1. PICK op \in Moves(tree, cmd) : LockFile \in Reach(op)
    BY <1>1, <1>3
  <2>2. Entries(ReplaceLock(tree, cmd)) = {}
    BY <1>3, LockStands DEF Entries
  <2>3. /\ LockFile \notin DOMAIN BaseOf /\ LockFile \notin BasePaths /\ LockFile # ModelFile
        /\ \A s \in Fresh(tree, cmd) : LockFile # Slot[s]
    BY OwnIsApart, PathsAssumption, FreshIsNew
  <2> QED
    BY <2>1, <2>2, <2>3, MoveReach
<1> QED
  BY <1>2, <1>3 DEF back

(* ... takes away the migrations the plan appended, and no others ...      *)
LEMMA InverseOnMigrations ==
  ASSUME NEW tree, NEW d, NEW cmd, Plannable(tree, cmd), ~RestoresMissing(cmd.restore)
  PROVE  LET back == InverseBundle(Materialized(tree, d, cmd))
         IN /\ \A w \in TouchedPaths(back) \cap MigrationPaths :
                 /\ \E s \in Fresh(tree, cmd) : w = Slot[s]
                 /\ w \notin DesiredPaths(back) /\ Desired(back, w) = Absent
                 /\ tree[LockFile] = LockAfter(tree, cmd) => \A s \in Sealable : w # Slot[s]
            /\ \A s \in Fresh(tree, cmd) : Slot[s] \in TouchedPaths(back)
<1> DEFINE back == InverseBundle(Materialized(tree, d, cmd))
<1>1. /\ \A op \in Moves(tree, cmd) : \A w \in Written(op) \ DOMAIN op.before :
           w \in RemovedPaths(back) /\ w \notin DesiredPaths(back) /\ Desired(back, w) = Absent
      /\ \A w \in TouchedPaths(back) : \E op \in Moves(tree, cmd) : w \in Reach(op)
  BY InverseReach
<1> HIDE DEF back
<1>2. ASSUME NEW w \in TouchedPaths(back), w \in MigrationPaths
      PROVE  /\ \E s \in Fresh(tree, cmd) : w = Slot[s]
             /\ w \notin DesiredPaths(back) /\ Desired(back, w) = Absent
             /\ tree[LockFile] = LockAfter(tree, cmd) => \A s \in Sealable : w # Slot[s]
  <2>1. PICK op \in Moves(tree, cmd) : w \in Reach(op)
    BY <1>1
  <2>2. w \notin DOMAIN BaseOf /\ w \notin BasePaths /\ w # ModelFile /\ w # LockFile
    BY <1>2, OwnIsApart, KindsOfPath
  <2>3. /\ op \in Entries(Appends(tree, cmd)) /\ DOMAIN op.before = {}
        /\ \E s \in Fresh(tree, cmd) : Reach(op) = {Slot[s]}
    BY <2>1, <2>2, MoveReach
  <2>4. w \in Written(op) \ DOMAIN op.before
    BY <2>1, <2>3 DEF Reach, Touched, Retired
  <2>5. \E s \in Fresh(tree, cmd) : w = Slot[s]
    BY <2>1, <2>3
  <2>6. tree[LockFile] = LockAfter(tree, cmd) => Fresh(tree, cmd) \cap Sealable = {}
    BY LockStands
  <2> QED
    BY <1>1, <2>4, <2>5, <2>6, FreshIsNew, SealableAreSlots, SlotAssumption
<1>3. ASSUME NEW s \in Fresh(tree, cmd) PROVE Slot[s] \in TouchedPaths(back)
  <2>1. PICK op \in Entries(Appends(tree, cmd)) : Slot[s] \in Written(op)
    BY AppendMoves
  <2>2. op \in Moves(tree, cmd) /\ DOMAIN op.before = {}
    BY AppendCreates DEF Moves, FrontMoves
  <2> QED
    BY <1>1, <2>1, <2>2 DEF TouchedPaths
<1> QED
  BY <1>2, <1>3 DEF back

(* ... and puts back the merge base that lock names.                       *)
LEMMA InverseOnBase ==
  ASSUME NEW tree, NEW d, NEW cmd, Plannable(tree, cmd), ~RestoresMissing(cmd.restore),
         NEW w \in DOMAIN BaseTree(AcceptedProjection(tree))
  PROVE  LET back == InverseBundle(Materialized(tree, d, cmd))
         IN \/ w \in TouchedPaths(back) /\ Desired(back, w) = BaseTree(AcceptedProjection(tree))[w]
            \/ w \notin TouchedPaths(back) /\ BaseTree(AcceptedProjection(tree)) = BaseTree(Renders[cmd.to])
<1> DEFINE back == InverseBundle(Materialized(tree, d, cmd))
           old == BaseTree(AcceptedProjection(tree))
           new == BaseTree(Renders[cmd.to])
<1>1. /\ \A op \in Moves(tree, cmd) : \A v \in DOMAIN op.before :
           v \in DesiredPaths(back) /\ Desired(back, v) = tree[v]
      /\ \A v \in TouchedPaths(back) : \E op \in Moves(tree, cmd) : v \in Reach(op)
  BY InverseReach
<1>2. w \in BasePaths
  BY BaseNamed DEF Plannable
<1>3. tree[w] = old[w]
  BY DEF Plannable, PlanRefused, BaseIntact
<1> HIDE DEF back
<1>4. CASE old # new
  <2> DEFINE op == [kind |-> "tree", before |-> old, after |-> new]
  <2>1. PublishBase(tree, cmd) = <<op>>
    BY <1>4, WhenSaysOne DEF PublishBase
  <2>2. op \in Moves(tree, cmd)
    BY <2>1 DEF Moves, FrontMoves, Entries
  <2> QED
    BY <1>1, <1>3, <2>2 DEF TouchedPaths, back
<1>5. CASE old = new
  <2>1. Entries(PublishBase(tree, cmd)) = {}
    BY <1>5, WhenSaysOne DEF PublishBase
  <2>2. ASSUME w \in TouchedPaths(back) PROVE FALSE
    <3>1. PICK op \in Moves(tree, cmd) : w \in Reach(op)
      BY <1>1, <2>2
    <3>2. w \notin DOMAIN BaseOf /\ w # ModelFile /\ w # LockFile /\ \A s \in Fresh(tree, cmd) : w # Slot[s]
      BY <1>2, OwnIsApart, PathsAssumption, FreshIsNew
    <3>3. op \in Entries(RetireStrays(tree, cmd))
      BY <2>1, <3>1, <3>2, MoveReach
    <3>4. Written(op) = {} /\ w \notin DOMAIN op.before
      BY <3>3, BaseCreates
    <3> QED
      BY <3>1, <3>4 DEF Reach, Touched, Retired
  <2> QED
    BY <1>5, <2>2 DEF back
<1> QED
  BY <1>4, <1>5

(* A plan that leaves the lock alone touches no merge base file but what   *)
(* no lock names, and its inverse may be applied only where such a file is *)
(* still gone, or back already.                                            *)
LEMMA InverseOnStrays ==
  ASSUME NEW tree, NEW d, NEW cmd, Plannable(tree, cmd), ~RestoresMissing(cmd.restore),
         tree[LockFile] = LockAfter(tree, cmd),
         NEW w \in BasePaths, w \in TouchedPaths(InverseBundle(Materialized(tree, d, cmd)))
  PROVE  LET back == InverseBundle(Materialized(tree, d, cmd))
         IN w \in DOMAIN back.base /\ back.base[w] = Absent
<1> DEFINE b == Materialized(tree, d, cmd)
           back == InverseBundle(b)
<1>1. PICK op \in Moves(tree, cmd) : w \in Reach(op)
  BY InverseReach
<1>2. Entries(PublishBase(tree, cmd)) = {}
  BY LockStands DEF Entries
<1>3. w \notin DOMAIN BaseOf /\ w # ModelFile /\ w # LockFile /\ \A s \in Fresh(tree, cmd) : w # Slot[s]
  BY OwnIsApart, PathsAssumption, FreshIsNew
<1>4. op \in Entries(RetireStrays(tree, cmd))
  BY <1>1, <1>2, <1>3, MoveReach
<1>5. Written(op) = {}
  BY <1>4, BaseCreates
<1>6. w \in Retired(op)
  BY <1>1, <1>5 DEF Reach, Touched, Retired, Written
<1>7. op.kind = "remove"
  BY <1>4, WhenSaysOne DEF RetireStrays
<1>8. Fit(b) /\ b.ops = Operations(tree, cmd)
  BY MaterializedIsFit DEF Materialized
<1>9. PICK i \in DOMAIN b.ops : b.ops[i] = op
  BY <1>1, <1>8, SequenceOfMoves DEF Entries
<1> HIDE DEF b
<1>10. w \in RemovedPaths(b)
  BY <1>6, <1>7, <1>9 DEF RemovedPaths
<1>11. w \notin DesiredPaths(b)
  BY <1>8, <1>10 DEF Fit, WellFormed
<1>12. Desired(b, w) = Absent
  BY <1>11 DEF Desired
<1>13. w \in UNION {Retired(b.ops[j]) : j \in {k \in DOMAIN b.ops : b.ops[k].kind = "remove"}}
  BY <1>6, <1>7, <1>9
<1>14. w \in DOMAIN InverseBase(b) /\ InverseBase(b)[w] = Absent
  BY <1>12, <1>13 DEF InverseBase
<1> QED
  BY <1>14 DEF InverseBundle, b

(* The lock an inverse may be applied over, if the plan wrote it.          *)
LEMMA LockReadmitted ==
  ASSUME NEW tree, NEW d, NEW cmd, Plannable(tree, cmd), ~RestoresMissing(cmd.restore),
         tree[LockFile] # LockAfter(tree, cmd),
         NEW live, PathAdmitted(live, InverseBundle(Materialized(tree, d, cmd)), LockFile)
  PROVE  live[LockFile] \in {tree[LockFile], LockAfter(tree, cmd)}
<1> DEFINE b == Materialized(tree, d, cmd)
           back == InverseBundle(b)
<1>1. LockFile \in DesiredPaths(b) /\ Desired(b, LockFile) = LockAfter(tree, cmd)
  BY LockWritten
<1>2. /\ Desired(back, LockFile) = tree[LockFile]
      /\ LockFile \in RemovedPaths(back) => tree[LockFile] = Absent
  BY InverseOnLock
<1> HIDE DEF b
<1>3. LockFile \in DOMAIN back.base /\ back.base[LockFile] = LockAfter(tree, cmd)
  BY <1>1 DEF InverseBundle, InverseBase
<1>4. PathAdmitted(live, back, LockFile)
  BY DEF b
<1> HIDE DEF back
<1> QED
  BY <1>2, <1>3, <1>4 DEF PathAdmitted, FileAdmitted

(* An inverse applied leaves an orderly project.                           *)
LEMMA InversesSettle ==
  ASSUME NEW k, Revocable(k)
  PROVE  Settles(InverseBundle(k))
<1>1. PICK tree, d, cmd :
        /\ Plannable(tree, cmd) /\ SealedThere(tree) /\ ~RestoresMissing(cmd.restore)
        /\ k = Materialized(tree, d, cmd)
  BY DEF Revocable
<1> DEFINE back == InverseBundle(k)
<1> SUFFICES ASSUME NEW live, NEW later,
                    live \in Tree, Readable(live), Orderly(live), FilesAdmitted(live, back),
                    \A w \in Own : later[w] = IF w \in TouchedPaths(back) THEN Desired(back, w) ELSE live[w]
             PROVE  Orderly(later)
  BY DEF Settles
<1>2. /\ LockFile \in Own /\ BasePaths \subseteq Own /\ MigrationPaths \subseteq Own /\ Own \subseteq Path
      /\ \A slot \in DOMAIN Slot : Slot[slot] \in MigrationPaths
  BY OwnIsApart
<1> HIDE DEF back
<1>3. /\ \A w \in TouchedPaths(back) \cap MigrationPaths :
           /\ \E s \in Fresh(tree, cmd) : w = Slot[s]
           /\ w \notin DesiredPaths(back) /\ Desired(back, w) = Absent
      /\ \A s \in Fresh(tree, cmd) : Slot[s] \in TouchedPaths(back)
  BY <1>1, InverseOnMigrations DEF back
<1>4. \A slot \in Taken(later) \cap Sealable :
        /\ slot \in DOMAIN Slot /\ Slot[slot] \in MigrationPaths /\ Slot[slot] \notin TouchedPaths(back)
        /\ slot \in Taken(live) \cap Sealable
  BY <1>2, <1>3 DEF Taken
<1>5. \A slot \in Taken(live) \cap Sealable : Slot[slot] \in DOMAIN Sealed(live) /\ Sealed(live)[Slot[slot]] = slot[2]
  BY DEF Orderly, AllSealed
<1>6. CASE tree[LockFile] # LockAfter(tree, cmd)
  <2>1. LockFile \in TouchedPaths(back) /\ Desired(back, LockFile) = tree[LockFile]
    BY <1>1, <1>6, InverseOnLock DEF back
  <2>2. later[LockFile] = tree[LockFile]
    BY <1>2, <2>1
  <2>3. AcceptedProjection(later) = AcceptedProjection(tree) /\ Sealed(later) = Sealed(tree)
    BY <2>2 DEF AcceptedProjection, Sealed
  <2>4. live[LockFile] \in {tree[LockFile], LockAfter(tree, cmd)}
    <3>1. PathAdmitted(live, back, LockFile)
      BY <1>2 DEF FilesAdmitted
    <3> QED
      BY <1>1, <1>6, <3>1, LockReadmitted DEF back
  <2>5. /\ AcceptedProjection(live) \in {AcceptedProjection(tree), Renders[cmd.to]}
        /\ Sealed(live) \in {Sealed(tree), SealedAfter(tree, cmd)}
    <3>1. CASE live[LockFile] = tree[LockFile]
      BY <3>1 DEF AcceptedProjection, Sealed
    <3>2. CASE live[LockFile] = LockAfter(tree, cmd)
      BY <1>1, <3>2, LockAfterSays
    <3> QED
      BY <2>4, <3>1, <3>2
  <2>6. ASSUME NEW w \in DOMAIN BaseTree(AcceptedProjection(later))
        PROVE  later[w] = BaseTree(AcceptedProjection(later))[w]
    <3>1. w \in DOMAIN BaseTree(AcceptedProjection(tree)) /\ w \in BasePaths /\ w \in Own
      BY <1>1, <1>2, <2>3, <2>6, BaseNamed DEF Plannable
    <3>2. CASE w \in TouchedPaths(back) /\ Desired(back, w) = BaseTree(AcceptedProjection(tree))[w]
      BY <2>3, <3>1, <3>2
    <3>3. CASE w \notin TouchedPaths(back) /\ BaseTree(AcceptedProjection(tree)) = BaseTree(Renders[cmd.to])
      <4>1. BaseTree(AcceptedProjection(live)) = BaseTree(AcceptedProjection(tree))
        BY <2>5, <3>3
      <4>2. live[w] = BaseTree(AcceptedProjection(tree))[w]
        BY <3>1, <4>1 DEF Orderly, BaseIntact
      <4> QED
        BY <2>3, <3>1, <3>3, <4>2
    <3> QED
      BY <1>1, <3>1, <3>2, <3>3, InverseOnBase DEF back
  <2>7. ASSUME NEW slot \in Taken(later) \cap Sealable
        PROVE  Slot[slot] \in DOMAIN Sealed(later) /\ Sealed(later)[Slot[slot]] = slot[2]
    <3> DEFINE w == Slot[slot]
    <3>1. w \in DOMAIN Sealed(live) /\ Sealed(live)[w] = slot[2] /\ w \notin TouchedPaths(back)
      BY <1>4, <1>5
    <3>2. CASE Sealed(live) = Sealed(tree)
      BY <2>3, <3>1, <3>2
    <3>3. CASE Sealed(live) = SealedAfter(tree, cmd)
      <4>1. w \notin {Slot[s] : s \in Fresh(tree, cmd)}
        BY <1>3, <3>1
      <4>2. w \in DOMAIN SealedAfter(tree, cmd)
        BY <3>1, <3>3
      <4>3. w \in DOMAIN Sealed(tree) /\ Sealed(tree)[w] = SealedAfter(tree, cmd)[w]
        BY <1>1, <4>1, <4>2, SealedBefore
      <4> QED
        BY <2>3, <3>1, <3>3, <4>3
    <3> QED
      BY <2>5, <3>2, <3>3
  <2> QED
    BY <2>6, <2>7 DEF Orderly, BaseIntact, AllSealed
<1>7. CASE tree[LockFile] = LockAfter(tree, cmd)
  <2>1. later[LockFile] = live[LockFile]
    BY <1>1, <1>2, <1>7, InverseOnLock DEF back
  <2>2. AcceptedProjection(later) = AcceptedProjection(live) /\ Sealed(later) = Sealed(live)
    BY <2>1 DEF AcceptedProjection, Sealed
  <2>3. ASSUME NEW w \in DOMAIN BaseTree(AcceptedProjection(later))
        PROVE  later[w] = BaseTree(AcceptedProjection(later))[w]
    <3>1. w \in BasePaths /\ w \in Own /\ w \in Path /\ BaseTree(AcceptedProjection(live))[w] \in Text
      BY <1>2, <2>2, <2>3, BaseNamed
    <3>2. live[w] = BaseTree(AcceptedProjection(live))[w] /\ live[w] # Absent
      BY <2>2, <2>3, <3>1, ImagesAssumption, AbsentAssumption DEF Orderly, BaseIntact
    <3>3. CASE w \in TouchedPaths(back)
      <4>1. w \in DOMAIN back.base /\ back.base[w] = Absent
        BY <1>1, <1>7, <3>1, <3>3, InverseOnStrays DEF back
      <4>2. PathAdmitted(live, back, w)
        BY <3>1 DEF FilesAdmitted
      <4>3. live[w] = Desired(back, w)
        BY <3>2, <4>1, <4>2 DEF PathAdmitted, FileAdmitted
      <4> QED
        BY <2>2, <3>1, <3>2, <3>3, <4>3
    <3>4. CASE w \notin TouchedPaths(back)
      BY <2>2, <3>1, <3>2, <3>4
    <3> QED
      BY <3>3, <3>4
  <2>4. \A slot \in Taken(later) \cap Sealable :
          Slot[slot] \in DOMAIN Sealed(later) /\ Sealed(later)[Slot[slot]] = slot[2]
    BY <1>4, <1>5, <2>2
  <2> QED
    BY <2>3, <2>4 DEF Orderly, BaseIntact, AllSealed
<1> QED
  BY <1>6, <1>7

-----------------------------------------------------------------------------
(* No migration is taken for a source that Spotless formats: as jails      *)
(* writes it, and as it is in a project.                                   *)
MigrationsAreNoText == \A slot \in DOMAIN Slot : slot[2] \notin Text

NoSources(tree) == \A w \in MigrationPaths : tree[w] \notin Text

(* The lock never seals what is not there.                                 *)
Pristine(tree) == SealedThere(tree) /\ NoSources(tree)

(* A step that leaves the migrations and the lock alone leaves that.       *)
LEMMA SealedStays ==
  ASSUME NEW tree, Readable(tree), SealedThere(tree), NEW later, later[LockFile] = tree[LockFile],
         \A w \in DOMAIN Sealed(tree) : later[w] = tree[w]
  PROVE  SealedThere(later)
<1>1. Sealed(later) = Sealed(tree)
  BY DEF Sealed
<1> QED
  BY <1>1 DEF SealedThere

(* What a write of a run changes, and how.                                 *)
LEMMA RunWrites ==
  ASSUME IInv, NEW p \in Proc, NEW u \in Path, disk'[u] # disk[u], (aim[p] = u /\ Persist(p)) \/ RemoveRetired(p, u)
  PROVE  /\ \A v \in Path \ {u} : disk'[v] = disk[v]
         /\ disk'[u] = Desired(job[p], u) /\ u \in TouchedPaths(job[p]) /\ pc[p] = "publishing"
         /\ RemoveRetired(p, u) => u \in RemovedPaths(job[p]) /\ disk'[u] = Absent
         /\ ~RemoveRetired(p, u) => u \in DesiredPaths(job[p]) /\ aim[p] = u /\ Persist(p)
<1>1. Typed /\ Staging /\ disk = [v \in Path |-> disk[v]]
  BY DEF IInv, Typed, Tree
<1>2. CASE RemoveRetired(p, u)
  <2>1. u \in RemovedPaths(job[p]) /\ Desired(job[p], u) = Absent /\ disk' = [disk EXCEPT ![u] = Absent]
    BY <1>1, <1>2, RemoveTypes DEF RemoveRetired
  <2> QED
    BY <1>1, <1>2, <2>1 DEF TouchedPaths, RemoveRetired, Publishing
<1>3. CASE aim[p] = u /\ Persist(p) /\ ~RemoveRetired(p, u)
  <2>1. u \in DesiredPaths(job[p]) /\ disk' = [disk EXCEPT ![u] = Desired(job[p], u)]
    BY <1>1, <1>3, PersistTypes
  <2> QED
    BY <1>1, <1>3, <2>1 DEF TouchedPaths, Persist, Publishing
<1> QED
  BY <1>2, <1>3

(* A plan puts a migration where its lock will seal it, if at all, and the *)
(* lock down when all it seals is there.                                   *)
LEMMA PlanSeals ==
  ASSUME IInv, [OpenNext]_vars, edits' = edits, Readable(disk), SealedThere(disk),
         NEW p \in Proc, holder = p, Ahead(job[p]), foreign[p] \cap Own = {},
         NEW u \in Own, disk'[u] # disk[u], (aim[p] = u /\ Persist(p)) \/ RemoveRetired(p, u)
  PROVE  SealedThere(disk') /\ (u \in MigrationPaths => \E slot \in DOMAIN Slot : disk'[u] = slot[2])
<1> DEFINE b == job[p]
<1>1. PICK tree, d, cmd : Plannable(tree, cmd) /\ SealedThere(tree) /\ b = Materialized(tree, d, cmd)
  BY DEF Ahead
<1>2. u \in Path /\ Own \subseteq Path /\ LockFile \in Own /\ MigrationPaths \subseteq Own /\ BasePaths \subseteq Own
  BY OwnIsApart
<1>3. /\ \A v \in Path \ {u} : disk'[v] = disk[v]
      /\ disk'[u] = Desired(b, u) /\ u \in TouchedPaths(b)
  BY <1>2, RunWrites
<1>4. PathAdmitted(disk, b, LockFile)
  BY <1>2 DEF IInv, Admissible
<1>5. \/ disk[LockFile] \in {tree[LockFile], LockAfter(tree, cmd)}
      \/ disk[LockFile] = Absent /\ tree[LockFile] = LockAfter(tree, cmd)
  BY <1>1, <1>4, LockAdmitted
<1>6. CASE u = LockFile
  <2>1. tree[LockFile] # LockAfter(tree, cmd) /\ disk'[LockFile] = LockAfter(tree, cmd)
    BY <1>1, <1>3, <1>6, LockWritten
  <2>2. disk[LockFile] = tree[LockFile] /\ Sealed(disk) = Sealed(tree)
    BY <1>5, <1>6, <2>1 DEF Sealed
  <2>3. Sealed(disk') = SealedAfter(tree, cmd)
    BY <1>1, <2>1, LockAfterSays
  <2>4. ASSUME NEW w \in DOMAIN SealedAfter(tree, cmd) PROVE disk'[w] = SealedAfter(tree, cmd)[w]
    <3>1. w \in MigrationPaths /\ w \in Path /\ w # u /\ w \in Own
      BY <1>1, <1>2, <1>6, <2>4, SealedImages, KindsOfPath
    <3>2. disk'[w] = disk[w]
      BY <1>3, <3>1
    <3>3. CASE w \in {Slot[s] : s \in Fresh(tree, cmd)}
      <4>1. w \in DesiredPaths(b)
        BY <1>1, <3>3, FreshTouched, AppendedTypes
      <4>2. Desired(b, w) = SealedAfter(tree, cmd)[w]
        <5>1. Desired(b, w) = MigrationsAfter(tree, cmd)[w]
          BY <1>1, <3>1, <4>1, MaterializedIsFit, MigrationTarget
        <5> QED
          BY <1>1, <2>4, <5>1, SealedAsLeft
      <4>3. Marked(b) /\ Len(b.ops) \in DOMAIN b.ops /\ Written(b.ops[Len(b.ops)]) = {LockFile}
        BY <1>1, <2>1, MarkedByLock
      <4>4. w \in TouchedPaths(b) \ (Written(b.ops[Len(b.ops)]) \cup foreign[p])
        BY <1>6, <3>1, <4>1, <4>3 DEF TouchedPaths
      <4>5. LockFile \in Written(b.ops[Len(b.ops)]) /\ disk'[LockFile] # disk[LockFile]
        BY <1>6, <4>3
      <4>6. Typed /\ OneWriter /\ Staging /\ InOrder
        BY DEF IInv
      <4>7. disk[w] = Desired(b, w)
        BY <4>3, <4>4, <4>5, <4>6, MarkerStep
      <4> QED
        BY <3>2, <4>2, <4>7
    <3>4. CASE w \notin {Slot[s] : s \in Fresh(tree, cmd)}
      <4>1. w \in DOMAIN Sealed(tree) /\ Sealed(tree)[w] = SealedAfter(tree, cmd)[w]
        BY <1>1, <2>4, <3>4, SealedBefore
      <4> QED
        BY <2>2, <3>2, <4>1 DEF SealedThere
    <3> QED
      BY <3>3, <3>4
  <2> QED
    BY <1>6, <2>3, <2>4, KindsOfPath DEF SealedThere
<1>7. CASE u \in MigrationPaths
  <2>1. PICK s \in Fresh(tree, cmd) :
          /\ u = Slot[s] /\ Desired(b, u) = s[2]
          /\ s \in Sealable => u \in DOMAIN SealedAfter(tree, cmd) /\ SealedAfter(tree, cmd)[u] = s[2]
    BY <1>1, <1>3, <1>7, MigrationLeft
  <2>2. s \in DOMAIN Slot
    BY <1>1, <2>1, FreshIsNew
  <2>3. disk'[LockFile] = disk[LockFile] /\ Sealed(disk') = Sealed(disk)
    <3>1. disk'[LockFile] = disk[LockFile]
      BY <1>2, <1>3, <1>7, KindsOfPath
    <3> QED
      BY <3>1 DEF Sealed
  <2>4. ASSUME NEW w \in DOMAIN Sealed(disk) PROVE disk'[w] = Sealed(disk)[w]
    <3>1. w \in MigrationPaths /\ w \in Path
      BY <1>2, <2>4, SealedMigrations
    <3>2. CASE w # u
      BY <1>3, <2>4, <3>1, <3>2 DEF SealedThere
    <3>3. CASE w = u
      <4>1. disk[LockFile] # Absent
        BY <2>4 DEF Sealed
      <4>2. s \in Sealable
        BY <2>1, <2>2, <2>4, <3>3, AuthoredUnsealed
      <4>3. CASE disk[LockFile] = tree[LockFile]
        <5>1. Sealed(disk) = Sealed(tree)
          BY <4>3 DEF Sealed
        <5> QED
          BY <1>1, <1>3, <2>1, <2>4, <3>3, <4>2, <5>1, SealsMore
      <4>4. CASE disk[LockFile] = LockAfter(tree, cmd)
        <5>1. Sealed(disk) = SealedAfter(tree, cmd)
          BY <1>1, <4>4, LockAfterSays
        <5> QED
          BY <1>3, <2>1, <3>3, <4>2, <5>1
      <4> QED
        BY <1>5, <4>1, <4>3, <4>4
    <3> QED
      BY <3>2, <3>3
  <2> QED
    BY <1>3, <2>1, <2>2, <2>3, <2>4 DEF SealedThere
<1>8. CASE u \in BasePaths
  <2>1. disk'[LockFile] = disk[LockFile] /\ u \notin MigrationPaths
    BY <1>2, <1>3, <1>8, OwnIsApart
  <2>2. \A w \in DOMAIN Sealed(disk) : disk'[w] = disk[w]
    BY <1>2, <1>3, <2>1, SealedMigrations
  <2> QED
    BY <2>1, <2>2, SealedStays
<1> QED
  BY <1>6, <1>7, <1>8 DEF Own

(* The first operation of an inverse is the last one of its plan.          *)
LEMMA InverseStarts ==
  ASSUME NEW b, IsBundle(b), Len(b.ops) \in DOMAIN b.ops
  PROVE  1 \in DOMAIN InverseBundle(b).ops /\ InverseBundle(b).ops[1] = InverseOp(b.ops[Len(b.ops)])
<1> DEFINE n == Len(b.ops)
           inverse == [i \in DOMAIN b.ops |-> InverseOp(b.ops[i])]
           ops == InverseBundle(b).ops
<1>1. n \in Nat /\ DOMAIN b.ops = 1 .. n /\ n >= 1
  BY DEF IsBundle
<1>2. Len(inverse) = n
  <2>1. inverse \in Seq({InverseOp(b.ops[i]) : i \in DOMAIN b.ops})
    BY <1>1, SeqDef
  <2> QED
    BY <1>1, <2>1, LenProperties
<1>3. ops = [j \in 1 .. n |-> inverse[(n - j) + 1]]
  BY <1>2 DEF InverseBundle, Seqs!Reverse
<1> HIDE DEF ops, n
<1>4. 1 \in 1 .. n /\ (n - 1) + 1 = n /\ n \in DOMAIN b.ops
  BY <1>1
<1>5. ops[1] = InverseOp(b.ops[n]) /\ 1 \in DOMAIN ops
  BY <1>3, <1>4
<1> QED
  BY <1>5 DEF ops, n

(* An inverse takes the lock back first, and only then the migrations it   *)
(* no longer seals.                                                        *)
LEMMA InverseSeals ==
  ASSUME IInv, Readable(disk), SealedThere(disk),
         NEW p \in Proc, NEW k, Revocable(k), job[p] = InverseBundle(k), foreign[p] \cap Own = {},
         NEW u \in Own, disk'[u] # disk[u], (aim[p] = u /\ Persist(p)) \/ RemoveRetired(p, u)
  PROVE  SealedThere(disk') /\ (u \in MigrationPaths => disk'[u] = Absent)
<1> DEFINE back == job[p]
<1>1. PICK tree, d, cmd :
        /\ Plannable(tree, cmd) /\ SealedThere(tree) /\ ~RestoresMissing(cmd.restore)
        /\ k = Materialized(tree, d, cmd)
  BY DEF Revocable
<1>2. u \in Path /\ Own \subseteq Path /\ LockFile \in Own /\ MigrationPaths \subseteq Own /\ BasePaths \subseteq Own
  BY OwnIsApart
<1>3. /\ \A v \in Path \ {u} : disk'[v] = disk[v]
      /\ disk'[u] = Desired(back, u) /\ u \in TouchedPaths(back) /\ pc[p] = "publishing"
      /\ ~RemoveRetired(p, u) => u \in DesiredPaths(back)
  BY <1>2, RunWrites
<1>4. CASE u = LockFile
  <2>1. tree[LockFile] # LockAfter(tree, cmd) /\ disk'[LockFile] = tree[LockFile]
    BY <1>1, <1>3, <1>4, InverseOnLock
  <2>2. Sealed(disk') = Sealed(tree)
    BY <2>1 DEF Sealed
  <2>3. PathAdmitted(disk, back, LockFile)
    BY <1>2 DEF IInv, Admissible
  <2>4. disk[LockFile] = LockAfter(tree, cmd)
    BY <1>1, <1>4, <2>1, <2>3, LockReadmitted
  <2>5. Sealed(disk) = SealedAfter(tree, cmd)
    BY <1>1, <2>4, LockAfterSays
  <2>6. ASSUME NEW w \in DOMAIN Sealed(tree) PROVE disk'[w] = Sealed(tree)[w]
    <3>1. w \in DOMAIN SealedAfter(tree, cmd) /\ SealedAfter(tree, cmd)[w] = Sealed(tree)[w]
      BY <1>1, <2>6, SealsMore
    <3>2. w \in MigrationPaths /\ w \in Path /\ w # u
      BY <1>1, <1>4, <3>1, SealedImages, KindsOfPath
    <3> QED
      BY <1>3, <2>5, <3>1, <3>2 DEF SealedThere
  <2> QED
    BY <1>4, <2>2, <2>6, KindsOfPath DEF SealedThere
<1>5. CASE u \in MigrationPaths
  <2>1. PICK s \in Fresh(tree, cmd) : u = Slot[s]
    BY <1>1, <1>3, <1>5, InverseOnMigrations
  <2>2. /\ u \notin DesiredPaths(back) /\ Desired(back, u) = Absent
        /\ tree[LockFile] = LockAfter(tree, cmd) => \A t \in Sealable : u # Slot[t]
    BY <1>1, <1>3, <1>5, InverseOnMigrations
  <2>3. RemoveRetired(p, u) /\ disk'[u] = Absent
    BY <1>3, <2>2
  <2>4. disk'[LockFile] = disk[LockFile]
    BY <1>2, <1>3, <1>5, KindsOfPath
  <2>5. s \in DOMAIN Slot
    BY <1>1, FreshIsNew
  <2>6. CASE s \notin Sealable
    <3>1. u \notin DOMAIN Sealed(disk)
      BY <2>1, <2>5, <2>6, AuthoredUnsealed
    <3>2. \A w \in DOMAIN Sealed(disk) : disk'[w] = disk[w]
      BY <1>2, <1>3, <3>1, SealedMigrations
    <3> QED
      BY <2>3, <2>4, <3>2, SealedStays
  <2>7. CASE s \in Sealable
    <3>1. tree[LockFile] # LockAfter(tree, cmd)
      BY <2>1, <2>2, <2>7
    <3>2. at[p] \in DOMAIN back.ops /\ u \in Touched(back.ops[at[p]])
      BY <2>3 DEF RemoveRetired, Publishing, CurrentOp, Touched
    <3>3. IsBundle(k) /\ Len(k.ops) \in DOMAIN k.ops /\ Written(k.ops[Len(k.ops)]) = {LockFile}
      BY <1>1, <3>1, MaterializedIsFit, MarkedByLock DEF Fit
    <3> DEFINE op == k.ops[Len(k.ops)]
    <3>4. op \in Moves(tree, cmd)
      <4>1. k.ops = Operations(tree, cmd)
        BY <1>1 DEF Materialized
      <4> QED
        BY <1>1, <3>3, <4>1, SequenceOfMoves DEF Entries
    <3>5. Reach(op) = {LockFile}
      <4>1. LockFile \in Reach(op)
        BY <3>3 DEF Reach, Touched
      <4>2. LockFile \notin DOMAIN BaseOf /\ LockFile \notin BasePaths /\ LockFile # ModelFile
        BY PathsAssumption
      <4>3. \A f \in Fresh(tree, cmd) : LockFile # Slot[f]
        BY <1>1, FreshIsNew, OwnIsApart
      <4>4. \/ Reach(op) \subseteq DOMAIN BaseOf
            \/ Reach(op) \subseteq BasePaths
            \/ \E f \in Fresh(tree, cmd) : Reach(op) = {Slot[f]}
            \/ Reach(op) = {ModelFile}
            \/ Reach(op) = {LockFile}
        BY <1>1, <3>4, MoveReach
      <4> HIDE DEF op
      <4> QED
        BY <4>1, <4>2, <4>3, <4>4
    <3>6. 1 \in DOMAIN back.ops /\ Touched(back.ops[1]) \subseteq {LockFile} /\ LockFile \in Touched(back.ops[1])
      <4>1. 1 \in DOMAIN back.ops /\ back.ops[1] = InverseOp(op)
        BY <3>3, InverseStarts
      <4>2. /\ Written(InverseOp(op)) = DOMAIN op.before
            /\ Retired(InverseOp(op)) = Written(op) \ DOMAIN op.before
        BY InverseTouches
      <4> QED
        BY <3>3, <3>5, <4>1, <4>2 DEF Touched, Reach
    <3>7. at[p] # 1 /\ at[p] >= 1
      <4>1. at[p] # 1
        BY <1>5, <3>2, <3>6, KindsOfPath
      <4>2. IsBundle(back)
        BY <1>3 DEF IInv, Staging, Fit
      <4> QED
        BY <3>2, <4>1, <4>2 DEF IsBundle
    <3>8. Behind(p, LockFile)
      BY <3>6, <3>7 DEF Behind
    <3>9. disk[LockFile] = Desired(back, LockFile)
      BY <1>2, <1>3, <3>8 DEF IInv, InOrder
    <3>10. disk[LockFile] = tree[LockFile]
      BY <1>1, <3>1, <3>9, InverseOnLock
    <3>11. Sealed(disk) = Sealed(tree)
      BY <3>10 DEF Sealed
    <3>12. u \notin DOMAIN Sealed(tree)
      <4> SUFFICES ASSUME u \in DOMAIN Sealed(tree) PROVE FALSE
        OBVIOUS
      <4>1. Readable(tree)
        BY <1>1 DEF Plannable
      <4>2. PICK slots \in SUBSET Sealable :
              /\ DOMAIN Sealed(tree) = {Slot[t] : t \in slots}
              /\ \A t \in slots : Sealed(tree)[Slot[t]] = t[2]
        BY <4>1, SealedTyped
      <4>3. PICK t \in slots : u = Slot[t]
        BY <4>2
      <4>4. s \in DOMAIN Slot /\ s \notin Taken(tree)
        BY <1>1, FreshIsNew
      <4>5. s = t
        BY <2>1, <4>3, <4>4, SealableAreSlots, SlotAssumption
      <4>6. tree[u] = t[2] /\ t[2] \in Image
        BY <1>1, <4>2, <4>3, SealableAreSlots, ImagesAssumption DEF SealedThere
      <4>7. tree[u] # Absent
        BY <4>6, AbsentAssumption
      <4> QED
        BY <2>1, <4>4, <4>7 DEF Taken
    <3>13. \A w \in DOMAIN Sealed(disk) : disk'[w] = disk[w]
      BY <1>2, <1>3, <3>11, <3>12, SealedMigrations
    <3> QED
      BY <2>3, <2>4, <3>13, SealedStays
  <2> QED
    BY <2>6, <2>7
<1>6. CASE u \in BasePaths
  <2>1. disk'[LockFile] = disk[LockFile] /\ u \notin MigrationPaths
    BY <1>2, <1>3, <1>6, OwnIsApart
  <2>2. \A w \in DOMAIN Sealed(disk) : disk'[w] = disk[w]
    BY <1>2, <1>3, <2>1, SealedMigrations
  <2> QED
    BY <2>1, <2>2, SealedStays
<1> QED
  BY <1>4, <1>5, <1>6 DEF Own

-----------------------------------------------------------------------------
(* What is applied was made on a project that held what its lock sealed,   *)
(* or is such a plan read backwards.                                       *)
Provenance ==
  /\ \A p \in Proc : pc[p] # "idle" =>
       (Ahead(job[p]) \/ Backward(job[p])) /\ (tail[p] = "remember" => Revocable(job[p]))
  /\ kept # None => Revocable(kept)

(* Nobody but a run at work writes the files of jails' own: the reader     *)
(* does not, and the formatter waits.                                      *)
Apart ==
  \A p \in Proc :
    /\ pc[p] \in Admission => foreign[p] \cap Own = {}
    /\ pc[p] = "publishing" => at[p] > 0

Waits == \A p \in Proc : pc[p] \in {"idle"} \cup Over

Solitary ==
  advance # None => Waits /\ disk[LockFile] # Absent /\ advance.lock.sealed = Sealed(disk)

(* The steps of the system, by what they do to those files: a command is   *)
(* handed a plan, ...                                                      *)
Handed(p) ==
  /\ \E b :
       /\ Hand(p, b) /\ (Ahead(b) \/ Backward(b))
       /\ tail'[p] = "remember" => Revocable(b)
  /\ \A q \in Proc \ {p} : tail'[q] = tail[q]
  /\ kept' = kept /\ advance' = advance

(* ... a run takes a step, ...                                             *)
RunsOn(p) ==
  /\ Rerun(p) \/ Acquire(p) \/ Work(p) \/ Fail(p) \/ Abort(p)
  /\ \A q \in Proc : tail'[q] \in {tail[q], "nothing"}
  /\ kept' = kept /\ advance' = advance

(* ... or nothing happens to them, ...                                     *)
Started == [lock |-> disk[LockFile], changed |-> FALSE, todo |-> PathsIn(AcceptedProjection(disk))]

Aside ==
  /\ UNCHANGED <<pc, job, at>>
  /\ \A q \in Proc : tail'[q] \in {tail[q], "nothing", "format", "advance"}
  /\ kept' \in {kept, None} \/ \E q \in Proc : pc[q] = "done" /\ tail[q] = "remember" /\ kept' = job[q]
  /\ \A w \in Own : disk'[w] = disk[w]
  /\ \A q \in Proc : foreign'[q] \cap Own \subseteq foreign[q]
  /\ \/ advance' = advance /\ faults' \in {faults, faults + 1}
     \/ advance' = None /\ faults' = faults + 1
     \/ advance = None /\ advance' = Started /\ disk[LockFile] # Absent /\ BaseIntact(disk) /\ faults' = faults
     \/ /\ advance # None /\ advance' # None /\ faults' = faults
        /\ advance'.lock = advance.lock /\ advance'.changed = advance.changed

(* ... or the formatter writes one of them.                                *)
Advances ==
  /\ (\E w \in DOMAIN BaseOf : AdvanceBase(w)) \/ AdvanceLock
  /\ tail' = tail /\ kept' = kept

(* A command is handed a plan it has made, or the kept one read backwards. *)
LEMMA Handing ==
  ASSUME UInv, SealedThere(disk), Provenance, NEW p \in Proc,
         UndoLast(p) \/ \E cmd \in Commands : Generate(p, cmd)
  PROVE  Handed(p)
<1>1. tail = [q \in Proc |-> tail[q]]
  BY DEF UInv, Undoing
<1>2. ASSUME NEW cmd \in Commands, Generate(p, cmd) PROVE Handed(p)
  <2> DEFINE b == Materialized(disk, debris, cmd)
  <2>1. Plannable(disk, cmd) /\ Hand(p, b)
    BY <1>2, GenerateIsHand
  <2>2. Ahead(b) /\ (~RestoresMissing(cmd.restore) => Revocable(b))
    BY <2>1 DEF Ahead, Revocable
  <2>3. Duty(cmd) = "remember" => ~RestoresMissing(cmd.restore)
    BY DEF Duty, RestoresMissing
  <2>4. tail' = [tail EXCEPT ![p] = Duty(cmd)] /\ kept' = kept /\ advance' = advance
    BY <1>2 DEF Generate, Then
  <2> HIDE DEF b
  <2>5. tail'[p] = Duty(cmd) /\ \A q \in Proc \ {p} : tail'[q] = tail[q]
    BY <1>1, <2>4
  <2> QED
    BY <2>1, <2>2, <2>3, <2>4, <2>5 DEF Handed
<1>3. ASSUME UndoLast(p) PROVE Handed(p)
  <2>1. Hand(p, InverseBundle(kept))
    BY <1>3, UndoIsHand
  <2>2. Backward(InverseBundle(kept))
    BY <1>3 DEF UndoLast, Provenance, Backward
  <2>3. tail' = [tail EXCEPT ![p] = "forget"] /\ kept' = kept /\ advance' = advance
    BY <1>3 DEF UndoLast, Then
  <2>4. tail'[p] = "forget" /\ \A q \in Proc \ {p} : tail'[q] = tail[q]
    BY <1>1, <2>3
  <2> QED
    BY <2>1, <2>2, <2>3, <2>4 DEF Handed
<1> QED
  BY <1>2, <1>3

(* Spotless finds no text among them.                                      *)
LEMMA ReformatLeavesOwn ==
  ASSUME LocksAreImages, IInv, Readable(disk), Pristine(disk), Reformat
  PROVE  /\ \A w \in Own : disk'[w] = disk[w]
         /\ \A q \in Proc : foreign'[q] \cap Own \subseteq foreign[q]
<1> DEFINE tidied == [w \in Path |-> IF w \in Sources THEN [r \in Region |-> Tidy[disk[w][r]]] ELSE disk[w]]
<1>1. disk' = tidied /\ foreign' = [q \in Proc |-> foreign[q] \cup {w \in Path : tidied[w] # disk[w]}]
  BY DEF Reformat
<1>2. \A w \in Own : w \notin Sources
  <2>1. disk[LockFile] \notin Text
    BY ImagesAssumption, AbsentAssumption DEF Readable, LocksAreImages
  <2> QED
    BY <2>1 DEF Own, Sources, Pristine, NoSources
<1>3. \A w \in Own : w \in Path /\ tidied[w] = disk[w]
  BY <1>2, OwnIsApart
<1> HIDE DEF tidied
<1> QED
  BY <1>1, <1>3

(* So a run of Spotless is a step aside, started or not.                   *)
LEMMA ReformatIsAside ==
  ASSUME LocksAreImages, IInv, Readable(disk), Pristine(disk), Reformat, kept' = kept,
         \A q \in Proc : tail'[q] \in {tail[q], "nothing", "format", "advance"}
  PROVE  Aside
<1>1. /\ \A w \in Own : disk'[w] = disk[w]
      /\ \A q \in Proc : foreign'[q] \cap Own \subseteq foreign[q]
  BY ReformatLeavesOwn
<1>2. UNCHANGED <<pc, job, at>> /\ faults' = faults
  BY DEF Reformat, Elsewhere, progress
<1>3. /\ advance = None
      /\ advance' = IF disk[LockFile] # Absent /\ BaseIntact(disk) THEN Started ELSE None
  BY DEF Reformat, Started
<1> QED
  BY <1>1, <1>2, <1>3 DEF Aside

(* Nor does the reader write them.                                         *)
LEMMA ReadIsAside ==
  ASSUME EditorPaths \cap Own = {}, IInv, Read
  PROVE  Aside
<1>1. PICK w \in EditorPaths : \E c : Edit(w, c)
  BY DEF Read, Reader, Delete, Type
<1>2. PICK c : Edit(w, c)
  BY <1>1
<1>3. /\ disk' = [disk EXCEPT ![w] = c] /\ foreign' = [q \in Proc |-> foreign[q] \cup {w}]
      /\ UNCHANGED <<pc, job, at, faults>>
  BY <1>2 DEF Edit, progress
<1>4. w \notin Own /\ Own \subseteq Path /\ disk = [v \in Path |-> disk[v]] /\ foreign = [q \in Proc |-> foreign[q]]
  BY OwnIsApart DEF IInv, Typed, Tree
<1>5. \A v \in Own : disk'[v] = disk[v]
  BY <1>3, <1>4
<1>6. \A q \in Proc : foreign'[q] \cap Own \subseteq foreign[q]
  BY <1>3, <1>4
<1>7. UNCHANGED <<advance, kept, tail>>
  BY DEF Read
<1> QED
  BY <1>3, <1>5, <1>6, <1>7 DEF Aside

(* What the formatter holds in memory is not nothing.                      *)
NoneIsNoRecord == \A todo, lock, changed : [todo |-> todo, lock |-> lock, changed |-> changed] # None

(* Every step is one of these.                                             *)
LEMMA Turns ==
  ASSUME LocksAreImages, NoneIsNoRecord, EditorPaths \cap Own = {}, UInv, Pristine(disk), Provenance, [UNext]_uvars
  PROVE  (\E p \in Proc : Handed(p) \/ RunsOn(p)) \/ Aside \/ Advances
<1> DEFINE Goal == (\E p \in Proc : Handed(p) \/ RunsOn(p)) \/ Aside \/ Advances
<1>1. IInv /\ Readable(disk) /\ tail = [q \in Proc |-> tail[q]]
  BY DEF UInv, Undoing
<1>2. CASE UNCHANGED uvars
  BY <1>2 DEF uvars, fvars, Aside
<1>3. ASSUME NEW p \in Proc, UndoLast(p) \/ \E cmd \in Commands : Generate(p, cmd) PROVE Goal
  BY <1>3, Handing DEF Pristine
<1>4. ASSUME NEW p \in Proc, Run(p) PROVE Goal
  BY <1>1, <1>4 DEF Run, Apply, Then, RunsOn
<1>5. ASSUME NEW p \in Proc, Keep(p) PROVE Goal
  BY <1>1, <1>5 DEF Keep, Then, pvars, Aside
<1>6. ASSUME NEW p \in Proc, Forget(p) PROVE Goal
  BY <1>1, <1>6 DEF Forget, Then, pvars, Aside
<1>7. ASSUME NEW p \in Proc, Cease(p) PROVE Goal
  BY <1>1, <1>7 DEF Cease, Then, Elsewhere, progress, Aside
<1>8. ASSUME NEW p \in Proc, FollowUp(p) PROVE Goal
  <2>1. kept' = kept
    BY <1>8 DEF FollowUp
  <2>2. CASE Reformat /\ Then(p, "advance")
    BY <1>1, <2>1, <2>2, ReformatIsAside DEF Then
  <2>3. CASE Then(p, "nothing") /\ UNCHANGED <<pvars, formats, advance>>
    BY <1>1, <2>1, <2>3 DEF Then, pvars, Aside
  <2> QED
    BY <1>8, <2>2, <2>3 DEF FollowUp
<1>9. CASE Formatter /\ UNCHANGED <<kept, tail, last>>
  <2>1. CASE Reformat
    BY <1>1, <1>9, <2>1, ReformatIsAside
  <2>2. CASE StopAdvance
    BY <1>9, <2>2 DEF StopAdvance, Elsewhere, progress, Aside
  <2>3. ASSUME NEW w \in DOMAIN BaseOf, PassOver(w) PROVE Goal
    <3>1. advance # None /\ advance = [todo |-> advance.todo, lock |-> advance.lock, changed |-> advance.changed]
      BY <2>3 DEF PassOver, UInv, Undoing, Advancing
    <3>2. advance' = [todo |-> advance.todo \ {w}, lock |-> advance.lock, changed |-> advance.changed]
      BY <2>3, <3>1 DEF PassOver
    <3>3. advance' # None /\ advance'.lock = advance.lock /\ advance'.changed = advance.changed
      BY <3>2 DEF NoneIsNoRecord
    <3> QED
      BY <1>9, <2>3, <3>1, <3>3 DEF PassOver, Elsewhere, progress, Aside
  <2>4. CASE (\E w \in DOMAIN BaseOf : AdvanceBase(w)) \/ AdvanceLock
    BY <1>9, <2>4 DEF Advances
  <2> QED
    BY <1>9, <2>1, <2>2, <2>3, <2>4 DEF Formatter
<1>10. CASE Read
  BY <1>1, <1>10, ReadIsAside
<1> QED
  BY <1>2, <1>3, <1>4, <1>5, <1>6, <1>7, <1>8, <1>9, <1>10 DEF UNext, Commanded

-----------------------------------------------------------------------------
(* What being handed a plan changes.                                       *)
LEMMA HandedMoves ==
  ASSUME IInv, NEW p \in Proc, Handed(p)
  PROVE  /\ disk' = disk /\ faults' = faults /\ at' = at /\ advance' = advance /\ kept' = kept
         /\ pc[p] \in {"idle"} \cup Over /\ pc'[p] = "waiting"
         /\ Ahead(job'[p]) \/ Backward(job'[p])
         /\ tail'[p] = "remember" => Revocable(job'[p])
         /\ \A q \in Proc \ {p} : pc'[q] = pc[q] /\ job'[q] = job[q] /\ foreign'[q] = foreign[q] /\ tail'[q] = tail[q]
<1>1. PICK b : Hand(p, b) /\ (Ahead(b) \/ Backward(b)) /\ (tail'[p] = "remember" => Revocable(b))
  BY DEF Handed
<1>2. /\ pc' = [pc EXCEPT ![p] = "waiting"] /\ job' = [job EXCEPT ![p] = b]
      /\ foreign' = [foreign EXCEPT ![p] = Path \cup Dir]
      /\ disk' = disk /\ faults' = faults /\ at' = at
  BY <1>1 DEF Hand, Goto, files
<1>3. pc = [q \in Proc |-> pc[q]] /\ job = [q \in Proc |-> job[q]] /\ foreign = [q \in Proc |-> foreign[q]]
  BY DEF IInv, Typed
<1>4. pc'[p] = "waiting" /\ job'[p] = b
  BY <1>2, <1>3
<1>5. \A q \in Proc \ {p} : pc'[q] = pc[q] /\ job'[q] = job[q] /\ foreign'[q] = foreign[q] /\ tail'[q] = tail[q]
  BY <1>2, <1>3 DEF Handed
<1>6. pc[p] \in {"idle"} \cup Over /\ advance' = advance /\ kept' = kept
  BY <1>1 DEF Hand, Handed
<1> QED
  BY <1>1, <1>2, <1>4, <1>5, <1>6

(* What the formatter's writes leave alone.                                *)
LEMMA AdvancesLeave ==
  ASSUME Advances
  PROVE  UNCHANGED <<pc, job, at, faults, tail, kept>> /\ advance # None
  BY DEF Advances, AdvanceBase, AdvanceLock, Elsewhere, progress

(* While the formatter is at it, no run takes a step.                      *)
LEMMA NoneRunsOn ==
  ASSUME IInv, Solitary, OnItsOwn, NEW p \in Proc, RunsOn(p)
  PROVE  advance = None /\ advance' = None
<1> SUFFICES ASSUME advance # None PROVE FALSE
  BY DEF RunsOn
<1>1. pc[p] \in {"idle"} \cup Over /\ advance' # None
  BY DEF Solitary, Waits, RunsOn
<1>2. ~Acquire(p) /\ ~Fail(p) /\ ~Abort(p)
  BY <1>1 DEF Acquire, Fail, Abort, Over, Holding
<1>3. ~Work(p)
  <2>1. ~Sweep(p) /\ ~Admit(p) /\ ~Refuse(p) /\ ~DropProbe(p) /\ ~StartOperations(p) /\ \A d \in Dir : ~Probe(p, d)
    BY <1>1 DEF Sweep, Admit, Refuse, DropProbe, StartOperations, Probe, Over
  <2>2. ~Publishing(p)
    BY <1>1 DEF Publishing, Over
  <2>3. ~Persist(p) /\ ~NextOperation(p) /\ \A w \in Path : ~SkipWrite(p, w) /\ ~Stage(p, w) /\ ~RemoveRetired(p, w)
    BY <2>2 DEF Persist, NextOperation, SkipWrite, Stage, RemoveRetired
  <2>4. ~FinishOperations(p) /\ ~Verify(p)
    BY <1>1 DEF FinishOperations, Verify, Over
  <2> QED
    BY <2>1, <2>3, <2>4 DEF Work
<1>4. Rerun(p)
  BY <1>2, <1>3 DEF RunsOn
<1>5. pc' = [pc EXCEPT ![p] = "waiting"] /\ pc = [q \in Proc |-> pc[q]]
  BY <1>4 DEF Rerun, Goto, IInv, Typed
<1>6. pc'[p] = "waiting"
  BY <1>5
<1> QED
  BY <1>1, <1>6 DEF OnItsOwn, Over

(* Plans keep their provenance.                                            *)
LEMMA ProvenanceStep ==
  ASSUME UInv, Provenance, (\E p \in Proc : Handed(p) \/ RunsOn(p)) \/ Aside \/ Advances
  PROVE  Provenance'
<1>1. IInv
  BY DEF UInv
<1>2. ASSUME NEW p \in Proc, Handed(p) PROVE Provenance'
  <2>1. /\ kept' = kept
        /\ Ahead(job'[p]) \/ Backward(job'[p])
        /\ tail'[p] = "remember" => Revocable(job'[p])
        /\ \A q \in Proc \ {p} : pc'[q] = pc[q] /\ job'[q] = job[q] /\ tail'[q] = tail[q]
    BY <1>1, <1>2, HandedMoves
  <2> QED
    BY <2>1 DEF Provenance
<1>3. ASSUME NEW p \in Proc, RunsOn(p) PROVE Provenance'
  <2>1. job' = job /\ \A q \in Proc : pc'[q] # "idle" => pc[q] # "idle"
    BY <1>1, <1>3, RunsKeepPlans DEF RunsOn
  <2>2. kept' = kept /\ \A q \in Proc : tail'[q] = "remember" => tail[q] = "remember"
    BY <1>3 DEF RunsOn
  <2> QED
    BY <2>1, <2>2 DEF Provenance
<1>4. CASE Aside
  <2>1. pc' = pc /\ job' = job /\ \A q \in Proc : tail'[q] = "remember" => tail[q] = "remember"
    BY <1>4 DEF Aside
  <2>2. kept' \in {kept, None} \/ \E q \in Proc : pc[q] = "done" /\ tail[q] = "remember" /\ kept' = job[q]
    BY <1>4 DEF Aside
  <2>3. kept' # None => Revocable(kept')
    BY <2>2 DEF Provenance
  <2> QED
    BY <2>1, <2>3 DEF Provenance
<1>5. CASE Advances
  BY <1>5, AdvancesLeave DEF Provenance
<1> QED
  BY <1>2, <1>3, <1>4, <1>5

(* The formatter and the reader stay off jails' own files while a run is   *)
(* at work.                                                                *)
LEMMA ApartStep ==
  ASSUME IInv, Apart, Solitary, (\E p \in Proc : Handed(p) \/ RunsOn(p)) \/ Aside \/ Advances
  PROVE  Apart'
<1> SUFFICES ASSUME NEW q \in Proc
             PROVE  /\ pc'[q] \in Admission => foreign'[q] \cap Own = {}
                    /\ pc'[q] = "publishing" => at'[q] > 0
  BY DEF Apart
<1> DEFINE Kept == /\ pc'[q] \in Admission => foreign'[q] \cap Own = {}
                   /\ pc'[q] = "publishing" => at'[q] > 0
<1>1. ASSUME NEW p \in Proc, Handed(p) PROVE Kept
  <2>1. /\ at' = at /\ pc'[p] = "waiting"
        /\ \A r \in Proc \ {p} : pc'[r] = pc[r] /\ foreign'[r] = foreign[r]
    BY <1>1, HandedMoves
  <2> QED
    BY <2>1 DEF Apart, Admission
<1>2. ASSUME NEW p \in Proc, RunsOn(p) PROVE Kept
  <2>1. pc'[q] \in Admission => foreign'[q] \cap Own = {}
    BY <1>2, SeenByAdmitted DEF RunsOn, Apart
  <2>2. pc'[q] = "publishing" => at'[q] = 1 \/ (pc[q] = "publishing" /\ at'[q] \in {at[q], at[q] + 1})
    BY <1>2, RunMoves DEF RunsOn
  <2>3. at[q] \in Nat
    BY DEF IInv, Typed
  <2>4. pc'[q] = "publishing" => at'[q] > 0
    BY <2>2, <2>3 DEF Apart
  <2> QED
    BY <2>1, <2>4
<1>3. CASE Aside
  <2>1. pc' = pc /\ at' = at /\ foreign'[q] \cap Own \subseteq foreign[q]
    BY <1>3 DEF Aside
  <2> QED
    BY <2>1 DEF Apart
<1>4. CASE Advances
  <2>1. pc' = pc /\ at' = at /\ pc[q] \in {"idle"} \cup Over
    BY <1>4, AdvancesLeave DEF Solitary, Waits
  <2> QED
    BY <2>1 DEF Over, Admission
<1> QED
  BY <1>1, <1>2, <1>3, <1>4

-----------------------------------------------------------------------------
(* No two managed files share a merge base path, nor two artifacts of one  *)
(* model a managed path.                                                   *)
OneBaseEach == \A v, w \in DOMAIN BaseOf : BaseOf[v] = BaseOf[w] => v = w

OnePathEach == \A m \in Model : \A a, b \in DOMAIN Renders[m] : Renders[m][a].path = Renders[m][b].path => a = b

(* So the base a lock names at an artifact's base path is that artifact's  *)
(* own text.                                                               *)
LEMMA BaseEntry ==
  ASSUME OneBaseEach, OnePathEach, NEW lock, IsLock(lock), NEW a \in DOMAIN lock.projection
  PROVE  /\ lock.projection[a].path \in DOMAIN BaseOf
         /\ BaseOf[lock.projection[a].path] \in DOMAIN BaseTree(lock.projection)
         /\ BaseTree(lock.projection)[BaseOf[lock.projection[a].path]] = lock.projection[a].text
         /\ \A v \in DOMAIN lock.projection : lock.projection[v].path = lock.projection[a].path => v = a
<1> DEFINE projection == lock.projection
           u == BaseOf[projection[a].path]
<1>1. PICK m \in Model :
        /\ DOMAIN projection = DOMAIN Renders[m]
        /\ \A v \in DOMAIN projection : projection[v].path = Renders[m][v].path
  BY DEF IsLock
<1>2. \A v \in DOMAIN projection : projection[v].path \in DOMAIN BaseOf
  BY <1>1, RendersAssumption
<1> HIDE DEF projection
<1>3. \A v \in DOMAIN projection : BaseOf[projection[v].path] = u => v = a
  BY <1>1, <1>2 DEF OneBaseEach, OnePathEach, projection
<1>4. u \in DOMAIN BaseTree(projection)
  BY DEF BaseTree, PathsIn, projection
<1>5. BaseTree(projection)[u] = projection[CHOOSE v \in DOMAIN projection : BaseOf[projection[v].path] = u].text
  BY <1>4 DEF BaseTree
<1>6. (CHOOSE v \in DOMAIN projection : BaseOf[projection[v].path] = u) = a
  BY <1>3 DEF projection
<1> QED
  BY <1>2, <1>3, <1>4, <1>5, <1>6 DEF projection

(* Two merge bases that differ at one path, where the new one has text.    *)
DiffersAt(new, old, u, text) ==
  DOMAIN new = DOMAIN old /\ new[u] = text /\ \A v \in DOMAIN new \ {u} : new[v] = old[v]

(* A lock with another text for one artifact.                              *)
Reworded(lock, a, text) == [lock EXCEPT !.projection[a].text = text]

(* Rewording an artifact changes the base the lock names there.            *)
LEMMA RewordedBase ==
  ASSUME OneBaseEach, OnePathEach, NEW lock, IsLock(lock), NEW a \in DOMAIN lock.projection, NEW text \in Text
  PROVE  /\ DiffersAt(BaseTree(Reworded(lock, a, text).projection), BaseTree(lock.projection),
                      BaseOf[lock.projection[a].path], text)
         /\ Reworded(lock, a, text).sealed = lock.sealed
<1> DEFINE reworded == Reworded(lock, a, text)
           base == BaseTree(reworded.projection)
           u == BaseOf[lock.projection[a].path]
<1>1. IsLock(reworded) /\ PathsIn(reworded.projection) = PathsIn(lock.projection)
  BY RewordedLock DEF Reworded
<1>2. PICK m \in Model : \E slots \in SUBSET Sealable, texts \in [DOMAIN Renders[m] -> Text] :
        lock = [model |-> m,
                projection |-> [v \in DOMAIN Renders[m] |-> [path |-> Renders[m][v].path, text |-> texts[v]]],
                sealed |-> LockOf(m, slots).sealed]
  BY DEF IsLock
<1>3. /\ reworded.sealed = lock.sealed
      /\ reworded.projection = [lock.projection EXCEPT ![a].text = text]
  BY <1>2 DEF Reworded
<1>4. /\ DOMAIN reworded.projection = DOMAIN lock.projection
      /\ reworded.projection[a].text = text
      /\ \A v \in DOMAIN lock.projection : reworded.projection[v].path = lock.projection[v].path
      /\ \A v \in DOMAIN lock.projection \ {a} : reworded.projection[v].text = lock.projection[v].text
  BY <1>2, <1>3 DEF Reworded
<1> HIDE DEF reworded
<1>5. DOMAIN base = DOMAIN BaseTree(lock.projection)
  BY <1>1 DEF BaseTree
<1>6. \A v \in DOMAIN lock.projection :
        /\ base[BaseOf[lock.projection[v].path]] = reworded.projection[v].text
        /\ BaseTree(lock.projection)[BaseOf[lock.projection[v].path]] = lock.projection[v].text
  BY <1>1, <1>4, BaseEntry
<1>7. ASSUME NEW w \in DOMAIN base \ {u} PROVE base[w] = BaseTree(lock.projection)[w]
  <2>1. PICK v \in DOMAIN lock.projection : w = BaseOf[lock.projection[v].path]
    BY <1>5, <1>7 DEF BaseTree, PathsIn
  <2> HIDE DEF base
  <2>2. v # a
    BY <1>7, <2>1
  <2> QED
    BY <1>4, <1>6, <2>1, <2>2
<1> QED
  BY <1>3, <1>4, <1>5, <1>6, <1>7 DEF reworded, DiffersAt

(* What the formatter writes when it advances a file.                      *)
LEMMA AdvanceBaseWrites ==
  ASSUME OneBaseEach, OnePathEach, IInv, Readable(disk), Advancing, NEW w \in DOMAIN BaseOf, AdvanceBase(w)
  PROVE  /\ BaseOf[w] \in BasePaths /\ disk'[BaseOf[w]] = disk[w]
         /\ \A v \in Path \ {BaseOf[w]} : disk'[v] = disk[v]
         /\ advance' = [todo |-> advance'.todo, lock |-> advance'.lock, changed |-> TRUE]
         /\ advance'.lock.sealed = advance.lock.sealed
         /\ DiffersAt(BaseTree(advance'.lock.projection), BaseTree(advance.lock.projection), BaseOf[w], disk[w])
<1> DEFINE lock == advance.lock
           a == Artifact(lock, w)
           reworded == Reworded(lock, a, disk[w])
<1>1. /\ advance = [todo |-> advance.todo, lock |-> lock, changed |-> advance.changed]
      /\ IsLock(lock) /\ advance.todo \subseteq PathsIn(lock.projection) /\ w \in advance.todo
  BY DEF AdvanceBase, Advancing
<1>2. disk[w] \in Text /\ w \in Path
  BY PathsAssumption DEF AdvanceBase, Readable
<1>3. a \in DOMAIN lock.projection /\ lock.projection[a].path = w
  <2>1. \E v \in DOMAIN lock.projection : lock.projection[v].path = w
    BY <1>1 DEF PathsIn
  <2> QED
    BY <2>1 DEF Artifact
<1>4. advance' = [advance EXCEPT !.todo = @ \ {w}, !.changed = TRUE, !.lock = reworded]
  BY DEF AdvanceBase, Reworded
<1>5. advance' = [todo |-> advance.todo \ {w}, lock |-> reworded, changed |-> TRUE]
  <2> HIDE DEF reworded, lock
  <2> QED
    BY <1>1, <1>4
<1>6. /\ DiffersAt(BaseTree(reworded.projection), BaseTree(lock.projection), BaseOf[w], disk[w])
      /\ reworded.sealed = lock.sealed
  <2> HIDE DEF a, lock
  <2> QED
    BY <1>1, <1>2, <1>3, RewordedBase
<1>7. disk' = [disk EXCEPT ![BaseOf[w]] = disk[w]] /\ disk = [v \in Path |-> disk[v]]
  BY DEF AdvanceBase, Write, IInv, Typed, Tree
<1>8. BaseOf[w] \in BasePaths /\ BaseOf[w] \in Path
  BY PathsAssumption DEF BasePaths
<1> HIDE DEF reworded
<1> QED
  BY <1>5, <1>6, <1>7, <1>8

(* While the formatter is at it nobody else is, and it keeps the seals.    *)
LEMMA SolitaryStep ==
  ASSUME OneBaseEach, OnePathEach, UInv, Solitary, OnItsOwn, (\E p \in Proc : Handed(p) \/ RunsOn(p)) \/ Aside \/ Advances
  PROVE  Solitary'
<1>1. IInv /\ Readable(disk) /\ Advancing
  BY DEF UInv, Undoing
<1> SUFFICES ASSUME advance' # None
             PROVE  disk'[LockFile] # Absent /\ advance'.lock.sealed = Sealed(disk')
  BY DEF Solitary, OnItsOwn, Waits
<1> DEFINE Goal == disk'[LockFile] # Absent /\ advance'.lock.sealed = Sealed(disk')
<1>2. disk'[LockFile] = disk[LockFile] => Sealed(disk') = Sealed(disk)
  BY DEF Sealed
<1>3. LockFile \in Own /\ LockFile \in Path
  BY OwnIsApart
<1>4. ASSUME NEW p \in Proc, Handed(p) PROVE FALSE
  <2>1. pc'[p] = "waiting"
    BY <1>1, <1>4, HandedMoves
  <2> QED
    BY <2>1 DEF OnItsOwn, Over
<1>5. ASSUME NEW p \in Proc, RunsOn(p) PROVE FALSE
  BY <1>1, <1>5, NoneRunsOn
<1>6. CASE Aside
  <2>1. disk'[LockFile] = disk[LockFile]
    BY <1>3, <1>6 DEF Aside
  <2>2. CASE advance # None /\ advance'.lock = advance.lock
    BY <1>2, <2>1, <2>2 DEF Solitary
  <2>3. CASE advance' = Started /\ disk[LockFile] # Absent
    <3>1. advance'.lock = disk[LockFile]
      BY <2>3 DEF Started
    <3>2. Sealed(disk) = disk[LockFile].sealed
      BY <2>3 DEF Sealed
    <3> QED
      BY <1>2, <2>1, <2>3, <3>1, <3>2
  <2> QED
    BY <1>6, <2>2, <2>3 DEF Aside
<1>7. ASSUME NEW w \in DOMAIN BaseOf, AdvanceBase(w) PROVE Goal
  <2>1. BaseOf[w] # LockFile
    BY OwnIsApart DEF BasePaths
  <2>2. disk'[LockFile] = disk[LockFile] /\ advance'.lock.sealed = advance.lock.sealed
    BY <1>1, <1>3, <1>7, <2>1, AdvanceBaseWrites
  <2> QED
    BY <1>2, <1>7, <2>2 DEF Solitary, AdvanceBase
<1>8. ~AdvanceLock
  BY DEF AdvanceLock
<1> QED
  BY <1>4, <1>5, <1>6, <1>7, <1>8 DEF Advances

(* What the lock seals is there, and no migration is taken for a source.   *)
LEMMA PristineStep ==
  ASSUME LocksAreImages, MigrationsAreNoText, OneBaseEach, OnePathEach, UInv, Pristine(disk),
         Provenance, Apart, Solitary, (\E p \in Proc : Handed(p) \/ RunsOn(p)) \/ Aside \/ Advances
  PROVE  Pristine(disk')
<1>1. IInv /\ Readable(disk) /\ Advancing /\ SealedThere(disk)
  BY DEF UInv, Undoing, Pristine
<1>2. /\ LockFile \in Own /\ MigrationPaths \subseteq Own /\ BasePaths \subseteq Own /\ Own \subseteq Path
      /\ BasePaths \cap MigrationPaths = {} /\ LockFile \notin BasePaths /\ LockFile \notin MigrationPaths
      /\ \A w \in DOMAIN Sealed(disk) : w \in MigrationPaths
  BY <1>1, OwnIsApart, SealedMigrations
<1>3. ASSUME \A w \in Own : disk'[w] = disk[w] PROVE Pristine(disk')
  <2>1. SealedThere(disk')
    BY <1>1, <1>2, <1>3, SealedStays
  <2> QED
    BY <1>2, <1>3, <2>1 DEF Pristine, NoSources
<1>4. ASSUME NEW p \in Proc, Handed(p) PROVE Pristine(disk')
  BY <1>1, <1>3, <1>4, HandedMoves
<1>5. ASSUME NEW p \in Proc, RunsOn(p) PROVE Pristine(disk')
  <2>1. OpenNext /\ edits' = edits
    BY <1>1, <1>5, RunsKeepPlans DEF RunsOn, OpenNext, OpenStep
  <2>2. CASE \A w \in Own : disk'[w] = disk[w]
    BY <1>3, <2>2
  <2>3. ASSUME NEW u \in Own, disk'[u] # disk[u] PROVE Pristine(disk')
    <3>1. PICK q \in Proc : holder = q /\ ((aim[q] = u /\ Persist(q)) \/ RemoveRetired(q, u))
      BY <1>1, <1>2, <2>1, <2>3, WhoWrites DEF IInv
    <3>2. (\A v \in Path \ {u} : disk'[v] = disk[v]) /\ pc[q] = "publishing"
      BY <1>1, <1>2, <2>3, <3>1, RunWrites
    <3>3. foreign[q] \cap Own = {} /\ (Ahead(job[q]) \/ Backward(job[q]))
      BY <3>2 DEF Apart, Provenance, Admission
    <3>4. SealedThere(disk') /\ (u \in MigrationPaths => disk'[u] \notin Text)
      <4>1. CASE Ahead(job[q])
        <5>1. SealedThere(disk') /\ (u \in MigrationPaths => \E slot \in DOMAIN Slot : disk'[u] = slot[2])
          BY <1>1, <2>1, <2>3, <3>1, <3>3, <4>1, PlanSeals
        <5> QED
          BY <5>1 DEF MigrationsAreNoText
      <4>2. CASE Backward(job[q])
        <5>1. PICK k : Revocable(k) /\ job[q] = InverseBundle(k)
          BY <4>2 DEF Backward
        <5>2. SealedThere(disk') /\ (u \in MigrationPaths => disk'[u] = Absent)
          BY <1>1, <2>3, <3>1, <3>3, <5>1, InverseSeals
        <5> QED
          BY <5>2, ImagesAssumption, AbsentAssumption
      <4> QED
        BY <3>3, <4>1, <4>2
    <3> QED
      BY <1>2, <3>2, <3>4 DEF Pristine, NoSources
  <2> QED
    BY <2>2, <2>3
<1>6. CASE Aside
  BY <1>3, <1>6 DEF Aside
<1>7. ASSUME NEW w \in DOMAIN BaseOf, AdvanceBase(w) PROVE Pristine(disk')
  <2>1. BaseOf[w] \in BasePaths /\ \A v \in Path \ {BaseOf[w]} : disk'[v] = disk[v]
    BY <1>1, <1>7, AdvanceBaseWrites
  <2>2. disk'[LockFile] = disk[LockFile] /\ \A v \in MigrationPaths : disk'[v] = disk[v]
    BY <1>2, <2>1
  <2>3. SealedThere(disk')
    BY <1>1, <1>2, <2>2, SealedStays
  <2> QED
    BY <2>2, <2>3 DEF Pristine, NoSources
<1>8. CASE AdvanceLock
  <2>1. \A v \in Path \ {LockFile} : disk'[v] = disk[v]
    BY <1>1, <1>8 DEF AdvanceLock, Write, IInv, Typed, Tree
  <2>2. Sealed(disk') = Sealed(disk)
    <3>1. CASE disk'[LockFile] = disk[LockFile]
      BY <3>1 DEF Sealed
    <3>2. CASE disk'[LockFile] # disk[LockFile]
      <4>1. disk'[LockFile] = advance.lock /\ IsLock(advance.lock)
        BY <1>1, <1>2, <1>8, <3>2 DEF AdvanceLock, Write, Advancing, IInv, Typed, Tree
      <4>2. advance.lock # Absent
        BY <4>1, AbsentAssumption DEF LocksAreImages
      <4>3. Sealed(disk') = advance.lock.sealed
        BY <4>1, <4>2 DEF Sealed
      <4> QED
        BY <1>8, <4>3 DEF Solitary, AdvanceLock
    <3> QED
      BY <3>1, <3>2
  <2>3. \A v \in MigrationPaths : disk'[v] = disk[v]
    BY <1>2, <2>1
  <2>4. SealedThere(disk')
    BY <1>1, <1>2, <2>2, <2>3 DEF SealedThere
  <2> QED
    BY <2>3, <2>4 DEF Pristine, NoSources
<1> QED
  BY <1>4, <1>5, <1>6, <1>7, <1>8 DEF Advances

-----------------------------------------------------------------------------
(* A run at work was admitted to an orderly project, and has so far put    *)
(* down what its plan leaves.                                              *)
Partway(now, b) ==
  \E tree \in Tree :
    /\ Readable(tree) /\ Orderly(tree) /\ FilesAdmitted(tree, b)
    /\ \A w \in Own : now[w] = tree[w] \/ (w \in TouchedPaths(b) /\ now[w] = Desired(b, w))

(* The lock the formatter holds in memory is the one the merge base is     *)
(* going by, and the one on disk until a file is advanced.                 *)
InStep(now, held) ==
  /\ held.changed \/ now[LockFile] = held.lock
  /\ \A w \in DOMAIN BaseTree(held.lock.projection) : now[w] = BaseTree(held.lock.projection)[w]
  /\ AllSealed(now)

(* With nothing cut short, a project nobody is at work on is orderly.      *)
Calm ==
  faults = 0 =>
    /\ advance = None /\ (\A p \in Proc : ~Working(p)) => Orderly(disk)
    /\ \A p \in Proc : Working(p) => Partway(disk, job[p])
    /\ advance # None => InStep(disk, advance)

(* Migrations and lock as they were: as much of it is sealed.              *)
LEMMA SealedAlike ==
  ASSUME NEW now, AllSealed(now), NEW later, Sealed(later) = Sealed(now), \A w \in MigrationPaths : later[w] = now[w]
  PROVE  AllSealed(later)
<1>1. Taken(later) = Taken(now)
  BY OwnIsApart DEF Taken
<1> QED
  BY <1>1 DEF AllSealed

(* A step that leaves jails' own files alone keeps the formatter in step.  *)
LEMMA InStepOnOwn ==
  ASSUME NEW now, NEW later, \A w \in Own : later[w] = now[w],
         NEW held, NEW next, IsLock(held.lock), InStep(now, held), next.lock = held.lock, next.changed = held.changed
  PROVE  InStep(later, next)
<1>1. IsProjection(held.lock.projection)
  BY RendersAssumption DEF IsLock, IsProjection
<1>2. \A w \in DOMAIN BaseTree(held.lock.projection) : w \in Own
  BY <1>1, BaseTyped, OwnIsApart DEF PartialFunction
<1>3. later[LockFile] = now[LockFile] /\ \A w \in MigrationPaths : later[w] = now[w]
  BY OwnIsApart
<1>4. Sealed(later) = Sealed(now)
  BY <1>3 DEF Sealed
<1>5. AllSealed(later)
  BY <1>3, <1>4, SealedAlike DEF InStep
<1> QED
  BY <1>2, <1>3, <1>5 DEF InStep

(* What a step of a run changes of jails' own files, the run at work does, *)
(* by its plan.                                                            *)
LEMMA RunWritesOwn ==
  ASSUME IInv, NEW p \in Proc, RunsOn(p), NEW u \in Own, disk'[u] # disk[u]
  PROVE  \E q \in Proc : Working(q) /\ holder = q /\ u \in TouchedPaths(job[q]) /\ disk'[u] = Desired(job[q], u)
<1>1. OpenNext /\ edits' = edits
  BY RunsKeepPlans DEF RunsOn, OpenNext, OpenStep
<1>2. PICK q \in Proc : holder = q /\ ((aim[q] = u /\ Persist(q)) \/ RemoveRetired(q, u))
  BY <1>1, OwnIsApart, WhoWrites DEF IInv
<1>3. disk'[u] = Desired(job[q], u) /\ u \in TouchedPaths(job[q]) /\ pc[q] = "publishing"
  BY <1>2, OwnIsApart, RunWrites
<1> QED
  BY <1>2, <1>3 DEF Working

(* A run that comes to the end of its operations leaves an orderly project.*)
LEMMA OrderlyWhenFinished ==
  ASSUME IInv, Provenance, Apart, NEW q \in Proc, FinishOperations(q), Partway(disk, job[q])
  PROVE  Orderly(disk)
<1>1. pc[q] = "publishing" /\ at[q] > 0 /\ foreign[q] \cap Own = {} /\ (Ahead(job[q]) \/ Backward(job[q]))
  BY DEF FinishOperations, Apart, Provenance, Admission
<1>2. PICK tree \in Tree :
        /\ Readable(tree) /\ Orderly(tree) /\ FilesAdmitted(tree, job[q])
        /\ \A w \in Own : disk[w] = tree[w] \/ (w \in TouchedPaths(job[q]) /\ disk[w] = Desired(job[q], w))
  BY DEF Partway
<1>3. \A w \in Own : disk[w] = IF w \in TouchedPaths(job[q]) THEN Desired(job[q], w) ELSE tree[w]
  <2>1. \A w \in Own : w \in TouchedPaths(job[q]) => disk[w] = Desired(job[q], w)
    BY <1>1, OwnIsApart, TouchedWhenFinished
  <2> QED
    BY <1>2, <2>1
<1>4. Settles(job[q])
  BY <1>1, PlansSettle, InversesSettle DEF Backward
<1> QED
  BY <1>2, <1>3, <1>4 DEF Settles

(* Calm, as a run takes a step.                                            *)
LEMMA CalmRuns ==
  ASSUME UInv, Provenance, Apart, Calm, faults = 0, faults' = 0, advance = None, NEW p \in Proc, RunsOn(p)
  PROVE  /\ (\A q \in Proc : ~Working(q)') => Orderly(disk')
         /\ \A q \in Proc : Working(q)' => Partway(disk', job'[q])
<1>1. IInv /\ Readable(disk) /\ OneWriter /\ disk \in Tree
  BY DEF UInv, Undoing, IInv, Typed
<1>2. job' = job
  BY <1>1, RunsKeepPlans DEF RunsOn
<1>3. \A q \in Proc : /\ Working(q) /\ ~Working(q)' => FinishOperations(q)
                      /\ ~Working(q) /\ Working(q)' => Admit(q)
  BY <1>1, RunMoves DEF RunsOn, Working
<1>4. \A q \in Proc : Working(q) => Partway(disk, job[q])
  BY DEF Calm
<1>5. ASSUME NEW q \in Proc, Working(q), Working(q)' PROVE Partway(disk', job'[q])
  <2>1. PICK tree \in Tree :
          /\ Readable(tree) /\ Orderly(tree) /\ FilesAdmitted(tree, job[q])
          /\ \A w \in Own : disk[w] = tree[w] \/ (w \in TouchedPaths(job[q]) /\ disk[w] = Desired(job[q], w))
    BY <1>4, <1>5 DEF Partway
  <2>2. ASSUME NEW u \in Own, disk'[u] # disk[u]
        PROVE  u \in TouchedPaths(job[q]) /\ disk'[u] = Desired(job[q], u)
    <3>1. PICK r \in Proc : Working(r) /\ holder = r /\ u \in TouchedPaths(job[r]) /\ disk'[u] = Desired(job[r], u)
      BY <1>1, <2>2, RunWritesOwn
    <3>2. r = q
      BY <1>1, <1>5, <3>1, OneAtWork
    <3> QED
      BY <3>1, <3>2
  <2> QED
    BY <1>2, <2>1, <2>2 DEF Partway
<1>6. ASSUME NEW q \in Proc, ~Working(q), Working(q)' PROVE Partway(disk', job'[q])
  <2>1. pc[q] = "checking" /\ Admitted(disk, debris, job[q]) /\ disk' = disk
    BY <1>3, <1>6 DEF Admit, files
  <2>2. holder = q
    BY <1>1, <2>1 DEF OneWriter, Holding
  <2>3. \A r \in Proc : ~Working(r)
    BY <1>1, <1>6, <2>2, OneAtWork
  <2>4. Orderly(disk)
    BY <2>3 DEF Calm
  <2>5. FilesAdmitted(disk, job[q])
    BY <2>1 DEF Admitted
  <2> QED
    BY <1>1, <1>2, <2>1, <2>4, <2>5 DEF Partway
<1>7. ASSUME \A q \in Proc : ~Working(q)' PROVE Orderly(disk')
  <2>1. CASE \E q \in Proc : Working(q)
    <3>1. PICK q \in Proc : Working(q)
      BY <2>1
    <3>2. FinishOperations(q) /\ Partway(disk, job[q])
      BY <1>3, <1>4, <1>7, <3>1
    <3>3. disk' = disk
      BY <3>2 DEF FinishOperations, files
    <3> QED
      BY <1>1, <3>2, <3>3, OrderlyWhenFinished
  <2>2. CASE \A q \in Proc : ~Working(q)
    <3>1. \A w \in Own : disk'[w] = disk[w]
      BY <1>1, <2>2, RunWritesOwn
    <3>2. Orderly(disk)
      BY <2>2 DEF Calm
    <3> QED
      BY <1>1, <3>1, <3>2, OrderlyOnOwn
  <2> QED
    BY <2>1, <2>2
<1> QED
  BY <1>5, <1>6, <1>7

(* Calm, as the formatter advances a file ...                              *)
LEMMA CalmAdvances ==
  ASSUME OneBaseEach, OnePathEach, IInv, Readable(disk), Advancing, NEW w \in DOMAIN BaseOf, AdvanceBase(w),
         InStep(disk, advance)
  PROVE  InStep(disk', advance')
<1>1. /\ BaseOf[w] \in BasePaths /\ disk'[BaseOf[w]] = disk[w]
      /\ \A v \in Path \ {BaseOf[w]} : disk'[v] = disk[v]
      /\ advance' = [todo |-> advance'.todo, lock |-> advance'.lock, changed |-> TRUE]
      /\ DiffersAt(BaseTree(advance'.lock.projection), BaseTree(advance.lock.projection), BaseOf[w], disk[w])
  BY AdvanceBaseWrites
<1>2. IsLock(advance.lock)
  BY DEF AdvanceBase, Advancing
<1>3. IsProjection(advance.lock.projection)
  BY <1>2, RendersAssumption DEF IsLock, IsProjection
<1>4. \A v \in DOMAIN BaseTree(advance.lock.projection) : v \in Path
  BY <1>3, BaseTyped, OwnIsApart DEF PartialFunction
<1>5. advance'.changed = TRUE
  BY <1>1
<1>6. \A v \in DOMAIN BaseTree(advance'.lock.projection) : disk'[v] = BaseTree(advance'.lock.projection)[v]
  BY <1>1, <1>4 DEF DiffersAt, InStep
<1>7. disk'[LockFile] = disk[LockFile] /\ \A v \in MigrationPaths : disk'[v] = disk[v]
  BY <1>1, OwnIsApart
<1>8. Sealed(disk') = Sealed(disk)
  BY <1>7 DEF Sealed
<1>9. AllSealed(disk')
  BY <1>7, <1>8, SealedAlike DEF InStep
<1> QED
  BY <1>5, <1>6, <1>9 DEF InStep

(* ... and as it writes the lock.                                          *)
LEMMA CalmLocks ==
  ASSUME LocksAreImages, IInv, Advancing, Solitary, AdvanceLock, InStep(disk, advance)
  PROVE  Orderly(disk')
<1> DEFINE lock == advance.lock
<1>1. advance # None /\ IsLock(lock) /\ lock # Absent /\ lock.sealed = Sealed(disk)
  BY AbsentAssumption DEF AdvanceLock, Advancing, Solitary, LocksAreImages
<1>2. disk'[LockFile] = lock /\ \A v \in Path \ {LockFile} : disk'[v] = disk[v]
  BY OwnIsApart DEF AdvanceLock, Write, InStep, IInv, Typed, Tree
<1> HIDE DEF lock
<1>3. AcceptedProjection(disk') = lock.projection /\ Sealed(disk') = Sealed(disk)
  BY <1>1, <1>2 DEF AcceptedProjection, Sealed
<1>4. IsProjection(lock.projection)
  BY <1>1, RendersAssumption DEF IsLock, IsProjection
<1>5. \A v \in DOMAIN BaseTree(lock.projection) : v \in Path /\ v # LockFile
  BY <1>4, BaseTyped, OwnIsApart DEF PartialFunction
<1>6. BaseIntact(disk')
  BY <1>2, <1>3, <1>5 DEF BaseIntact, InStep, lock
<1>7. \A v \in MigrationPaths : disk'[v] = disk[v]
  BY <1>2, OwnIsApart
<1>8. AllSealed(disk')
  BY <1>3, <1>7, SealedAlike DEF InStep
<1> QED
  BY <1>6, <1>8 DEF Orderly

(* Calm, whoever takes a step.                                             *)
LEMMA CalmStep ==
  ASSUME LocksAreImages, NoneIsNoRecord, OneBaseEach, OnePathEach, UInv, Provenance, Apart, Solitary, Calm, OnItsOwn,
         (\E p \in Proc : Handed(p) \/ RunsOn(p)) \/ Aside \/ Advances
  PROVE  Calm'
<1>1. /\ IInv /\ Readable(disk) /\ Advancing /\ faults \in Nat /\ disk \in Tree
      /\ pc \in [Proc -> {"idle", "waiting"} \cup Holding \cup Over]
  BY BoundsAssumption DEF UInv, Undoing, IInv, Typed
<1>2. \A q \in Proc : pc[q] \in {"idle"} \cup Over => ~Working(q)
  BY DEF Over, Working
<1> SUFFICES ASSUME faults' = 0
             PROVE  /\ advance' = None /\ (\A q \in Proc : ~Working(q)') => Orderly(disk')
                    /\ \A q \in Proc : Working(q)' => Partway(disk', job'[q])
                    /\ advance' # None => InStep(disk', advance')
  BY DEF Calm
<1> DEFINE Goal == /\ advance' = None /\ (\A q \in Proc : ~Working(q)') => Orderly(disk')
                   /\ \A q \in Proc : Working(q)' => Partway(disk', job'[q])
                   /\ advance' # None => InStep(disk', advance')
<1>3. ASSUME NEW p \in Proc, Handed(p) PROVE Goal
  <2>1. /\ disk' = disk /\ faults' = faults /\ advance' = advance
        /\ pc[p] \in {"idle"} \cup Over /\ pc'[p] = "waiting"
        /\ \A q \in Proc \ {p} : pc'[q] = pc[q] /\ job'[q] = job[q]
    BY <1>1, <1>3, HandedMoves
  <2>2. ~Working(p) /\ ~Working(p)' /\ \A q \in Proc \ {p} : Working(q)' = Working(q)
    BY <1>2, <2>1 DEF Working
  <2> QED
    BY <2>1, <2>2 DEF Calm
<1>4. ASSUME NEW p \in Proc, RunsOn(p) PROVE Goal
  <2>1. advance = None /\ advance' = None
    BY <1>1, <1>4, NoneRunsOn
  <2>2. faults = 0
    BY <1>1, <1>4, RunMoves DEF RunsOn
  <2> QED
    BY <1>4, <2>1, <2>2, CalmRuns
<1>5. CASE Aside
  <2>1. /\ pc' = pc /\ job' = job
        /\ \A w \in Own : disk'[w] = disk[w]
    BY <1>5 DEF Aside
  <2>2. faults = 0
    BY <1>1, <1>5 DEF Aside
  <2>3. \A q \in Proc : Working(q)' = Working(q)
    BY <2>1 DEF Working
  <2>4. \A q \in Proc : Working(q)' => Partway(disk', job'[q])
    BY <2>1, <2>2, <2>3 DEF Calm, Partway
  <2>5. ASSUME advance = None, \A q \in Proc : ~Working(q)' PROVE Orderly(disk) /\ Orderly(disk')
    <3>1. Orderly(disk)
      BY <2>2, <2>3, <2>5 DEF Calm
    <3> QED
      BY <1>1, <2>1, <3>1, OrderlyOnOwn
  <2>6. ASSUME advance' = None, \A q \in Proc : ~Working(q)' PROVE Orderly(disk')
    <3>1. advance = None
      BY <1>1, <1>5, <2>2, <2>6 DEF Aside
    <3> QED
      BY <2>5, <2>6, <3>1
  <2>7. ASSUME advance' # None PROVE InStep(disk', advance')
    <3>1. CASE advance # None /\ advance'.lock = advance.lock /\ advance'.changed = advance.changed
      <4>1. InStep(disk, advance) /\ IsLock(advance.lock)
        BY <1>1, <2>2, <3>1 DEF Calm, Advancing
      <4> QED
        BY <2>1, <3>1, <4>1, InStepOnOwn
    <3>2. CASE advance = None /\ advance' = Started /\ disk[LockFile] # Absent /\ BaseIntact(disk)
      <4>1. \A q \in Proc : ~Working(q)'
        BY <1>2, <2>1, <2>3, <2>7 DEF OnItsOwn
      <4>2. Orderly(disk)
        BY <2>5, <3>2, <4>1
      <4>3. Started.lock = disk[LockFile] /\ AcceptedProjection(disk) = disk[LockFile].projection
        BY <3>2 DEF Started, AcceptedProjection
      <4>4. InStep(disk, Started)
        BY <3>2, <4>2, <4>3 DEF InStep, Orderly, BaseIntact
      <4>5. IsLock(Started.lock)
        BY <1>1, <3>2, <4>3 DEF Readable
      <4>6. advance'.lock = Started.lock /\ advance'.changed = Started.changed
        BY <3>2
      <4> QED
        BY <2>1, <4>4, <4>5, <4>6, InStepOnOwn
    <3> QED
      BY <1>5, <2>7, <3>1, <3>2 DEF Aside
  <2> QED
    BY <2>4, <2>6, <2>7
<1>6. CASE Advances
  <2>1. UNCHANGED <<pc, job, faults>> /\ advance # None
    BY <1>6, AdvancesLeave
  <2>2. \A q \in Proc : ~Working(q)'
    BY <1>2, <2>1 DEF Solitary, Waits, Working
  <2>3. InStep(disk, advance)
    BY <2>1 DEF Calm
  <2>4. ASSUME NEW w \in DOMAIN BaseOf, AdvanceBase(w) PROVE Goal
    <3>1. advance' = [todo |-> advance'.todo, lock |-> advance'.lock, changed |-> TRUE]
      BY <1>1, <2>4, AdvanceBaseWrites
    <3>2. advance' # None
      BY <3>1 DEF NoneIsNoRecord
    <3>3. InStep(disk', advance')
      BY <1>1, <2>3, <2>4, CalmAdvances
    <3> QED
      BY <2>2, <3>2, <3>3
  <2>5. CASE AdvanceLock
    <3>1. Orderly(disk') /\ advance' = None
      BY <1>1, <2>3, <2>5, CalmLocks DEF AdvanceLock
    <3> QED
      BY <2>2, <3>1
  <2> QED
    BY <1>6, <2>4, <2>5 DEF Advances
<1> QED
  BY <1>3, <1>4, <1>5, <1>6

-----------------------------------------------------------------------------
(* The inductive invariant of a project on which formatting runs on its    *)
(* own.                                                                    *)
Alone == UInv /\ Pristine(disk) /\ Provenance /\ Apart /\ Solitary /\ Calm

(* A project that starts orderly starts so.                                *)
LEMMA AloneInitially ==
  ASSUME UInit, UInv, BaseAgrees, PublishedIsSealed, NoSources(disk)
  PROVE  Alone
<1>1. /\ Init /\ Sound(disk) /\ kept = None /\ advance = None
      /\ \A p \in Proc : pc[p] = "idle"
  BY DEF UInit, FInit, PInit, Init
<1>2. Readable(disk)
  BY DEF UInv, Undoing
<1>3. Quiet
  BY <1>1 DEF Quiet, Undisturbed, Applying, Admission, Init
<1>4. BaseIntact(disk) /\ AllSealed(disk)
  BY <1>3 DEF BaseAgrees, PublishedIsSealed, AllSealed
<1>5. SealedThere(disk)
  BY <1>1 DEF Sound, Intact, SealedThere
<1>6. Pristine(disk)
  BY <1>5 DEF Pristine
<1>7. Provenance /\ Apart /\ Solitary
  BY <1>1 DEF Provenance, Apart, Solitary, Admission
<1>8. Calm
  BY <1>1, <1>4 DEF Calm, Working, Orderly
<1> QED
  BY <1>6, <1>7, <1>8 DEF Alone

(* Every step keeps the invariant ...                                      *)
LEMMA AloneStep ==
  ASSUME LocksAreImages, MigrationsAreNoText, NoneIsNoRecord, EditorPaths \cap Own = {}, OneBaseEach, OnePathEach,
         Alone, UNext /\ OnItsOwn
  PROVE  Alone'
<1>1. UInv'
  BY UndoingStep, Inductive, MeddlingKeeps, FinishedStep DEF Alone, UInv
<1>2. (\E p \in Proc : Handed(p) \/ RunsOn(p)) \/ Aside \/ Advances
  BY Turns DEF Alone
<1>3. Pristine(disk)'
  BY <1>2, PristineStep DEF Alone, Pristine, NoSources, SealedThere, Sealed
<1>4. Provenance'
  BY <1>2, ProvenanceStep DEF Alone
<1>5. Apart'
  BY <1>2, ApartStep DEF Alone, UInv
<1>6. Solitary'
  BY <1>2, SolitaryStep DEF Alone
<1>7. Calm'
  BY <1>2, CalmStep DEF Alone
<1> QED
  BY <1>1, <1>3, <1>4, <1>5, <1>6, <1>7 DEF Alone

(* ... and stuttering keeps it.                                            *)
LEMMA AloneStutters ==
  ASSUME LocksAreImages, Alone, UNCHANGED uvars
  PROVE  Alone'
<1>1. UNCHANGED <<disk, pc, job, at, foreign, faults, advance, kept, tail>>
  BY DEF uvars, fvars
<1>2. UInv'
  BY UndoingStep, Inductive, MeddlingKeeps, FinishedStep DEF Alone, UInv
<1> QED
  BY <1>1, <1>2 DEF Alone, Pristine, NoSources, SealedThere, Sealed, Provenance, Apart, Solitary, Waits, Calm, Working

(* The invariant holds of every reachable state.                           *)
LEMMA AloneInvariant ==
  ASSUME LocksAreImages, MigrationsAreNoText, NoneIsNoRecord, EditorPaths \cap Own = {}, OneBaseEach, OnePathEach
  PROVE  AloneSpec /\ BaseAgrees /\ PublishedIsSealed /\ NoSources(disk) => []Alone
<1>1. UInit /\ BaseAgrees /\ PublishedIsSealed /\ NoSources(disk) => Alone
  BY UndoInitially, AloneInitially
<1>2. Alone /\ [UNext /\ OnItsOwn]_uvars => Alone'
  BY AloneStep, AloneStutters
<1> QED
  BY <1>1, <1>2, PTL DEF AloneSpec

(* Quiet, such a project is orderly.                                       *)
LEMMA QuietIsOrderly ==
  ASSUME Alone, Quiet
  PROVE  Orderly(disk)
<1>1. faults = 0 /\ advance = None /\ \A p \in Proc : ~Working(p)
  BY DEF Quiet, Undisturbed, Applying, Admission, Working
<1> QED
  BY <1>1 DEF Alone, Calm

(* Between commands, with nothing cut short, the merge base is what the    *)
(* lock accepted, for every project that starts so and in whatever order   *)
(* commands, undo and formatting follow each other, as long as formatting  *)
(* runs on its own.                                                        *)
THEOREM BaseStaysAgreed ==
  ASSUME LocksAreImages, MigrationsAreNoText, NoneIsNoRecord, EditorPaths \cap Own = {}, OneBaseEach, OnePathEach
  PROVE  AloneSpec /\ BaseAgrees /\ PublishedIsSealed /\ NoSources(disk) => []BaseAgrees
<1>1. Alone => BaseAgrees
  BY QuietIsOrderly DEF BaseAgrees, Orderly
<1> QED
  BY <1>1, AloneInvariant, PTL

(* And of the migrations that are there, the lock seals those that jails   *)
(* derived, as they are, and none that the reader asked for.               *)
THEOREM PublishedStaysSealed ==
  ASSUME LocksAreImages, MigrationsAreNoText, NoneIsNoRecord, EditorPaths \cap Own = {}, OneBaseEach, OnePathEach
  PROVE  AloneSpec /\ BaseAgrees /\ PublishedIsSealed /\ NoSources(disk) => []PublishedIsSealed
<1>1. Alone => PublishedIsSealed
  <2> SUFFICES ASSUME Alone, Quiet, NEW slot \in Taken(disk)
               PROVE  IF slot \in Sealable
                        THEN Slot[slot] \in DOMAIN Sealed(disk) /\ Sealed(disk)[Slot[slot]] = slot[2]
                        ELSE Slot[slot] \notin DOMAIN Sealed(disk)
    BY DEF PublishedIsSealed
  <2>1. CASE slot \in Sealable
    BY <2>1, QuietIsOrderly DEF Orderly, AllSealed
  <2>2. CASE slot \notin Sealable
    <3>1. Readable(disk) /\ slot \in DOMAIN Slot
      BY DEF Alone, UInv, Undoing, Taken
    <3> QED
      BY <2>2, <3>1, AuthoredUnsealed
  <2> QED
    BY <2>1, <2>2
<1> QED
  BY <1>1, AloneInvariant, PTL
=============================================================================
