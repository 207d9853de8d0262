------------------------------ MODULE Planner -------------------------------
(***************************************************************************)
(* From a project tree to a plan: what a command captures, what the        *)
(* compiler derives from it and what `materialize` freezes into a bundle.  *)
(*                                                                         *)
(* The compiler itself is a function: a model renders texts at paths, and  *)
(* a step from one schema to the next derives migrations.  The lock holds  *)
(* the accepted model, the accepted projection and the migrations jails    *)
(* published whole; the merge base beside it holds the projection's texts, *)
(* of which the lock has the digests.                                      *)
(***************************************************************************)
EXTENDS PlanBundle

CONSTANTS
  Region, Word, Refused,  \* see Reconcile
  Model,        \* the application models the authoring source can declare
  Renders,      \* per model, artifact |-> [path, text]
  Ejects,       \* per model, the artifacts the reader has taken over
  Derives,      \* <<accepted model or Absent, next model>> |-> migrations, in order
  Authored,     \* the migrations a reader asks for by name, to be filled in by hand
  Schema,       \* model or Absent |-> the schema it declares
  ModelFile, LockFile,
  BaseOf,       \* managed path |-> its merge base path
  MigrationRoot,
  Slot          \* <<number, migration>> |-> path

INSTANCE Reconcile

BasePaths == {BaseOf[w] : w \in DOMAIN BaseOf}
MigrationPaths == {Slot[slot] : slot \in DOMAIN Slot}

(* Managed files, merge bases, migrations, the model and the lock are five *)
(* different kinds of file, and migrations have a directory of their own.  *)
ASSUME PathsAssumption ==
  /\ DOMAIN BaseOf \subseteq Path /\ BasePaths \subseteq Path /\ MigrationPaths \subseteq Path
  /\ ModelFile \in Path /\ LockFile \in Path /\ ModelFile # LockFile
  /\ DOMAIN BaseOf \cap BasePaths = {}
  /\ {ModelFile, LockFile} \cap (DOMAIN BaseOf \cup BasePaths) = {}
  /\ MigrationRoot \in Dir
  /\ \A w \in MigrationPaths : DirOf[w] = MigrationRoot
  /\ \A w \in DOMAIN BaseOf \cup BasePaths \cup {ModelFile, LockFile} : DirOf[w] # MigrationRoot

Number == {slot[1] : slot \in DOMAIN Slot}

(* A migration file is named for its number and what it does, and some     *)
(* migration of a project is the newest.                                   *)
ASSUME SlotAssumption ==
  /\ \A slot \in DOMAIN Slot : slot[1] \in Nat \ {0} /\ slot = <<slot[1], slot[2]>>
  /\ \A s, t \in DOMAIN Slot : Slot[s] = Slot[t] => s = t
  /\ \A some \in (SUBSET Number) \ {{}} : \E n \in some : \A k \in some : k <= n

(* What is rendered is managed, and what the reader has taken over is not  *)
(* rendered.                                                               *)
ASSUME RendersAssumption ==
  \A m \in Model :
    /\ DOMAIN Renders[m] \cap Ejects[m] = {}
    /\ Renders[m] \in [DOMAIN Renders[m] -> [path : DOMAIN BaseOf, text : Text]]

(* A model may be derived from itself, and then nothing is.                *)
ASSUME DerivesAssumption ==
  /\ \A m \in Model : <<m, m>> \in DOMAIN Derives
  /\ \A step \in DOMAIN Derives :
       /\ Derives[step] \in Seq(Image \ Authored)
       /\ step[1] = step[2] => Derives[step] = << >>

(* A migration is the schema it finds and the one it leaves, and what is   *)
(* derived leads from the accepted model's schema to the next one's.       *)
ASSUME SchemaAssumption ==
  \A step \in DOMAIN Derives :
    LET steps == Derives[step]
    IN /\ steps = << >> => Schema[step[1]] = Schema[step[2]]
       /\ steps # << >> => /\ steps[1].finds = Schema[step[1]]
                          /\ steps[Len(steps)].leaves = Schema[step[2]]
       /\ \A i \in DOMAIN steps : i > 1 => steps[i].finds = steps[i - 1].leaves

(* A command: the model the source must declare, the one it declares       *)
(* afterwards, and what the plan does about deletions and leftovers.  A    *)
(* command that edits no declaration (`sync`, `repair`) has to = from, and *)
(* so has `g migration`, the one that asks for an empty migration.         *)
IsCommand(cmd) ==
  /\ cmd.from \in Model \cup {Absent}
  /\ cmd.to \in Model
  /\ cmd.restore \in Restore
  /\ cmd.authored = << >> \/ (cmd.to = cmd.from /\ \E m \in Authored : cmd.authored = <<m>>)

-----------------------------------------------------------------------------
(* What the lock says.  No lock is a project with no managed file.         *)
Accepted(tree) == IF tree[LockFile] = Absent THEN Absent ELSE tree[LockFile].model
Sealed(tree) == IF tree[LockFile] = Absent THEN << >> ELSE tree[LockFile].sealed

(* The lock jails writes for a model, with these migrations sealed.        *)
LockOf(m, slots) ==
  [model |-> m, projection |-> Renders[m],
   sealed |-> [w \in {Slot[s] : s \in slots} |-> (CHOOSE s \in slots : Slot[s] = w)[2]]]

(* Only a migration jails derived is ever sealed: what a reader asked for  *)
(* is an empty file that the reader is to fill in.                         *)
Sealable == {slot \in DOMAIN Slot : slot[2] \notin Authored}

Locks == {LockOf(m, slots) : m \in Model, slots \in SUBSET Sealable}

ASSUME ImagesAssumption ==
  /\ Text \subseteq Image /\ Model \subseteq Image /\ Locks \subseteq Image
  /\ \A slot \in DOMAIN Slot : slot[2] \in Image
  /\ Refused \notin Image

AcceptedProjection(tree) == IF tree[LockFile] = Absent THEN << >> ELSE tree[LockFile].projection

PathsIn(projection) == {projection[a].path : a \in DOMAIN projection}

BaseTree(projection) ==
  [w \in {BaseOf[v] : v \in PathsIn(projection)} |->
     projection[CHOOSE a \in DOMAIN projection : BaseOf[projection[a].path] = w].text]

TextIn(projection, a) == IF a \in DOMAIN projection THEN projection[a].text ELSE Absent

(* The merge base the lock names is there, byte for byte.                  *)
BaseIntact(tree) ==
  LET base == BaseTree(AcceptedProjection(tree))
  IN \A w \in DOMAIN base : tree[w] = base[w]

(* The files a plan observes: the model and the lock, the whole merge      *)
(* base and migration directory, and every path either projection names.   *)
Observed(tree, next) ==
  LET named == PathsIn(AcceptedProjection(tree))
  IN {ModelFile, LockFile} \cup named \cup {BaseOf[w] : w \in named} \cup PathsIn(Renders[next])
       \cup {w \in Path : tree[w] # Absent /\ (w \in BasePaths \/ DirOf[w] = MigrationRoot)}

-----------------------------------------------------------------------------
(* reconcile::trees.                                                       *)
OldArtifacts(tree) == DOMAIN AcceptedProjection(tree)

(* OURS is looked for where the accepted projection put the artifact.      *)
LivePath(tree, next, a) ==
  IF a \in OldArtifacts(tree) THEN AcceptedProjection(tree)[a].path ELSE Renders[next][a].path

OutputPath(tree, next, a) ==
  IF a \in DOMAIN Renders[next] THEN Renders[next][a].path ELSE LivePath(tree, next, a)

Verdict(tree, cmd, a) ==
  Settled(TextIn(AcceptedProjection(tree), a),
          tree[LivePath(tree, cmd.to, a)],
          TextIn(Renders[cmd.to], a),
          a \in OldArtifacts(tree) /\ a \in Ejects[cmd.to],
          cmd.restore)

Artifacts(tree, cmd) == OldArtifacts(tree) \cup DOMAIN Renders[cmd.to]

MovedOnto(tree, cmd) ==
  {a \in OldArtifacts(tree) \cap DOMAIN Renders[cmd.to] :
     /\ OutputPath(tree, cmd.to, a) # LivePath(tree, cmd.to, a)
     /\ tree[OutputPath(tree, cmd.to, a)] # Absent}

(* The managed set as captured, without what the reader has taken over.    *)
TreeBefore(tree, cmd) ==
  [w \in {v \in {LivePath(tree, cmd.to, a) : a \in OldArtifacts(tree) \ Ejects[cmd.to]} :
            tree[v] # Absent} |-> tree[w]]

TreeAfter(tree, cmd) ==
  LET kept == {a \in Artifacts(tree, cmd) : Verdict(tree, cmd, a) # Absent}
  IN [w \in {OutputPath(tree, cmd.to, a) : a \in kept} |->
        Verdict(tree, cmd, CHOOSE a \in kept : OutputPath(tree, cmd.to, a) = w)]

-----------------------------------------------------------------------------
(* materialize_migrations.                                                 *)
Taken(tree) == {slot \in DOMAIN Slot : tree[Slot[slot]] # Absent}

Newest(tree) ==
  IF Taken(tree) = {} THEN 0
    ELSE CHOOSE n \in Number :
           /\ \E slot \in Taken(tree) : slot[1] = n
           /\ \A slot \in Taken(tree) : slot[1] <= n

Duplicates(tree) == {s \in Taken(tree) : \E t \in Taken(tree) : s # t /\ s[1] = t[1]}

Derived(tree, cmd) == Derives[<<Accepted(tree), cmd.to>>]

(* The migrations of a plan: the derived ones, and the reader's after them. *)
Drafted(tree, cmd) == Derived(tree, cmd) \o cmd.authored

(* What a plan can read: managed files are texts, and the lock is one that *)
(* jails wrote.                                                            *)
Legible(tree) ==
  /\ \A w \in DOMAIN BaseOf : tree[w] \in Text \cup {Absent}
  /\ tree[LockFile] \in Locks \cup {Absent}

(* The published migrations as jails leaves them: no two share a number,   *)
(* and what the lock seals is there.                                       *)
Intact(tree) ==
  /\ Duplicates(tree) = {}
  /\ \A w \in DOMAIN Sealed(tree) : tree[w] = Sealed(tree)[w]

Sound(tree) == Legible(tree) /\ Intact(tree)

(* The number and text of the i-th of them.                                *)
Allotted(tree, cmd, i) == <<Newest(tree) + i, Drafted(tree, cmd)[i]>>

(* Bound: the migrations the constants have a name for.                    *)
Named(tree, cmd) ==
  \A i \in DOMAIN Drafted(tree, cmd) : Allotted(tree, cmd, i) \in DOMAIN Slot

Allotments(tree, cmd) == {Allotted(tree, cmd, i) : i \in DOMAIN Drafted(tree, cmd)}

Appends(tree, cmd) ==
  [i \in DOMAIN Drafted(tree, cmd) |->
     [kind |-> "append", before |-> << >>,
      after |-> [w \in {Slot[Allotted(tree, cmd, i)]} |-> Drafted(tree, cmd)[i]]]]

(* Mutant: the next lock forgets what the last one sealed.                 *)
SealedFresh(tree, cmd) ==
  LET fresh == Allotments(tree, cmd) \cap Sealable
  IN [w \in {Slot[s] : s \in fresh} |-> (CHOOSE s \in fresh : Slot[s] = w)[2]]

(* Mutant: a migration of the reader's is sealed as well.                  *)
SealedAll(tree, cmd) ==
  LET fresh == Allotments(tree, cmd)
      old   == Sealed(tree)
  IN [w \in DOMAIN old \cup {Slot[s] : s \in fresh} |->
        IF \E s \in fresh : Slot[s] = w THEN (CHOOSE s \in fresh : Slot[s] = w)[2] ELSE old[w]]

(* The migrations the next lock seals; the reader's stay out of it.        *)
SealedAfter(tree, cmd) ==
  LET fresh == Allotments(tree, cmd) \cap Sealable
      old   == Sealed(tree)
  IN [w \in DOMAIN old \cup {Slot[s] : s \in fresh} |->
        IF \E s \in fresh : Slot[s] = w THEN (CHOOSE s \in fresh : Slot[s] = w)[2] ELSE old[w]]

(* restore_sealed_migrations: one that is gone is put back, and an edited  *)
(* one is rewritten by `entity repair` alone.                              *)
Restored(tree, cmd) ==
  LET sealed == SealedAfter(tree, cmd)
  IN {w \in DOMAIN sealed :
        /\ RestoresMissing(cmd.restore)
        /\ tree[w] # sealed[w]
        /\ tree[w] = Absent \/ cmd.restore = "MissingOrEdited"}

-----------------------------------------------------------------------------
(* The project a plan cannot be made for: nothing is written.              *)
PlanRefused(tree, cmd) ==
  \/ ~BaseIntact(tree)
  \/ <<Accepted(tree), cmd.to>> \notin DOMAIN Derives
  \/ Accepted(tree) = Absent /\ Taken(tree) # {}
  \/ Drafted(tree, cmd) # << >> /\ Duplicates(tree) # {}
  \/ MovedOnto(tree, cmd) # {}
  \/ \E a \in Artifacts(tree, cmd) : Verdict(tree, cmd, a) = Refused

-----------------------------------------------------------------------------
(* The operations, each left out when it would change nothing.             *)
Present(tree, paths) == [w \in {v \in paths : tree[v] # Absent} |-> tree[w]]

When(condition, op) == IF condition THEN <<op>> ELSE << >>

PublishManaged(tree, cmd) ==
  When(TreeBefore(tree, cmd) # TreeAfter(tree, cmd),
       [kind |-> "tree", before |-> TreeBefore(tree, cmd), after |-> TreeAfter(tree, cmd)])

(* Mutant: what was merged becomes the base, hand edits included.          *)
PublishMergedAsBase(tree, cmd) ==
  LET merged == TreeAfter(tree, cmd)
      old    == BaseTree(AcceptedProjection(tree))
      new    == [w \in {BaseOf[v] : v \in DOMAIN merged} |->
                   merged[CHOOSE v \in DOMAIN merged : BaseOf[v] = w]]
  IN When(old # new, [kind |-> "tree", before |-> old, after |-> new])

PublishBase(tree, cmd) ==
  LET old == BaseTree(AcceptedProjection(tree))
      new == BaseTree(Renders[cmd.to])
  IN When(old # new, [kind |-> "tree", before |-> old, after |-> new])

(* Mutant: a base file is a stray if the accepted projection does not name it. *)
RetireUnaccepted(tree, cmd) ==
  LET strays == {w \in BasePaths \ DOMAIN BaseTree(AcceptedProjection(tree)) : tree[w] # Absent}
  IN When(strays # {}, [kind |-> "remove", before |-> Present(tree, strays), after |-> << >>])

(* A base file neither projection names is the base of nothing.            *)
RetireStrays(tree, cmd) ==
  LET owned  == DOMAIN BaseTree(AcceptedProjection(tree)) \cup DOMAIN BaseTree(Renders[cmd.to])
      strays == {w \in BasePaths \ owned : tree[w] # Absent}
  IN When(strays # {}, [kind |-> "remove", before |-> Present(tree, strays), after |-> << >>])

RestoreSealed(tree, cmd) ==
  LET paths == Restored(tree, cmd)
  IN When(paths # {}, [kind |-> "file", before |-> Present(tree, paths),
                       after |-> [w \in paths |-> SealedAfter(tree, cmd)[w]]])

ReplaceModel(tree, cmd) ==
  When(cmd.to # cmd.from, [kind |-> "file", before |-> Present(tree, {ModelFile}),
                           after |-> [w \in {ModelFile} |-> cmd.to]])

(* The acceptance marker, last.                                            *)
ReplaceLock(tree, cmd) ==
  LET lock == [model |-> cmd.to, projection |-> Renders[cmd.to], sealed |-> SealedAfter(tree, cmd)]
  IN When(tree[LockFile] # lock, [kind |-> "file", before |-> Present(tree, {LockFile}),
                                  after |-> [w \in {LockFile} |-> lock]])

Operations(tree, cmd) ==
  PublishManaged(tree, cmd) \o PublishBase(tree, cmd) \o RetireStrays(tree, cmd)
    \o Appends(tree, cmd) \o RestoreSealed(tree, cmd) \o ReplaceModel(tree, cmd)
    \o ReplaceLock(tree, cmd)

(* materialize: the bundle for this command on the project as captured.    *)
Materialized(tree, debris, cmd) ==
  LET appended == {Slot[s] : s \in Allotments(tree, cmd)}
  IN [base |-> [w \in Observed(tree, cmd.to) \cup appended \cup Restored(tree, cmd) |-> tree[w]],
      dirs |-> [d \in {MigrationRoot} |-> Observe(tree, debris, d)],
      ops  |-> Operations(tree, cmd)]
=============================================================================
