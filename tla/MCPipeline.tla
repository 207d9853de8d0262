----------------------------- MODULE MCPipeline -----------------------------
(***************************************************************************)
(* Commands on one small project.  m0 declares a note; m1 adds a field to  *)
(* it and a tag; m2 renames it; m3 is m0 with the note ejected; m4 adds an *)
(* index, which changes the schema and no class.                           *)
(***************************************************************************)
EXTENDS Claims, TLC

CONSTANTS m0, m1, m2, m3, m4, Blank

MCModel == {m0, m1, m2, m3, m4}
MCRegion == {"sig", "body"}
MCWord == {"s0", "s1", "s2", "t0", "b0", "s1 wrapped", "mine"}

Java(path, sig) == [path |-> path, text |-> [r \in MCRegion |-> IF r = "sig" THEN sig ELSE "b0"]]

MCRenders ==
  [m \in MCModel |->
     CASE m \in {m0, m4} -> [a \in {"note"} |-> Java("Note", "s0")]
       [] m = m1 -> [a \in {"note", "tag"} |-> IF a = "note" THEN Java("Note", "s1") ELSE Java("Tag", "t0")]
       [] m = m2 -> [a \in {"note"} |-> Java("Note2", "s2")]
       [] m = m3 -> << >>]

MCEjects == [m \in MCModel |-> IF m = m3 THEN {"note"} ELSE {}]

From(old, new) == [finds |-> old, leaves |-> new]

SchemaSteps == {<<Absent, m0>>, <<m0, m1>>, <<m0, m2>>, <<m1, m0>>, <<m0, m4>>}
OtherSteps == {step \in MCModel \X MCModel : step[1] = step[2] \/ step = <<m0, m3>>}

MCDerives ==
  [step \in SchemaSteps \cup OtherSteps |->
     IF step \in SchemaSteps THEN <<From(step[1], step[2])>> ELSE << >>]

MCSchema == [m \in MCModel \cup {Absent} |-> IF m = m3 THEN m0 ELSE m]

Does(m) ==
  CASE m = Blank -> "blank"
    [] m = From(Absent, m0) -> "note"
    [] m = From(m0, m1) -> "tag"
    [] m = From(m1, m0) -> "drop"
    [] m = From(m0, m2) -> "rename"
    [] m = From(m0, m4) -> "index"

Slots ==
  {<<1, From(Absent, m0)>>, <<3, From(m1, m0)>>}
    \cup {2, 3, 4} \X {From(m0, m1), From(m0, m2), From(m0, m4), Blank}

MCSlot == [slot \in Slots |-> <<"V1_", "V2_", "V3_", "V4_">>[slot[1]] \o Does(slot[2])]

Migrations == {MCSlot[s] : s \in DOMAIN MCSlot}

MCBaseOf == [w \in {"Note", "Note2", "Tag"} |-> "base/" \o w]
MCPath == {"Note", "Note2", "Tag", "base/Note", "base/Note2", "base/Tag", "model", "lock"}
            \cup Migrations
MCDirOf ==
  [w \in MCPath |->
     CASE w \in {"Note", "Note2"} -> "src"
       [] w = "Tag" -> "tag"
       [] w \in {"base/Note", "base/Note2", "base/Tag"} -> "base"
       [] w \in {"model", "lock"} -> "state"
       [] w \in Migrations -> "db"]
MCKeptDirs == {"src", "state"}
MCDir == {"src", "tag", "base", "state", "db"}

MCText == [MCRegion -> MCWord]
MCMigration == {s[2] : s \in DOMAIN MCSlot}

MCLock ==
  [model : MCModel,
   projection : UNION {[S -> [path : DOMAIN MCBaseOf, text : MCText]] : S \in SUBSET {"note", "tag"}},
   sealed : {[w \in {MCSlot[s] : s \in S} |-> (CHOOSE s \in S : MCSlot[s] = w)[2]] :
               S \in SUBSET {s \in DOMAIN MCSlot : s[2] # Blank}}]

MCImage == MCText \cup MCModel \cup MCMigration \cup MCLock

Command(from, to, restore) ==
  [from |-> from, to |-> to, restore |-> restore, authored |-> << >>]
AddTag == Command(m0, m1, "Refuse")
DropTag == Command(m1, m0, "Refuse")
Rename == Command(m0, m2, "Refuse")
AddIndex == Command(m0, m4, "Refuse")
Eject == Command(m0, m3, "Refuse")
WriteSql(m) == [Command(m, m, "Refuse") EXCEPT !.authored = <<Blank>>]
Sync == {Command(m, m, "Missing") : m \in MCModel}
Repair == {Command(m, m, "MissingOrEdited") : m \in MCModel}

OnlyAddTag == {AddTag}
OnlyRename == {Rename}
OnlyAddIndex == {AddIndex}
RaceCommands == {AddTag, AddIndex, WriteSql(m0), WriteSql(m4)}
EditCommands == {AddTag, DropTag, Rename, Eject, WriteSql(m0), WriteSql(m1)} \cup Sync

(* A project that has generated m0 once.                                   *)
Generated ==
  [w \in MCPath |->
     CASE w \in {"Note", "base/Note"} -> MCRenders[m0]["note"].text
       [] w = "model" -> m0
       [] w = "V1_note" -> From(Absent, m0)
       [] w = "lock" -> [model |-> m0, projection |-> MCRenders[m0], sealed |-> "V1_note" :> From(Absent, m0)]
       [] OTHER -> Absent]

(* A project whose model has been written and never generated.             *)
Declared == [w \in MCPath |-> IF w = "model" THEN m0 ELSE Absent]

ProcSymmetry == Permutations(Proc)

MCProject == disk = Generated /\ made = MCDir \ {"tag"}
MCInit == MCProject /\ PInit
MCSpec == MCInit /\ [][PNext]_pvars

MCFreshInit == disk = Declared /\ made = MCKeptDirs /\ PInit
MCFreshSpec == MCFreshInit /\ [][PNext]_pvars
=============================================================================
