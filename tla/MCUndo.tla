------------------------------- MODULE MCUndo -------------------------------
(***************************************************************************)
(* The project of MCPipeline with `jails undo` among its commands, and a   *)
(* formatter that wraps one rendered word.                                 *)
(***************************************************************************)
EXTENDS MCPipeline, Undo

MCTidy == [w \in MCWord |-> IF w = "s1" THEN "s1 wrapped" ELSE w]

MCUInit == MCProject /\ UInit

(* `sync` after the tag was added and after the note was ejected.          *)
UndoCommands ==
  {AddTag, DropTag, Rename, Eject, WriteSql(m0), Command(m1, m1, "Missing"), Command(m3, m3, "Missing")}

(* Without a formatter, and with one that runs when no command does.       *)
MCUCommands == (\E p \in Proc : Commanded(p)) \/ Read
MCUSpec == MCUInit /\ [][MCUCommands]_uvars
MCUAloneSpec == MCUInit /\ [][UNext /\ OnItsOwn]_uvars
=============================================================================
