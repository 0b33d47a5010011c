-------------------------- MODULE MCPluginCommands --------------------------
(* Two mailboxes, one of them with a malformed message between two others    *)
(* and a second folder, an instance without an environment, and one that is  *)
(* switched off.                                                             *)
EXTENDS PluginCommands
CONSTANTS home, work, broken, off, a, b, bad, c
ConfiguredDef == <<home, broken, off, work>>
BoxDef == [i \in Instance |->
             CASE i = home -> << <<a, bad, b>> >>
               [] i = work -> << <<>>, <<c>> >>
               [] OTHER -> << >>]
=============================================================================
