---------------------------- MODULE MCStreamSetup ----------------------------
(* Commands with the same injector setting, as from one configuration file.  *)
EXTENDS StreamSetup

Cmd(kind, only) == [kind |-> kind, only |-> only, injector |-> TRUE]
MCCommands == {Cmd("init", FALSE), Cmd("init", TRUE), Cmd("upgrade", FALSE),
               Cmd("destroy", FALSE), Cmd("destroy", TRUE), Cmd("status", FALSE)}
=============================================================================
