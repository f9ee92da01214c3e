-------------------------- MODULE MCPluginProcess --------------------------
(* PluginProcess with two plugins, opened at once.                         *)
EXTENDS PluginProcess

Two == {"p1", "p2"}
\* A host with no codec or two; a plugin with none, with the same two in the
\* other order, or with a third.
SomeHosts == {<<>>, <<"json", "gob">>}
SomePlugins == {<<>>, <<"gob", "json">>, <<"msgp">>}
=============================================================================
