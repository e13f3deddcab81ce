---------------------------- MODULE MCPluginHost ----------------------------
(***************************************************************************)
(* Two plugins that may call each other and themselves, one of them under  *)
(* a name, from any state of the cache, with every command and locator.    *)
(***************************************************************************)
EXTENDS PluginHost

CONSTANTS pay, tree, named, unknown

MCModuleMap == [n \in {named} |-> tree]
=============================================================================
