----------------------------- MODULE PluginPath -----------------------------
(***************************************************************************)
(* Where the library of a plugin may lie, and the order in which           *)
(* plugin_resolve_path (src/src/plugin_path.c) looks for it.               *)
(*                                                                         *)
(* A path is the name that was asked for and a spot:                       *)
(*   own     ./plugins/<name>/<name>.so                                    *)
(*   lib     ./plugins/<name>/lib<name>.so                                 *)
(*   other   another *.so of ./plugins/<name>/                             *)
(*   sys     ./libary/<name>.so                                            *)
(*   syslib  ./libary/lib<name>.so                                         *)
(* An operator named X_Y is a faulty variant of the operator X below it    *)
(* (see the README).                                                       *)
(***************************************************************************)
EXTENDS FiniteSetsExt, Sequences

CONSTANTS
  Names,      \* what clients ask for
  SafeNames   \* those of letters, digits, '_' and '-' only

ASSUME NameAssumption == SafeNames \subseteq Names

Spots == {"own", "lib", "other", "sys", "syslib"}
FileStates == {"none", "good", "bad"}  \* bad: there, but dlopen refuses it

Paths == Names \X Spots

\* plugin_name_is_safe and ws_safe_name.
IsSafe(name) == name \in SafeNames

\* find_library_in_dir: two stats, then readdir returns any library there is,
\* one that the stats missed included.
InPluginDir == <<{"own"}, {"lib"}, {"own", "lib", "other"}>>

\* The two stats of the fallback.
InLibary_OldName == <<{"sys"}>>
InLibary == <<{"sys"}, {"syslib"}>>

\* What each system call of plugin_resolve_path may find, in order.
Looks_LibaryFirst(name) ==
  IF IsSafe(name) THEN InLibary \o InPluginDir ELSE InLibary
Looks(name) == IF IsSafe(name) THEN InPluginDir \o InLibary ELSE InLibary

\* What is there of a set of spots.
Present(files, name, spots) == {s \in spots : files[<<name, s>>] # "none"}

\* What out holds when nothing was found: the last candidate.
Leftover(name) == <<name, "syslib">>
=============================================================================
