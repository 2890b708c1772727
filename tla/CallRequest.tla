---------------------------- MODULE CallRequest ----------------------------
(***************************************************************************)
(* The "call" message: which are refused and with which code               *)
(* (ws_call_parse in src/src/ws_call.c), and the code a client gets for    *)
(* the return code of an execution (ws_call_map_rc).                       *)
(*                                                                         *)
(* A message is a record: fits, whether its size is legal; id, lib,        *)
(* symbol: "missing", "long", "unsafe" or "fine"; args: "absent",          *)
(* "object", "null" or "other"; memory: "fine", "scarce" (the copy of args *)
(* fails, that of the default {} does not) or "none".                      *)
(***************************************************************************)
EXTENDS FiniteSetsExt, Sequences, Integers

NamesOf(m) == {m.id, m.lib, m.symbol}

\* The tests of ws_call_parse: the first that holds refuses the message.  Args
\* that cannot be copied are replaced by {}, whatever they were.
Refusals(m) == <<
  [code |-> -1, when |-> ~m.fits],
  [code |-> -1, when |-> "missing" \in NamesOf(m)],
  [code |-> -1, when |-> "long" \in NamesOf(m)],
  [code |-> -5, when |-> "unsafe" \in {m.lib, m.symbol}],
  [code |-> -1, when |-> m.memory = "none"],
  [code |-> -1, when |-> m.args = "other" /\ m.memory = "fine"],
  [code |-> 0,  when |-> TRUE] >>

ParseCode(m) ==
  LET tests == Refusals(m)
  IN  tests[Min({i \in DOMAIN tests : tests[i].when})].code

\* ws_call_map_rc: the return codes of call_local_dyn_libffi (-1 no library, -2
\* no symbol, -100 no argument) and of the plugin function share their numbers.
MapRc(rc) ==
  CASE rc = 0    -> 0
    [] rc = -100 -> -1
    [] rc = -1   -> -2
    [] rc = -2   -> -3
    [] OTHER     -> -4
=============================================================================
