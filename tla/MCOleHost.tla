----------------------------- MODULE MCOleHost -----------------------------
(* A library of coclasses in which each point of the ranking decides once,  *)
(* against the points after it: two revisions of one group, a newer one     *)
(* that is safe for scripting and a newer one of the older class.           *)
(* CoclassName is not given, given, or misspelt, and there is every list of *)
(* up to three implemented interfaces of which a third one follows a source.*)
EXTENDS OleHost

NewestScriptable == [rdp |-> TRUE, notSafe |-> FALSE, version |-> 3]

MCLibrary ==
  {NewestScriptable,
   [rdp |-> TRUE,  notSafe |-> TRUE, version |-> 2],
   [rdp |-> TRUE,  notSafe |-> TRUE, version |-> 1],
   [rdp |-> FALSE, notSafe |-> TRUE, version |-> 3]}

MCForced == {MCLibrary, {NewestScriptable}, {}}

MCImplLists ==
  UNION {[1..n -> ImplKinds] : n \in 0..2}
    \cup {<<"source">> \o rest : rest \in [1..2 -> ImplKinds]}
=============================================================================
