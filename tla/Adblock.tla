------------------------------ MODULE Adblock ------------------------------
(***************************************************************************)
(* What a DNS resolver can enforce of a filter list (dns/adblock.py), and  *)
(* the list a download is stored as (dns/sources.py).                      *)
(*                                                                         *)
(* A list is a set of lines: the order of its lines does not matter.  A    *)
(* name is a sequence of labels in normal form.  A line is a record:       *)
(*   [kind |-> "other"]        blank, a comment, cosmetic, a regular       *)
(*                             expression or a fragment of an address;     *)
(*   [kind |-> "rule", ...]    ||host^$modifiers, or @@||host^$modifiers:  *)
(*                             exact when nothing but the host is matched; *)
(*   [kind |-> "hosts", ...]   names, behind a sink, an address or nothing.*)
(* The counters of the conversion are left out.                            *)
(***************************************************************************)
EXTENDS Naturals, Sequences, FiniteSets

(* Two labels or more; addresses are not names. *)
IsDomain(n) == Len(n) >= 2

NeverBlock ==
  {<<"localhost">>, <<"localhost", "localdomain">>, <<"local">>, <<"ip6-localhost">>}

(* Modifiers that do not change which name is contacted. *)
SafeModifiers ==
  {"third-party", "3p", "all", "document", "doc", "popup", "important"}

ModifiersAreSafe(modifiers) == modifiers \subseteq SafeModifiers

NetworkRules(list, exception) ==
  {l \in list : /\ l.kind = "rule" /\ l.exception = exception
                /\ ModifiersAreSafe(l.modifiers) /\ l.exact /\ IsDomain(l.host)}

(* Several names on a line need a sink or an address before them. *)
PlainOrHosts(list) ==
  {l \in list : l.kind = "hosts" /\ (l.before = "nothing" => Cardinality(l.names) = 1)}

Exceptions(list) == {l.host : l \in NetworkRules(list, TRUE)}

Domains(list) ==
  ({l.host : l \in NetworkRules(list, FALSE)}
     \cup {n \in UNION {l.names : l \in PlainOrHosts(list)} : IsDomain(n)})
  \ (Exceptions(list) \cup NeverBlock)

(* A download keeps its domains only. *)
Rendered(list) ==
  {[kind |-> "other"]}
    \cup {[kind |-> "hosts", before |-> "nothing", names |-> {n}] : n \in Domains(list)}
=============================================================================
