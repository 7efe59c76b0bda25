----------------------------- MODULE MCResolver -----------------------------
(* Resolver with a name and two under it, two threads and two lists: one was        *)
(* downloaded, the other was put in the folder.                                     *)
EXTENDS Resolver, Adblock, TLC

CONSTANTS l1, l2, q1, ads, more

Tld == <<"com">>
Site == <<"site", "com">>
AdSite == <<"ads", "site", "com">>
Tracker == <<"track", "site", "com">>
AllNames == {Site, AdSite, Tracker}

Rule(host, exception, modifiers) ==
  [kind |-> "rule", host |-> host, exception |-> exception, modifiers |-> modifiers,
   exact |-> TRUE]
Hosts(before, names) == [kind |-> "hosts", before |-> before, names |-> names]
Hosted == {Tld, Site, AdSite}
Lines ==
  {Rule(n, e, m) : n \in Hosted, e \in BOOLEAN, m \in {{}, {"third-party"}, {"script"}}}
    \cup {Hosts(b, ns) : b \in {"sink", "address", "nothing"}, ns \in (SUBSET Hosted) \ {{}}}
    \cup {[kind |-> "other"]}

File(l) ==
  IF l = ads THEN Rendered({Rule(AdSite, FALSE, {"third-party"}), Rule(Site, FALSE, {"script"}),
                            Rule(Tracker, FALSE, {}), Rule(Site, TRUE, {})})
  ELSE {Hosts("sink", {<<"localhost">>, Site}), Rule(AdSite, TRUE, {}), [kind |-> "other"]}
Blocks(l) == Domains(File(l))
Releases(l) == Exceptions(File(l))

(* A stored download reads back as the domains it was converted to, and releases no *)
(* name itself (adblock.py:93-124, sources.py:388-410).                              *)
ASSUME RenderedReadsBack ==
  \A k, l, m \in Lines :
    LET list == {k, l, m}
    IN Domains(Rendered(list)) = Domains(list) /\ Exceptions(Rendered(list)) = {}

PlainServers == <<"p1", "p2">>
TorServers == <<"tor">>

Symmetric == Permutations(Loads)
=============================================================================
