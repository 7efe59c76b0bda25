------------------------------ MODULE Resolver ------------------------------
(***************************************************************************)
(* The Shield's resolver (dns/resolver.py DNSResolver) and the library of  *)
(* lists it consults (dns/blocklist.py).  Queries and changes of the       *)
(* upstream are coroutines of the event loop; the lists are loaded in      *)
(* threads of their own, beside the queries and beside each other, in the  *)
(* very sets the queries read.                                             *)
(*                                                                         *)
(* Names are sequences of labels in normal form.  What a list file says is *)
(* given by Listed and Excepted.  A sinkholed or cached answer changes no  *)
(* state and has no action; statistics are left out, as is the removal of  *)
(* a name from the whitelist, which has no caller in the program.          *)
(*                                                                         *)
(* An operator that nothing uses is a plausible wrong version of the one   *)
(* below it.                                                               *)
(***************************************************************************)
EXTENDS Naturals, Sequences, FiniteSets

CONSTANTS
  Queries,        \* queries that can be in flight at a time
  Loads,          \* threads that can load the lists at a time
  Names,          \* names, as sequences of labels
  Lists,          \* list files in the library
  Listed(_),      \* the names a list file blocks
  Excepted(_),    \* the names a list file releases
  Plain, Tor,     \* the two upstreams, as sequences of servers
  MaxListChanges  \* bound: changes of the whitelist and of the enabled lists, and
                  \* discoveries of the event loop

Nameless == <<>>
Nobody == "nobody"
NameServers == {Plain[i] : i \in DOMAIN Plain} \cup {Tor[i] : i \in DOMAIN Tor}
Upstreams == {Plain, Tor}

ASSUME UpstreamAssumption ==
  Upstreams \subseteq Seq(NameServers) \ {<<>>} /\ Nobody \notin NameServers
ASSUME NamesAssumption ==
  /\ Names \subseteq Seq(UNION {{n[i] : i \in DOMAIN n} : n \in Names})
  /\ \A n \in Names : n # Nameless /\ Len(n) \in Nat \ {0}
ASSUME ListsAssumption ==
  /\ \A l \in Lists : Listed(l) \subseteq Names /\ Excepted(l) \subseteq Names
  /\ MaxListChanges \in Nat

VARIABLES
  blocked, released, allowed,  \* _blocked, _exceptions, _whitelist
  present,     \* _files: the lists it takes for enabled
  white,       \* whitelist.txt
  selected,    \* config.dns.enabled_blocklists
  at,          \* per load: the step it is at
  choice,      \* per load: the lists it was asked for
  todo,        \* per load: the lists it has still to read
  read,        \* per load: what it read of whitelist.txt
  adding,      \* a name whose addition to the whitelist is half done
  upstream,    \* the servers asked, in turn
  cache,       \* per name: the server whose answer is cached
  asked,       \* per query: the name it forwards
  rest,        \* per query: the server it waits for, and those that follow
  late,        \* history: names in flight when the upstream changed
  mixed,       \* history: loads overlapped that were asked for different things, or one
               \* took up what the event loop had discovered
  listChanges  \* bound: changes so far

sets == <<blocked, released, allowed>>
settings == <<white, selected, listChanges>>
loads == <<present, at, choice, todo, read, mixed>>
queries == <<cache, asked, rest>>
resolverVars == <<sets, settings, loads, adding, upstream, queries, late>>

ListsOK ==
  /\ blocked \subseteq Names /\ released \subseteq Names /\ allowed \subseteq Names
  /\ white \subseteq Names /\ present \subseteq Lists /\ selected \subseteq Lists
  /\ at \in [Loads -> {"idle", "discover", "clear", "files", "read", "merge",
                       "loaded"}]
  /\ choice \in [Loads -> SUBSET Lists] /\ todo \in [Loads -> SUBSET Lists]
  /\ read \in [Loads -> SUBSET Names] /\ mixed \in BOOLEAN
  /\ adding \in Names \cup {Nameless} /\ listChanges \in 0..MaxListChanges

QueriesOK ==
  /\ upstream \in Upstreams /\ late \subseteq Names
  /\ cache \in [Names -> NameServers \cup {Nobody}]
  /\ asked \in [Queries -> Names \cup {Nameless}]
  /\ rest \in [Queries -> Seq(NameServers) \ {<<>>}]

ResolverTypeOK == ListsOK /\ QueriesOK

-----------------------------------------------------------------------------
(* Matching. *)

(* A name and its parents, without the single label at the end of a longer name. *)
Ancestors(n) ==
  {SubSeq(n, i, Len(n)) : i \in 1..(IF Len(n) > 1 THEN Len(n) - 1 ELSE 1)}

IsBlocked(n) ==
  /\ Ancestors(n) \cap (allowed \cup released) = {}
  /\ Ancestors(n) \cap blocked # {}

ListedBy(S) == UNION {Listed(l) : l \in S}
ExceptedBy(S) == UNION {Excepted(l) : l \in S}

(* With no list enabled, all are. *)
Chosen(S) == IF S = {} THEN Lists ELSE S

(* What the user asked for, said without the library: m covers n. *)
Covers(m, n) ==
  /\ Len(m) <= Len(n) /\ SubSeq(n, Len(n) - Len(m) + 1, Len(n)) = m
  /\ Len(m) = 1 => Len(n) = 1

ShouldBlock(n) ==
  /\ \E m \in ListedBy(Chosen(selected)) : Covers(m, n)
  /\ ~ \E m \in white \cup ExceptedBy(Chosen(selected)) : Covers(m, n)

-----------------------------------------------------------------------------
ResolverInit ==
  /\ selected = Lists /\ present = Lists /\ white = {} /\ listChanges = 0
  /\ blocked = ListedBy(Lists) \ ExceptedBy(Lists) /\ released = ExceptedBy(Lists)
  /\ allowed = {}
  /\ at = [l \in Loads |-> "idle"] /\ choice = [l \in Loads |-> {}]
  /\ todo = [l \in Loads |-> {}] /\ read = [l \in Loads |-> {}] /\ mixed = FALSE
  /\ adding = Nameless /\ upstream = Plain /\ late = {}
  /\ cache = [n \in Names |-> Nobody]
  /\ asked = [q \in Queries |-> Nameless] /\ rest = [q \in Queries |-> Plain]

(* The event loop runs one thing at a time; the threads run beside it. *)
LoopFree == adding = Nameless

Idle(l) == at[l] = "idle"
MoveTo(l, s) == at' = [at EXCEPT ![l] = s]
Changes == listChanges < MaxListChanges /\ listChanges' = listChanges + 1
AtRest == \A l \in Loads : Idle(l)

-----------------------------------------------------------------------------
(* reload_lists and load. *)

(* A load that is asked for; mixed tells whether another under way differs. *)
BeginLoad(l, S) ==
  /\ Idle(l) /\ MoveTo(l, "discover") /\ choice' = [choice EXCEPT ![l] = Chosen(S)]
  /\ mixed' = \E o \in Loads \ {l} : ~Idle(o) /\ (mixed \/ choice[o] # Chosen(S))
  /\ UNCHANGED <<present, todo, read>>

Reload(l) ==
  /\ LoopFree /\ BeginLoad(l, selected)
  /\ UNCHANGED <<sets, settings, adding, upstream, queries, late>>

Discover(l) ==
  /\ at[l] = "discover" /\ MoveTo(l, "clear") /\ present' = choice[l]
  /\ UNCHANGED <<sets, settings, choice, todo, read, mixed, adding, upstream, queries, late>>

(* The event loop discovers too, all lists or the enabled ones, and fills the shared *)
(* table entry by entry: a load that is about to take it up may find any part of     *)
(* that.  Any other load discovers again before it takes it up.                      *)
LoopDiscovers ==
  /\ LoopFree /\ \E l \in Loads : at[l] = "clear"
  /\ Changes /\ present' \in SUBSET Lists
  /\ mixed' = (mixed \/ \E l \in Loads : at[l] = "clear" /\ choice[l] # present')
  /\ UNCHANGED <<sets, white, selected, at, choice, todo, read, adding, upstream, queries, late>>

Kept == UNCHANGED <<blocked, released>>
Emptied == blocked' = {} /\ released' = {}

Clear(l) ==
  /\ at[l] = "clear" /\ MoveTo(l, "files")
  /\ Emptied /\ todo' = [todo EXCEPT ![l] = present]
  /\ UNCHANGED <<allowed, settings, present, choice, read, mixed, adding, upstream, queries, late>>

ReadFile(l, f) ==
  /\ at[l] = "files" /\ f \in todo[l] /\ todo' = [todo EXCEPT ![l] = @ \ {f}]
  /\ blocked' = blocked \cup Listed(f) /\ released' = released \cup Excepted(f)
  /\ UNCHANGED <<allowed, settings, present, at, choice, read, mixed, adding, upstream,
                 queries, late>>

(* The whitelist is cleared before its file is read. *)
ClearWhitelist(l) ==
  /\ at[l] = "files" /\ todo[l] = {} /\ MoveTo(l, "read")
  /\ allowed' = {}
  /\ UNCHANGED <<blocked, released, settings, present, choice, todo, read, mixed, adding,
                 upstream, queries, late>>

ReadWhitelist(l) ==
  /\ at[l] = "read" /\ MoveTo(l, "merge") /\ read' = [read EXCEPT ![l] = white]
  /\ UNCHANGED <<sets, settings, present, choice, todo, mixed, adding, upstream, queries, late>>

MergeReplaces(l) == read[l]
MergeAdds(l) == allowed \cup read[l]

Merge(l) ==
  /\ at[l] = "merge" /\ MoveTo(l, "loaded")
  /\ allowed' = MergeAdds(l) /\ blocked' = blocked \ (allowed' \cup released)
  /\ UNCHANGED <<released, settings, present, choice, todo, read, mixed, adding, upstream,
                 queries, late>>

(* Back in the event loop: reload_lists empties the cache, start does not. *)
LoadReturns(l) ==
  /\ at[l] = "loaded" /\ LoopFree /\ MoveTo(l, "idle")
  /\ cache' \in {cache, [n \in Names |-> Nobody]}
  /\ choice' = [choice EXCEPT ![l] = {}] /\ read' = [read EXCEPT ![l] = {}]
  /\ UNCHANGED <<sets, settings, present, todo, mixed, adding, upstream, asked, rest, late>>

-----------------------------------------------------------------------------
(* The user: enabled lists and the whitelist. *)

SelectList(l, f) ==
  /\ LoopFree /\ Changes
  /\ \E S \in {selected \cup {f}, selected \ {f}} \ {selected} :
       selected' = S /\ BeginLoad(l, S)
  /\ UNCHANGED <<sets, white, adding, upstream, queries, late>>

(* A name goes to the file first and then to the set; a thread may run in between. *)
WhitelistAdd(n) ==
  /\ LoopFree /\ Len(n) >= 2 /\ n \notin allowed /\ Changes
  /\ white' = white \cup {n} /\ adding' = n
  /\ UNCHANGED <<sets, selected, loads, upstream, queries, late>>

WhitelistAdded ==
  /\ ~LoopFree /\ adding' = Nameless
  /\ allowed' = allowed \cup {adding} /\ blocked' = blocked \ {adding}
  /\ cache' = [n \in Names |-> Nobody]
  /\ UNCHANGED <<released, settings, loads, upstream, asked, rest, late>>

-----------------------------------------------------------------------------
(* The upstream and the queries. *)

CacheKept == UNCHANGED cache
CacheCleared == cache' = [n \in Names |-> Nobody]

SetUpstream(u) ==
  /\ LoopFree /\ u # upstream /\ upstream' = u /\ CacheCleared
  /\ late' = {asked[q] : q \in Queries} \ {Nameless}
  /\ UNCHANGED <<sets, settings, loads, adding, asked, rest>>

(* A name that is neither blocked nor cached is forwarded to the first server. *)
Forward(q, n) ==
  /\ LoopFree /\ asked[q] = Nameless
  /\ ~IsBlocked(n) /\ cache[n] = Nobody
  /\ asked' = [asked EXCEPT ![q] = n] /\ rest' = [rest EXCEPT ![q] = upstream]
  /\ UNCHANGED <<sets, settings, loads, adding, upstream, cache, late>>

Finish(q) ==
  /\ asked' = [asked EXCEPT ![q] = Nameless] /\ rest' = [rest EXCEPT ![q] = Plain]

Answered(q) ==
  /\ LoopFree /\ asked[q] # Nameless /\ Finish(q)
  /\ cache' = [cache EXCEPT ![asked[q]] = Head(rest[q])]
  /\ UNCHANGED <<sets, settings, loads, adding, upstream, late>>

(* No answer in time: the next server of the list that was current at the question. *)
NextServer(q) == rest' = [rest EXCEPT ![q] = Tail(@)] /\ UNCHANGED <<asked, cache>>

(* A failure is not cached. *)
GiveUp(q) == Finish(q) /\ UNCHANGED cache

TimedOut(q) ==
  /\ LoopFree /\ asked[q] # Nameless
  /\ \/ Len(rest[q]) > 1 /\ NextServer(q)
     \/ Len(rest[q]) = 1 /\ GiveUp(q)
  /\ UNCHANGED <<sets, settings, loads, adding, upstream, late>>

(* Entries expire. *)
Expires(n) ==
  /\ LoopFree /\ cache[n] # Nobody /\ cache' = [cache EXCEPT ![n] = Nobody]
  /\ UNCHANGED <<sets, settings, loads, adding, upstream, asked, rest, late>>

LoadStep(l) ==
  \/ Discover(l) \/ Clear(l) \/ (\E f \in Lists : ReadFile(l, f))
  \/ ClearWhitelist(l) \/ ReadWhitelist(l) \/ Merge(l) \/ LoadReturns(l)

ResolverNext ==
  \/ \E l \in Loads :
       \/ Reload(l) \/ LoadStep(l)
       \/ \E f \in Lists : SelectList(l, f)
  \/ LoopDiscovers
  \/ \E n \in Names : WhitelistAdd(n) \/ Expires(n)
  \/ WhitelistAdded
  \/ \E u \in Upstreams : SetUpstream(u)
  \/ \E q \in Queries :
       Answered(q) \/ TimedOut(q) \/ \E n \in Names : Forward(q, n)

ResolverSpec == ResolverInit /\ [][ResolverNext]_resolverVars
-----------------------------------------------------------------------------
(* When no load is in progress, a name the whitelist file covers is not blocked, *)
(* however loads overlapped each other and the changes of the whitelist          *)
(* (blocklist.py:170-177, 208-223, 300-318).                                     *)
WhitelistWins ==
  AtRest /\ LoopFree =>
    \A n \in Names : (\E m \in white : Covers(m, n)) => ~IsBlocked(n)

(* When no load is in progress, a name is blocked exactly when the enabled lists *)
(* cover it and neither the whitelist nor an exception does, unless loads that   *)
(* were asked for different things overlapped or one took up what the event loop *)
(* had discovered (blocklist.py:129-159, 192-223).                               *)
MatchesLists ==
  AtRest /\ LoopFree /\ ~mixed => \A n \in Names : IsBlocked(n) = ShouldBlock(n)

(* After a change of the upstream only questions that were in flight then still  *)
(* wait for, or leave in the cache an answer of, another server                  *)
(* (resolver.py:127-135, 181-203).                                               *)
OfUpstream(s) == s \in {upstream[i] : i \in DOMAIN upstream}
LateOnly ==
  /\ \A n \in Names : cache[n] # Nobody /\ ~OfUpstream(cache[n]) => n \in late
  /\ \A q \in Queries : asked[q] # Nameless /\ ~OfUpstream(Head(rest[q])) => asked[q] \in late

=============================================================================
