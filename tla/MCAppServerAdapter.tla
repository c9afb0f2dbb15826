------------------------- MODULE MCAppServerAdapter -------------------------
EXTENDS AppServerAdapter, TLC

CONSTANTS i1, i2, q1, q2, t1

\* All items belong to one turn.
OneTurn == [i \in Items |-> t1]

\* Requests are interchangeable, and so are the items of one turn.
AdapterSymmetry == Permutations(Items) \cup Permutations(Requests)

-----------------------------------------------------------------------------
(* Inputs of the authorization kernel.                                     *)

AtMostTwo(S) == {{}} \cup {{x, y} : x, y \in S}

Plain(at) == [at |-> at, plain |-> TRUE]
Odd(at)   == [at |-> at, plain |-> FALSE]
Tree(at)  == [at |-> at, plain |-> TRUE, tree |-> TRUE]
Exact(at) == [at |-> at, plain |-> TRUE, tree |-> FALSE]

FileScope(access, resource) ==
  [kind |-> "file", access |-> access, family |-> "none", resource |-> resource,
   canonical |-> NoScope]

Update(p)      == [kind |-> "update", path |-> p, old |-> p]
Rename(p, new) == [kind |-> "rename", path |-> new, old |-> p]

SomePaths ==
  {Plain(<<"src", "a">>), Plain(<<"src", "env">>), Plain(<<"src", ".git">>), Plain(<<"a">>),
   Odd(<<"src", "a">>), Odd(<<"a">>), Plain(<<"src", "*">>), Plain(<<"deny">>)}

SomeProposals ==
  [changes : {{Update(p)} : p \in SomePaths}
               \cup {{Update(p), Update(Plain(<<"src">>))} : p \in SomePaths}
               \cup {{Rename(p, Plain(<<"src", "a">>))} : p \in SomePaths},
   hashed : BOOLEAN, grantRoot : BOOLEAN, preview : {"crashed", "failed", "passed"},
   text : {{}, {"read_only"}, {"high"}, {"blank"}},
   context : [flags : {{}, {"dirty_worktree"}, {"unknown"}}, head : {"expected", "unstated"},
              network : {"none"}, credential : {"none", "unknown"}, credentialDiff : BOOLEAN]]

BelowSrc == {FileScope("write", Tree(<<"src">>)), FileScope("read", Exact(<<"*">>))}

\* Scopes of files, written and read, and of things that are read or run.
SomeResources ==
  {Tree(<<"src">>), Exact(<<"src">>), Tree(<<"src", "a">>), Exact(<<"src", "a">>),
   Exact(<<"*">>), Tree(<<"*">>), [Exact(<<"*">>) EXCEPT !.plain = FALSE],
   Exact(<<"deny">>), Tree(<<>>)}

SomeScopes ==
  {[FileScope(access, resource) EXCEPT !.canonical = canonical] :
     access \in {"read", "write"}, resource \in SomeResources,
     canonical \in {NoScope} \cup [action : {"fs.read", "fs.write"}, resource : SomeResources]}

OtherScopes ==
  {[kind |-> kind, access |-> access, family |-> "none", resource |-> Exact(<<"src">>),
    canonical |-> NoScope] : kind \in {"tool", "network", "process"}, access \in {"read", "execute"}}

PlainScopes == {FileScope(access, r) : access \in {"read", "write"}, r \in SomeResources} \cup OtherScopes

SomeFacts ==
  [changes : {{}, {Update(Plain(<<"src", "a">>))}, {Update(Plain(<<"src", "env">>))},
              {Update(Odd(<<"a">>))}, {Rename(Plain(<<"a">>), Plain(<<"src", "a">>))}},
   sensitivePaths : {{}, {Plain(<<"src", "env">>)}},
   flags : {{}} \cup {{flag} : flag \in Flags},
   head : {"expected", "unstated", "mismatch"},
   network : {"none", "requested", "unknown"}, credential : {"none", "unknown"}]

Unremarkable ==
  {f \in SomeFacts : f.flags = {} /\ f.head = "expected" /\ f.network = "none" /\ f.credential = "none"}

\* All pairs of a request and a ceiling on facts that decide little by
\* themselves.
SomeCases ==
  {[facts |-> f, semantic |-> 0, requested |-> requested, ceiling |-> ceiling] :
     f \in Unremarkable, requested \in AtMostTwo(PlainScopes),
     ceiling \in {{s} : s \in PlainScopes} \cup {BelowSrc}}

\* Facts, and what they become when one thing gets worse.
Requested == {{FileScope("write", Tree(<<"src">>))}, {FileScope("read", Exact(<<"src">>))}}

SomeCompared ==
  [facts : SomeFacts, semantic : {0}, requested : Requested, ceiling : {BelowSrc}]

WithFacts(x, gs) == {[x EXCEPT !.facts = g] : g \in gs}

OneWorse(x) ==
  LET f == x.facts
  IN  WithFacts(x, {[f EXCEPT !.flags = @ \cup {flag}] : flag \in Flags}
                     \cup {[f EXCEPT !.head = head] : head \in {"unstated", "mismatch"}}
                     \cup {[f EXCEPT !.network = access] : access \in {"requested", "unknown"}}
                     \cup {[f EXCEPT !.credential = access] : access \in {"requested", "unknown"}}
                     \cup {[f EXCEPT !.changes = @ \cup g.changes] : g \in Unremarkable}
                     \cup {[f EXCEPT !.sensitivePaths = @ \cup {Plain(<<"src", "env">>)}]})
        \cup {[x EXCEPT !.semantic = 2], [x EXCEPT !.ceiling = {}]}

SomeGrants ==
  [scopes : {{[action |-> "fs.write", resource |-> Tree(<<"src">>)]},
             {[action |-> "fs.write", resource |-> Exact(<<"deny">>)]}},
   bound : [Bindings -> {"none", "x", "y"}], over : BOOLEAN]

SomeGrantCases ==
  [grants : AtMostTwo({g \in SomeGrants : g.bound["principal"] = "none" \/ g.bound["task"] = "none"}),
   requested : {[action |-> "fs.write", resource |-> Exact(<<"src", "a">>)]},
   context : [Bindings -> {"none", "x"}]]
=============================================================================
