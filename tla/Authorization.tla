--------------------------- MODULE Authorization ---------------------------
(***************************************************************************)
(* The authorization kernel (packages/authorization-kernel) and the        *)
(* capability matcher it rests on (packages/capability): pure functions    *)
(* from what is known of a proposed change to a decision, "authorized",    *)
(* approved by policy, left to a person, or blocked.                       *)
(*                                                                         *)
(* A path is the sequence of its components and whether it is spelled in   *)
(* its normal form: x/../a is a, but not spelled so.  What a component may *)
(* not be called is a set, as is what is sensitive.  The set of flags of a *)
(* facts record holds the facts that are either there or not.              *)
(*                                                                         *)
(* The properties quantify over constants, so that TLC evaluates them on   *)
(* small sets of inputs and they can be proved for all.                    *)
(***************************************************************************)
EXTENDS Naturals, Sequences

CONSTANTS
  Components,           \* the names a path is made of
  Star, DenyName,       \* "*" and "deny", which mean something as a resource
  SensitiveComponents,  \* SENSITIVE_PATH_COMPONENTS and the like
  UnsafeComponents,     \* reserved or with an unsafe character; Star has one
  Cases,                \* decisions to look at: facts, semantic risk, request, ceiling
  Compared,             \* decisions to compare with
  Worsened(_),          \*   others that nothing speaks more for
  ScopeCases,           \* capability scopes to look at
  GrantCases            \* questions to the matcher: grants, requested scope, context

-----------------------------------------------------------------------------
(* Capability scopes.  A resource is a path, or with tree the path and      *)
(* everything below it ("a/**").                                           *)

Paths     == [at : Seq(Components), plain : BOOLEAN]
Resources == [at : Seq(Components), plain : BOOLEAN, tree : BOOLEAN]

Exactly(p)    == [at |-> p.at, plain |-> p.plain, tree |-> FALSE]
Normalized(p) == [p EXCEPT !.plain = TRUE]

Literally(r, name) == r.plain /\ ~r.tree /\ r.at = <<name>>

\* The root is normalised to "." and is no prefix of the normal forms below it.
Below(prefix, at) ==
  /\ prefix # <<>>
  /\ Len(prefix) <= Len(at)
  /\ \A n \in 1..Len(prefix) : at[n] = prefix[n]

\* The two names that mean something are compared as spelled, all else in
\* normal form, which file resources are brought into.
ResourceImplies(grant, requested) ==
  /\ ~Literally(grant, DenyName)
  /\ \/ Literally(grant, Star)
     \/ grant.at = requested.at /\ (grant.tree \/ ~requested.tree)
     \/ grant.tree /\ Below(grant.at, requested.at)

KnownActions ==
  {"fs.read", "fs.write", "shell.exec", "network.egress", "mcp.call", "memory.read",
   "memory.write", "secret.read", "external.write", "external.execute", "external.admin"}

Kinds    == {"file", "tool", "network", "secret", "process", "external"}
Accesses == {"read", "write", "execute", "admin"}

NoScope == [action |-> "none", resource |-> [at |-> <<>>, plain |-> TRUE, tree |-> FALSE]]

\* CapabilityScopeSchema: a structured scope, whose constraints may name a
\* family and a canonical form of the scope.  Only file resources are
\* normalised: any other has one spelling.
Scopes ==
  {s \in [kind : Kinds, access : Accesses, family : {"mcp", "memory", "none"},
          resource : Resources,
          canonical : [action : KnownActions \cup {"none"}, resource : Resources]] :
     /\ s.kind = "secret" => s.access = "read"
     /\ s.kind = "external" => s.access # "read"
     /\ s.kind # "file" => s.resource.plain /\ s.canonical.resource.plain}

\* The action of a structured scope; what has none is refused as unknown.
CanonicalAction(s) ==
  CASE s.kind = "file" /\ s.access = "read"     -> "fs.read"
    [] s.kind = "file" /\ s.access = "write"    -> "fs.write"
    [] s.kind = "tool" /\ s.access = "execute"  ->
         IF s.family = "mcp" THEN "mcp.call" ELSE "shell.exec"
    [] s.kind = "network" /\ s.access # "read"  -> "network.egress"
    [] s.kind = "secret" /\ s.access = "read"   -> "secret.read"
    [] s.kind = "process" /\ s.family = "memory" /\ s.access = "read"  -> "memory.read"
    [] s.kind = "process" /\ s.family = "memory" /\ s.access = "write" -> "memory.write"
    [] s.kind = "external" /\ s.access = "write"   -> "external.write"
    [] s.kind = "external" /\ s.access = "execute" -> "external.execute"
    [] s.kind = "external" /\ s.access = "admin"   -> "external.admin"
    [] OTHER -> "unknown"

\* parseCapabilityScope throws on an action it does not know.
CapabilityImplies(grant, requested) ==
  /\ grant.action \in KnownActions
  /\ requested.action = grant.action
  /\ ResourceImplies(grant.resource, requested.resource)

Structured(s) == [action |-> CanonicalAction(s), resource |-> s.resource]

\* The canonical form is taken for the scope only if it says the same.
CanonicalMatches(s) ==
  /\ CapabilityImplies(s.canonical, Structured(s))
  /\ CapabilityImplies(Structured(s), s.canonical)

Canonical(s) == IF CanonicalMatches(s) THEN s.canonical ELSE Structured(s)

isSideEffectingCapability(s) == s.access # "read"

-----------------------------------------------------------------------------
(* Facts.                                                                  *)

Flags ==
  {"command", "permission", "protected_branch", "dirty_worktree", "external_target",
   "release_action", "inexact_targets", "ambiguous", "unknown", "unsafe_governed_path"}

ChangeKinds == {"create", "update", "delete", "rename"}

\* old is the path a rename leaves, and the new path of any other change.
Changes ==
  {c \in [kind : ChangeKinds, path : Paths, old : Paths] : c.kind # "rename" => c.old = c.path}

\* head: whether HEAD is the commit the caller expects, which it may leave
\* unstated.
Facts ==
  [changes : SUBSET Changes, sensitivePaths : SUBSET Paths, flags : SUBSET Flags,
   head : {"expected", "unstated", "mismatch"},
   network : {"none", "requested", "unknown"}, credential : {"none", "requested", "unknown"}]

Touched(changes) == {c.path : c \in changes} \cup {c.old : c \in changes}

isSafeGovernedPath(p) ==
  /\ p.plain
  /\ p.at # <<>>
  /\ \A n \in 1..Len(p.at) : p.at[n] \notin UnsafeComponents

Unsafe(changes) == \E p \in Touched(changes) : ~isSafeGovernedPath(p)

isSensitiveGovernedPath(p) == \E n \in 1..Len(p.at) : p.at[n] \in SensitiveComponents

deriveSensitivePaths(changes) ==
  {p \in {Normalized(q) : q \in Touched(changes)} : isSensitiveGovernedPath(p)}

\* Mutant: unsafe spellings are looked for after the paths are normalised.
deriveAfterNormalizingMutant(changes, context) ==
  [changes        |-> {[c EXCEPT !.path = Normalized(@), !.old = Normalized(@)] : c \in changes},
   sensitivePaths |-> deriveSensitivePaths(changes),
   flags          |-> context.flags,
   head           |-> context.head,
   network        |-> context.network,
   credential     |-> IF context.credentialDiff THEN "requested" ELSE context.credential]

\* Unsafe spellings are looked for before the paths are normalised, and leave
\* a mark when they are.  context: the facts the caller knows, and whether the
\* diffs look like credentials.
deriveCapabilityFacts(changes, context) ==
  LET unsafe == Unsafe(changes)
  IN  [changes        |-> {[c EXCEPT !.path = Normalized(@), !.old = Normalized(@)] : c \in changes},
       sensitivePaths |-> deriveSensitivePaths(changes),
       flags          |-> context.flags \cup
                          (IF unsafe THEN {"unsafe_governed_path", "inexact_targets"} ELSE {}),
       head           |-> context.head,
       network        |-> context.network,
       credential     |-> IF context.credentialDiff THEN "requested" ELSE context.credential]

-----------------------------------------------------------------------------
(* The decision.                                                           *)

Unknown(f) == f.flags \cap {"unknown", "unsafe_governed_path"} # {}

UnsafePath(f) == Unsafe(f.changes) \/ "unsafe_governed_path" \in f.flags

CriticalFacts(f) ==
  \/ UnsafePath(f)
  \/ f.sensitivePaths # {} \/ deriveSensitivePaths(f.changes) # {}
  \/ f.network = "requested"
  \/ f.credential # "none"
  \/ f.flags \cap {"external_target", "release_action"} # {}

HighFacts(f) ==
  \/ \E c \in f.changes : c.kind \in {"delete", "rename"}
  \/ f.flags \cap {"command", "permission", "protected_branch", "dirty_worktree",
                   "inexact_targets", "ambiguous"} # {}
  \/ f.head = "mismatch"
  \/ f.network = "unknown"
  \/ Unknown(f)

\* RISK_RANK: low is 0, critical is 3.
scoreCapabilityFactsRisk(f) ==
  IF CriticalFacts(f) THEN 3
  ELSE IF HighFacts(f) THEN 2
  ELSE IF f.changes # {} THEN 1 ELSE 0

maxRisk(left, right) == IF left >= right THEN left ELSE right

isPolicyAutoCandidate(f, risk) ==
  /\ risk <= 1
  /\ f.changes # {}
  /\ \A c \in f.changes : c.kind \in {"create", "update"}
  /\ ~Unsafe(f.changes)
  /\ f.head = "expected"
  /\ f.network = "none" /\ f.credential = "none"
  /\ f.sensitivePaths = {} /\ deriveSensitivePaths(f.changes) = {}
  /\ f.flags = {}

Covers(scopes, scope) == \E g \in scopes : CapabilityImplies(Canonical(g), scope)

WriteTo(p) == [action |-> "fs.write", resource |-> Exactly(p)]

FileWrites(scopes) == {s \in scopes : s.kind = "file" /\ s.access = "write"}

\* Mutant: the path that a rename leaves need not be requested.
newPathsAreRequestedMutant(f, requested) ==
  \A c \in f.changes : Covers(FileWrites(requested), WriteTo(c.path))

factualFileWritesAreRequested(f, requested) ==
  \A p \in Touched(f.changes) : Covers(FileWrites(requested), WriteTo(p))

\* narrowToCapabilityCeiling; the rest of the request is missing.
AllowedByCeiling(requested, ceiling) == {r \in requested : Covers(ceiling, Canonical(r))}

\* Mutant: what is critical is for a person to decide, known or not.
CriticalFirstMutant(f) ==
  /\ ~CriticalFacts(f)
  /\ \/ f.flags \cap {"ambiguous", "inexact_targets"} # {}
     \/ Unknown(f)
     \/ f.network = "unknown" \/ f.credential = "unknown"

\* A request with side effects is blocked on what is not known.
UnknownWrite(f) ==
  \/ f.flags \cap {"ambiguous", "inexact_targets"} # {}
  \/ Unknown(f)
  \/ f.network = "unknown" \/ f.credential = "unknown"

SideEffectRequested(f, requested) ==
  f.changes # {} \/ \E r \in requested : isSideEffectingCapability(r)

Blocked(f, requested, ceiling) ==
  \/ AllowedByCeiling(requested, ceiling) # requested
  \/ f.changes # {} /\ ~factualFileWritesAreRequested(f, requested)
  \/ ~(deriveSensitivePaths(f.changes) \subseteq f.sensitivePaths)
  \/ SideEffectRequested(f, requested) /\ (UnsafePath(f) \/ UnknownWrite(f))

Disposition(f, semantic, requested, ceiling) ==
  LET effective == maxRisk(semantic, scoreCapabilityFactsRisk(f))
  IN  CASE Blocked(f, requested, ceiling) -> "blocked"
        [] ~Blocked(f, requested, ceiling) ->
             IF ~SideEffectRequested(f, requested) /\ effective < 2 THEN "authorized"
             ELSE IF isPolicyAutoCandidate(f, effective) THEN "policy_auto"
             ELSE "human_required"

\* A blocked request keeps what it may read.
AuthorizedCapabilities(f, requested, ceiling) ==
  {s \in AllowedByCeiling(requested, ceiling) :
     Blocked(f, requested, ceiling) => ~isSideEffectingCapability(s)}

\* What a text says of risk: the kinds of markers it holds; "blank" if it holds
\* nothing at all.
TextMarkers == {"blank", "critical", "high", "medium", "read_only"}

classifySemanticRiskSignal(text) ==
  CASE "blank" \in text    -> 2
    [] "critical" \in text -> 3
    [] "high" \in text     -> 2
    [] "medium" \in text   -> 1
    [] text = {"read_only"} -> 0
    [] OTHER               -> 1

-----------------------------------------------------------------------------
(* Grants.  A grant may be bound to a principal, a task and a run; context   *)
(* is what the caller says these are.  over: expired or revoked.            *)

Bindings == {"principal", "task", "run"}

\* explainGrantAvailability.
Usable(grant, context) ==
  /\ ~grant.over
  /\ \A b \in Bindings : grant.bound[b] = "none" \/ context[b] = grant.bound[b]

IsDeny(scope) == scope.action \in KnownActions /\ Literally(scope.resource, DenyName)

\* explainCapabilityDecision: a usable denial of the action outweighs every grant.
Allowed(grants, requested, context) ==
  LET usable == UNION {g.scopes : g \in {h \in grants : Usable(h, context)}}
  IN  /\ ~\E s \in usable : IsDeny(s) /\ s.action = requested.action
      /\ \E s \in usable : CapabilityImplies(s, requested)

Decisions ==
  [facts : Facts, semantic : 0..3, requested : SUBSET Scopes, ceiling : SUBSET Scopes]

ASSUME AuthorizationAssumption ==
  /\ {Star, DenyName} \subseteq Components /\ Star # DenyName
  /\ SensitiveComponents \subseteq Components
  /\ UnsafeComponents \subseteq Components /\ Star \in UnsafeComponents
  /\ Cases \subseteq Decisions
  /\ Compared \subseteq Decisions
  /\ \A x \in Compared : Worsened(x) \subseteq Decisions
  /\ ScopeCases \subseteq Scopes
  /\ \A x \in GrantCases : DOMAIN x.context = Bindings

-----------------------------------------------------------------------------
(* Properties.                                                             *)

Of(x) == Disposition(x.facts, x.semantic, x.requested, x.ceiling)

Strictness == [authorized |-> 0, policy_auto |-> 1, human_required |-> 2, blocked |-> 3]

HeadOrder   == [expected |-> 0, unstated |-> 1, mismatch |-> 2]
AccessOrder == [none |-> 0, requested |-> 1, unknown |-> 2]

\* Nothing speaks more for y than for x.  Two steps are no worsening: the
\* first change of a request that only announced side effects (there was
\* nothing to approve by policy before), and to list a sensitive path that
\* was missing from the list.
NoBetter(x, y) ==
  LET f == x.facts  g == y.facts
  IN  /\ f.flags \subseteq g.flags
      /\ f.changes \subseteq g.changes
      /\ f.changes = {} => g.changes = {} \/ ~SideEffectRequested(f, x.requested)
      /\ f.sensitivePaths \subseteq g.sensitivePaths
      /\ deriveSensitivePaths(f.changes) \cap g.sensitivePaths \subseteq f.sensitivePaths
      /\ HeadOrder[f.head] <= HeadOrder[g.head]
      /\ AccessOrder[f.network] <= AccessOrder[g.network]
      /\ AccessOrder[f.credential] <= AccessOrder[g.credential]
      /\ x.semantic <= y.semantic
      /\ x.requested = y.requested
      /\ y.ceiling \subseteq x.ceiling

\* authorizeCapabilityFacts: whatever is added to the facts, the risk a text
\* signals or taken from the ceiling, the decision does not become more
\* lenient: no fact hides another.
WorseFactsNeverRelax ==
  \A x \in Compared : \A y \in Worsened(x) :
    NoBetter(x, y) => Strictness[Of(x)] <= Strictness[Of(y)]

AsksForEverything(requested) == \E r \in requested : Literally(Canonical(r).resource, Star)

\* authorizeCapabilityFacts: what is not blocked, be it approved by policy or
\* shown to a person, writes only where the ceiling allows it, the path a
\* rename leaves included, although only the request is compared with the
\* ceiling and the facts only with the request.  (A request for "*" is the
\* exception: a ceiling of "*/**" is taken to imply it.)
UnblockedIsWithinCeiling ==
  \A x \in Cases :
    (Of(x) # "blocked" /\ ~AsksForEverything(x.requested)) =>
      \A p \in Touched(x.facts.changes) : Covers(x.ceiling, WriteTo(p))

\* authorizeReadOnly of the SDK adapter, which passes on the read scopes of
\* its ceiling: no scope with a side effect is authorized, and no change is
\* let through, whatever the scopes call themselves.
ReadOnlyCeilingGrantsNoWrite ==
  \A x \in Cases :
    (\A s \in x.ceiling : ~isSideEffectingCapability(s)) =>
      /\ \A s \in AuthorizedCapabilities(x.facts, x.requested, x.ceiling) :
           ~isSideEffectingCapability(s)
      /\ x.facts.changes # {} => Of(x) = "blocked"

\* getCanonicalScopeConstraint: the canonical form a scope carries never
\* implies a scope that its structured form does not, "*" for a resource that
\* merely begins with it excepted.
CanonicalIsNoWider ==
  \A s \in ScopeCases, t \in ScopeCases :
    /\ CapabilityImplies(Canonical(s), Structured(t))
    /\ ~Literally(Canonical(s).resource, Star)
    => CapabilityImplies(Structured(s), Structured(t))

\* explainCapabilityDecision: a caller that leaves out whom or what it asks
\* for is allowed nothing that it would not be allowed otherwise, unless a
\* denial is bound to what it left out.
LessContextNeverAllows ==
  \A x \in GrantCases, b \in Bindings :
    (Allowed(x.grants, x.requested, [x.context EXCEPT ![b] = "none"])
       /\ ~\E g \in x.grants : g.bound[b] # "none" /\ \E s \in g.scopes : IsDeny(s))
      => Allowed(x.grants, x.requested, x.context)

\* However a ceiling, a request or a grant is spelled or bound, it never lets
\* through more than it says.
CeilingHolds ==
  /\ UnblockedIsWithinCeiling /\ ReadOnlyCeilingGrantsNoWrite
  /\ CanonicalIsNoWider /\ LessContextNeverAllows
=============================================================================
