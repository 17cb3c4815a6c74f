--------------------------------- MODULE Mcp ---------------------------------
(***************************************************************************)
(* Tools by their MCP names: the broker's own endpoint (broker/mcp.py) and *)
(* the stdio adapter (client/mcp_server.py), which lists the broker's      *)
(* tools and keeps their names.  An id is a sequence of words, joined with *)
(* "__" when it is written; so is a name, and the name of an operation is  *)
(* its tool's words followed by its own.                                   *)
(***************************************************************************)
EXTENDS Naturals, Sequences, FiniteSets, Functions

CONSTANTS
    Ops,            \* operations a catalog may hold: <<tool, op>>, both sequences of words
    Rest,           \* those of rest tools
    MaxSteps,
    None

\* Assumed of the constants; the module of a run asserts it of its instances.
McpAssumption == Ops \subseteq Seq(STRING) \X Seq(STRING) /\ None \notin Ops

VARIABLES
    registry,       \* the loaded catalog, in its order
    effect,         \* the caller's policy
    names,          \* Server._names of the adapter
    shown,          \* per name, the operation the broker's own listing last had under it
    everShown,      \* ghost: every operation a listing has held
    last,           \* ghost: the last tools/call
    steps

vars == <<registry, effect, names, shown, everShown, last, steps>>

Name(o) == o[1] \o o[2]
NoNames == [n \in {} |-> None]
Registered == Range(registry)

\* A catalog: each of some operations once, in an order.
Catalogs == UNION {{s \in [1 .. n -> Ops] : IsInjective(s)} : n \in 0 .. Cardinality(Ops)}

Init ==
    /\ registry \in Catalogs
    /\ effect \in [Ops -> {"allow", "review", "deny"}]
    /\ names = NoNames /\ shown = NoNames /\ everShown = {}
    /\ last = None /\ steps = 0

Step == steps < MaxSteps /\ steps' = steps + 1

Reload(c) == Step /\ registry' = c /\ UNCHANGED <<effect, names, shown, everShown, last>>
SetPolicy(o, e) == Step /\ effect' = [effect EXCEPT ![o] = e] /\ UNCHANGED <<registry, names, shown, everShown, last>>

\* What the registry has at some places, and their operations by name: the last of two with
\* one name wins.
At(I) == {registry[i] : i \in I}
Named(I, n) == {i \in I : Name(registry[i]) = n}
ByName(I) ==
    [n \in {Name(o) : o \in At(I)} |->
        registry[CHOOSE i \in Named(I, n) : \A j \in Named(I, n) : j <= i]]

\* _allowed, by place: no rest tools here; the adapter reads GET /v1/tools, which has them.
Allowed(rest) ==
    {i \in DOMAIN registry : effect[registry[i]] # "deny" /\ (rest \/ registry[i] \notin Rest)}

List ==
    /\ Step
    /\ shown' = ByName(Allowed(FALSE)) /\ everShown' = everShown \cup At(Allowed(FALSE))
    /\ UNCHANGED <<registry, effect, names, last>>

ListAdapter ==
    /\ Step
    /\ names' = ByName(Allowed(TRUE))
    /\ everShown' = everShown \cup At(Allowed(TRUE))
    /\ UNCHANGED <<registry, effect, shown, last>>

\* _resolve_name
Resolve(n) ==
    LET byName == ByName({i \in DOMAIN registry : registry[i] \notin Rest}) IN
    IF n \in DOMAIN byName THEN byName[n]
    ELSE IF Len(n) < 2 THEN None ELSE <<SubSeq(n, 1, 1), Tail(n)>>

\* request_lifecycle.submit, by its outcome and the operation it audits.
Outcome(o) ==
    IF o \notin Registered THEN "not_found"
    ELSE CASE effect[o] = "deny" -> "denied"
           [] effect[o] = "review" -> "pending_approval"
           [] OTHER -> "completed"

\* A denied or unknown operation reads as an unknown tool.
Answer(outcome) == IF outcome \in {"denied", "not_found"} THEN "unknown tool" ELSE outcome

Record(n, listing, submitted, answer) ==
    last' = [name |-> n, submitted |-> submitted, answer |-> answer,
             listed |-> IF n \in DOMAIN listing THEN listing[n] ELSE None,
             usable |-> {o \in Registered : effect[o] # "deny"},
             homonyms |-> {o \in Registered : Name(o) = n},
             fresh |-> {o \in Ops : Name(o) = n /\ o \notin everShown}]

\* tools/call at the broker.
CallBroker(n) ==
    /\ Step
    /\ LET o == Resolve(n) IN
       IF o = None \/ (o \in Registered /\ o \in Rest) THEN Record(n, shown, None, "unknown tool")
       ELSE Record(n, shown, o, Answer(Outcome(o)))
    /\ UNCHANGED <<registry, effect, names, shown, everShown>>

\* A call over the limit is refused before its name is looked at.
Throttled(n) ==
    /\ Step
    /\ Record(n, shown, None, "rate_limited")
    /\ UNCHANGED <<registry, effect, names, shown, everShown>>

\* Mutant: the adapter cuts the name instead of keeping a map.
CallAdapterSplit(n) ==
    /\ Step
    /\ n \in DOMAIN names
    /\ LET o == <<SubSeq(n, 1, 1), Tail(n)>> IN Record(n, names, o, Outcome(o))
    /\ UNCHANGED <<registry, effect, names, shown, everShown>>

\* tools/call at the adapter: a name it does not know makes it list again.
CallAdapter(n) ==
    /\ Step
    /\ LET known == IF n \in DOMAIN names THEN names ELSE ByName(Allowed(TRUE)) IN
       /\ names' = known
       /\ IF n \in DOMAIN known THEN Record(n, known, known[n], Outcome(known[n]))
                             ELSE Record(n, known, None, "unknown tool")
       /\ everShown' = everShown \cup (IF n \in DOMAIN names THEN {} ELSE At(Allowed(TRUE)))
    /\ UNCHANGED <<registry, effect, shown>>

Next ==
    \/ \E c \in Catalogs : Reload(c)
    \/ \E o \in Ops, e \in {"allow", "deny"} : SetPolicy(o, e)
    \/ List \/ ListAdapter
    \/ \E n \in {Name(o) : o \in Ops} \cup {<<"x">>} : CallBroker(n) \/ CallAdapter(n) \/ Throttled(n)

Spec == Init /\ [][Next]_vars

-----------------------------------------------------------------------------
(* Properties *)

\* "An exact match against the registry ... disambiguates a __ inside a tool/op name": a name
\* from a listing, while its operation is registered and permitted and no other registered one
\* has that name, submits that operation.
RunsWhatWasListed ==
    /\ last # None /\ last.listed # None /\ last.listed \in last.usable /\ last.answer # "rate_limited"
    /\ last.homonyms = {last.listed}
    => last.submitted = last.listed

\* "never reveal an op they may not use": a name that only operations never listed to the
\* caller have is answered as an unknown tool unless one of them may be used now.
HidesUnlisted ==
    last # None /\ last.fresh = {o \in Ops : Name(o) = last.name} /\ last.fresh \cap last.usable = {} =>
        last.answer \in {"unknown tool", "rate_limited"}

\* The inductive invariant behind these.  A map holds operations under their own names, and what
\* it holds has been listed; the broker's own listing has no rest tools.
MapSound(map) == \A n \in DOMAIN map : map[n] \in everShown /\ Name(map[n]) = n

McpInv ==
    /\ registry \in Catalogs /\ effect \in [Ops -> {"allow", "review", "deny"}]
    /\ everShown \subseteq Ops /\ MapSound(names) /\ MapSound(shown)
    /\ \A n \in DOMAIN shown : shown[n] \notin Rest
    /\ RunsWhatWasListed /\ HidesUnlisted

=============================================================================
