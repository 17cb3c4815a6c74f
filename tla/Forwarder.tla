------------------------------ MODULE Forwarder ------------------------------
(***************************************************************************)
(* The REST forwarder (toolstack_forwarder/): a manifest is validated once *)
(* and then turns calls of the broker into requests of one operation, with *)
(* secrets from SPS; the response may rotate secrets, which are written    *)
(* back one by one before what the caller sees is redacted.  The server    *)
(* has one thread.  Header names are records of a name and its case.       *)
(***************************************************************************)
EXTENDS Integers, Sequences

CONSTANTS
    Declared, Writable,     \* the secrets of the manifest, and those declared writable
    RawOps,                 \* operations as a manifest may spell them
    CallerHeaders,          \* headers a caller may send: [name, upper, ref]
    Bodies,                 \* bodies a caller may send, None included
    VarValues,              \* kinds of values of a template variable
    MaxCalls, MaxValue,
    None

\* Assumed of the constants; the module of a run asserts it of its instances.
ForwarderAssumption ==
    /\ Writable \subseteq Declared
    /\ \A o \in RawOps : /\ Len(o.rules) \in Nat /\ DOMAIN o.rules = 1 .. Len(o.rules)
                         /\ o.redact \in BOOLEAN \cup {None}
    /\ None \notin {"missing_variable", "invalid_variable", "header_not_allowed", "caller_secret_reference",
                     "secret_not_allowed", "missing_secret", "body_not_allowed", "missing_body", "body_too_large"}

VARIABLES
    op,         \* the loaded operation
    sps,        \* values at SPS; version numbers
    cache,      \* SecretClient._cache
    at,         \* where do_POST is
    request,    \* the outbound request
    todo,       \* the rules whose values are not written yet, by place
    extracted,  \* the values extracted, by the place of their rule
    before,     \* ghost: the cache when the call began
    reply,      \* the reply to the broker: [code, body]
    next, calls

vars == <<op, sps, cache, at, request, todo, extracted, before, reply, next, calls>>

Lower(h) == h.name

-----------------------------------------------------------------------------
(* config.py *)

\* The secrets of the operation's body template.
TemplateRefs(o) == IF o.template = None THEN {} ELSE o.template

\* validate_secret_placement
PlacementOK(o) ==
    /\ o.allowed \subseteq Declared
    /\ o.template # None => o.kind = "text"
    /\ o.headerRefs \cup TemplateRefs(o) \subseteq o.allowed

RulesOK(o) == /\ \A i \in DOMAIN o.rules : o.rules[i] \in Writable
              /\ o.rules # <<>> => o.redact # None

\* _load_operations, for one operation
Loads(o) ==
    /\ PlacementOK(o) /\ RulesOK(o)
    /\ o.headers \cap o.allowedHeaders = {}

-----------------------------------------------------------------------------
(* request_builder.py: an error code, or the request *)

ValidPathVariable(v) == v = "word"
ValidQueryVariable(v) == v \in {"word", "slash"}

\* The first of two errors, in the order of the code.
First(e, f) == IF e # None THEN e ELSE f
Refused(bad, code) == IF bad THEN code ELSE None

\* _hydrate_path: a path variable is required, a query pair without its variable is dropped.
PathError(a) ==
    First(Refused(a.p = "absent", "missing_variable"),
    First(Refused(~ValidPathVariable(a.p), "invalid_variable"),
          Refused(a.q # "absent" /\ ~ValidQueryVariable(a.q), "invalid_variable")))

\* _build_headers, for the caller's header
HeaderError(o, h) ==
    IF h = None THEN None ELSE
    First(Refused(Lower(h) \notin o.allowedHeaders, "header_not_allowed"),
    First(Refused(h.ref, "caller_secret_reference"),
          Refused(Lower(h) \in o.headers, "header_not_allowed")))

\* _substitute_secrets for the operator's templates
SecretError(o, refs) ==
    First(Refused(~(refs \subseteq o.allowed), "secret_not_allowed"),
          Refused(~(refs \subseteq DOMAIN cache), "missing_secret"))

\* _build_body
BodyError(o, b) ==
    First(Refused(b = "ref", "caller_secret_reference"),
    First(Refused(o.template # None /\ b # None, "body_not_allowed"),
    First(SecretError(o, TemplateRefs(o)),
    First(Refused(o.kind = "none" /\ b # None, "body_not_allowed"),
    First(Refused(o.kind # "none" /\ o.template = None /\ b = None, "missing_body"),
          Refused(b = "big", "body_too_large"))))))

\* build_request
BuildError(o, a) ==
    First(PathError(a), First(HeaderError(o, a.header), First(SecretError(o, o.headerRefs), BodyError(o, a.body))))

OutboundRequest(o, a) ==
    [path |-> a.p, query |-> a.q,
     headers |-> (IF a.header = None THEN {} ELSE {[name |-> Lower(a.header), from |-> "caller"]})
                  \cup {[name |-> n, from |-> "operator"] : n \in o.headers},
     secrets |-> [s \in o.headerRefs \cup TemplateRefs(o) |-> cache[s]]]

-----------------------------------------------------------------------------
(* server.py, rules.py, outbound.py *)

Reply(code, body) ==
    /\ at' = "idle" /\ reply' = [code |-> code, body |-> body]
    /\ request' = None /\ todo' = {}

Init ==
    /\ op \in {o \in RawOps : Loads(o)}
    /\ sps = [s \in Declared |-> 0]
    /\ cache = sps
    /\ at = "idle" /\ request = None /\ todo = {} /\ extracted = <<>> /\ before = cache
    /\ reply = None /\ next = 1 /\ calls = 0

\* refresh and refresh_one, from SPS; a failure leaves the cache as it was.
Refresh(S) ==
    /\ at = "idle" /\ calls < MaxCalls
    /\ calls' = calls + 1 /\ extracted' = <<>>
    /\ \/ cache' = [s \in Declared |-> IF s \in S THEN sps[s] ELSE cache[s]] /\ Reply("refreshed", FALSE)
       \/ UNCHANGED cache /\ Reply("dropped", FALSE)
    /\ before' = cache'
    /\ UNCHANGED <<op, sps, next>>

\* do_POST up to outbound.send.
Build(a) ==
    /\ at = "idle" /\ calls < MaxCalls
    /\ calls' = calls + 1 /\ before' = cache /\ extracted' = <<>>
    /\ IF BuildError(op, a) # None
       THEN Reply(BuildError(op, a), FALSE)
       ELSE /\ request' = OutboundRequest(op, a) /\ at' = "send"
            /\ UNCHANGED <<reply, todo>>
    /\ UNCHANGED <<op, sps, cache, next>>

\* outbound.send: no response to use.
SendFails ==
    /\ at = "send"
    /\ \E code \in {"outbound_unreachable", "response_too_large", "dropped"} : Reply(code, FALSE)
    /\ UNCHANGED <<op, sps, cache, extracted, before, next, calls>>

\* A response whose status matches the rules of M, and whose body holds new values for those of F.
\* apply_secret_update_rules: every matching rule must extract before any write.
Apply(M, F) ==
    /\ at = "send"
    /\ IF M \subseteq F
       THEN /\ todo' = M /\ extracted' = [i \in M |-> next + i] /\ at' = "write"
            /\ UNCHANGED <<reply, request>>
       ELSE Reply("rule_extraction_failed", FALSE) /\ extracted' = <<>>
    /\ next' = next + Len(op.rules)
    /\ UNCHANGED <<op, sps, cache, before, calls>>

\* The writeback whose turn it is.
Turn(i) == at = "write" /\ i \in todo /\ \A j \in todo : i <= j

\* One writeback: SPS first, then the cache.
Write(i) ==
    /\ Turn(i)
    /\ sps' = [sps EXCEPT ![op.rules[i]] = extracted[i]]
    /\ cache' = [cache EXCEPT ![op.rules[i]] = extracted[i]]
    /\ todo' = todo \ {i}
    /\ UNCHANGED <<op, at, request, extracted, before, reply, next, calls>>

\* Mutant: the cache is updated before SPS has answered.
WriteFailsCached(i) ==
    /\ Turn(i)
    /\ cache' = [cache EXCEPT ![op.rules[i]] = extracted[i]]
    /\ Reply("secret_update_failed", FALSE)
    /\ UNCHANGED <<op, sps, extracted, before, next, calls>>

\* A writeback fails, or its answer is lost after SPS has taken it: the rest is not written.
WriteFails(i) ==
    /\ Turn(i)
    /\ \/ UNCHANGED sps
       \/ sps' = [sps EXCEPT ![op.rules[i]] = extracted[i]]
    /\ Reply("secret_update_failed", FALSE)
    /\ UNCHANGED <<op, cache, extracted, before, next, calls>>

\* redact_response, then the reply.
Respond ==
    /\ at = "write" /\ todo = {}
    /\ Reply("ok", op.redact # TRUE)
    /\ UNCHANGED <<op, sps, cache, extracted, before, next, calls>>

\* Somebody else writes a secret.
OperatorSets(s) ==
    /\ next < MaxValue
    /\ sps' = [sps EXCEPT ![s] = next + 1] /\ next' = next + 1
    /\ UNCHANGED <<op, cache, at, request, todo, extracted, before, reply, calls>>

Arguments == [p : VarValues, q : VarValues, header : CallerHeaders, body : Bodies]

Next ==
    \/ Refresh(Declared) \/ (\E s \in Declared : Refresh({s}) \/ OperatorSets(s))
    \/ \E a \in Arguments : Build(a)
    \/ SendFails
    \/ \E M, F \in SUBSET DOMAIN op.rules : Apply(M, F)
    \/ \E i \in DOMAIN op.rules : Write(i) \/ WriteFails(i)
    \/ Respond

Spec == Init /\ [][Next]_vars

-----------------------------------------------------------------------------
(* Properties *)

\* A request that goes out has its path filled with a valid variable, no invalid one in its
\* query, every operator's header once and as the operator wrote it, and no secret beyond
\* the operation's allowed_secrets.
RequestWellFormed ==
    request # None =>
        /\ ValidPathVariable(request.path) /\ request.query \in {"absent", "word", "slash"}
        /\ \A n \in op.headers : {h \in request.headers : h.name = n} = {[name |-> n, from |-> "operator"]}
        /\ DOMAIN request.secrets \subseteq op.allowed

\* config.py and request_builder.py agree: an operation that loads is never refused for its
\* secret placement when it is called.
LoadedOpsUsable == reply # None => reply.code # "secret_not_allowed"

\* The cache is as it was when the call began, but for what the rules at K have written, each
\* secret by the last of them.
Written(K) ==
    \A s \in Declared :
        LET R == {i \in K : op.rules[i] = s} IN
        \/ R = {} /\ cache[s] = before[s]
        \/ \E i \in R : (\A j \in R : j <= i) /\ cache[s] = extracted[i]

\* What the reply says of secret updates is true of the cache: a success has every extracted
\* value, the last of each secret; a failed extraction has written nothing; a failed
\* write has written the values before it and none after.
RepliesTellWrites ==
    at = "idle" /\ reply # None =>
        CASE reply.code = "ok" -> Written(DOMAIN extracted)
          [] reply.code = "secret_update_failed" ->
               \E k \in DOMAIN extracted : Written({i \in DOMAIN extracted : i < k})
          [] OTHER -> cache = before

\* A response that rotates a secret is shown to the caller only where the operator decided
\* against redaction, and never together with a failure.
RotationPrivate ==
    reply # None /\ reply.body => reply.code = "ok" /\ (DOMAIN extracted # {} => op.redact = FALSE)

\* The inductive invariant behind these: the values are written in the order of their rules.
WritesInv ==
    /\ at \in {"idle", "send", "write"}
    /\ DOMAIN extracted \subseteq DOMAIN op.rules /\ \A i \in DOMAIN extracted : extracted[i] \in Nat
    /\ at = "send" => cache = before
    /\ at = "write" => /\ todo \subseteq DOMAIN extracted /\ Written(DOMAIN extracted \ todo)
                       /\ \A i \in todo, j \in DOMAIN extracted \ todo : j < i

ForwarderInv ==
    /\ op \in RawOps /\ Loads(op) /\ next \in Nat
    /\ cache \in [Declared -> Nat] /\ before \in [Declared -> Nat] /\ sps \in [Declared -> Nat]
    /\ WritesInv /\ (reply # None /\ reply.body => op.redact # TRUE)
    /\ RequestWellFormed /\ LoadedOpsUsable /\ RepliesTellWrites /\ RotationPrivate

=============================================================================
