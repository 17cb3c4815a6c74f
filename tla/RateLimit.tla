----------------------------- MODULE RateLimit ------------------------------
(***************************************************************************)
(* The rate limiter (broker/ratelimit.py): a fixed window per caller,      *)
(* opened by the first request after the last window.  It reads the wall   *)
(* clock, which may be set back; "real" is the time that passes.           *)
(***************************************************************************)
EXTENDS Integers, Sequences, FiniteSets

CONSTANTS
    Callers,
    Limit, Window,          \* per minute, 60 seconds
    MaxReal,                \* how long the instance runs
    MaxBack                 \* by how much, in all, the clock is set back

\* Assumed of the constants; the module of a run asserts it of its instances.
RateLimitAssumption == {Limit, Window, MaxReal, MaxBack} \subseteq Nat /\ Limit > 0 /\ Window > 0

VARIABLES
    real, back,     \* the time that has passed, and by how much the clock is behind it
    state,          \* _state: the start of the window and the count, per caller
    admitted,       \* ghost: when each caller was let through
    refused         \* per caller: whether its last request was refused

vars == <<real, back, state, admitted, refused>>

now == MaxBack + real - back
NoWindow == [start |-> -1, count |-> 0]

Init ==
    /\ real = 0 /\ back = 0
    /\ state = [c \in Callers |-> NoWindow]
    /\ admitted = [c \in Callers |-> <<>>]
    /\ refused = [c \in Callers |-> FALSE]

\* Mutant: a clock that is behind the window opens a new one, too.
CurrentAbs(c) == IF state[c] = NoWindow \/ now - state[c].start >= Window \/ now < state[c].start
                 THEN [start |-> now, count |-> 0] ELSE state[c]

Current(c) == IF state[c] = NoWindow \/ now - state[c].start >= Window
              THEN [start |-> now, count |-> 0] ELSE state[c]

\* allow, for a submission or a poll.
Allow(c) ==
    /\ LET w == Current(c) IN
       /\ refused' = [refused EXCEPT ![c] = w.count >= Limit]
       /\ IF w.count >= Limit THEN UNCHANGED <<state, admitted>>
          ELSE /\ state' = [state EXCEPT ![c] = [w EXCEPT !.count = @ + 1]]
               /\ admitted' = [admitted EXCEPT ![c] = Append(@, real)]
    /\ UNCHANGED <<real, back>>

Tick == real < MaxReal /\ real' = real + 1 /\ UNCHANGED <<back, state, admitted, refused>>

SetBack == back < MaxBack /\ back' = back + 1 /\ UNCHANGED <<real, state, admitted, refused>>

Next == Tick \/ SetBack \/ \E c \in Callers : Allow(c)

Spec == Init /\ [][Next]_vars

-----------------------------------------------------------------------------
(* Properties *)

\* "Bounds action submissions and request-status polls per caller per minute": in any minute
\* that really passes, whatever is done to the clock, a caller gets through at most
\* 2 * Limit - 1 times, the end of one window and the whole of the next.
BurstBound ==
    \A c \in Callers : \A t \in 0 .. real :
        LET in == {i \in DOMAIN admitted[c] : admitted[c][i] >= t /\ admitted[c][i] < t + Window}
        IN Cardinality(in) <= 2 * Limit - 1

\* The inductive invariant behind it, for one caller: its windows are at least Window of real
\* time apart, because the clock is never ahead of that, and hold at most Limit requests
\* each.  So what came Limit or more requests before the first of the current window was over
\* a Window ago, and of 2 * Limit requests in a row the first and the last are a Window apart.
WindowSound(c) ==
    LET a == admitted[c]
        first == Len(a) - state[c].count + 1
    IN /\ \A i \in DOMAIN a : a[i] <= real
       /\ \A i, j \in DOMAIN a : i <= j => a[i] <= a[j]
       /\ IF a = <<>> THEN state[c] = NoWindow
          ELSE /\ first \in DOMAIN a /\ state[c].start >= MaxBack + a[first] - back
               /\ \A i \in 1 .. first - Limit : a[i] + Window <= a[first]
       /\ \A i \in 1 .. Len(a) - (2 * Limit - 1) : a[i] + Window <= a[i + 2 * Limit - 1]

RateInv ==
    /\ real \in Nat /\ back \in 0 .. MaxBack
    /\ state \in [Callers -> [start : Int, count : 0 .. Limit]]
    /\ admitted \in [Callers -> Seq(Nat)]
    /\ \A c \in Callers : WindowSound(c)

\* A refusal that comes early enough for the instance to see the end of it.
Refused(c) == refused[c] /\ real + Window + MaxBack <= MaxReal
LetThrough(c) == ~refused[c]

=============================================================================
