----------------------------- MODULE RateLimit ------------------------------
(***************************************************************************)
(* The team server's rate limiter (internal/server/ratelimit.go): a fixed  *)
(* window per known secret, one shared window for every other caller,      *)
(* expired windows evicted when the next request arrives.  The map is      *)
(* under one mutex, so a request is one step.  /healthz is never counted.  *)
(***************************************************************************)
EXTENDS Integers, FiniteSets

CONSTANTS
    Secrets,      \* configured member secrets
    Strangers,    \* presented secrets the server does not know
    PerMinute,    \* requests one secret may make in a window
    Window,       \* the window, in ticks of the clock
    Anonymous,    \* the bucket of every stranger
    NoWindow, NoRequest

Callers == Secrets \cup Strangers
Buckets == Secrets \cup {Anonymous}
Ages == 0..Window - 1

\* A request let through: whose, how many ticks ago, and its number in its window.
Grant == [by : Callers, ago : Ages, nth : 1..PerMinute]

ASSUME LimiterAssumption ==
    /\ PerMinute \in Nat \ {0} /\ Window \in Nat \ {0}
    /\ Secrets \cap Strangers = {} /\ Anonymous \notin Callers
    /\ NoWindow \notin [age : Nat, count : Nat]
    /\ NoRequest \notin [caller : Callers, allowed : BOOLEAN]

VARIABLES
    windows,   \* the windows, each with its age; counts saturate at one too many
    grants,    \* history: the grants of the last Window ticks
    last       \* history: the last request and its answer, this tick

limiterVars == <<windows, grants, last>>

LimiterTypeOK ==
    /\ windows \in [Buckets -> [age : 0..Window, count : 1..PerMinute + 1] \cup {NoWindow}]
    /\ grants \subseteq Grant
    /\ last \in [caller : Callers, allowed : BOOLEAN] \cup {NoRequest}

LimiterInit ==
    /\ windows = [b \in Buckets |-> NoWindow]
    /\ grants = {}
    /\ last = NoRequest

\* Seeded fault: one bucket for all.
RateKeyShared(caller) == Anonymous

\* rateKey: the presented secret when the server knows it.
RateKey(caller) == IF caller \in Secrets THEN caller ELSE Anonymous

Expired(w) == w # NoWindow /\ w.age >= Window

Evicted == [b \in Buckets |-> IF Expired(windows[b]) THEN NoWindow ELSE windows[b]]

\* allow: a first request opens a window, a further one is counted in it.
Request(caller) ==
    LET b == RateKey(caller)
        w == Evicted[b]
        opened == w = NoWindow
        count == IF opened THEN 1 ELSE w.count + 1
        allowed == opened \/ count <= PerMinute
    IN
    /\ windows' = [Evicted EXCEPT ![b] =
         [age |-> IF opened THEN 0 ELSE w.age,
          count |-> IF count > PerMinute THEN PerMinute + 1 ELSE count]]
    /\ grants' = IF allowed THEN grants \cup {[by |-> caller, ago |-> 0, nth |-> count]} ELSE grants
    /\ last' = [caller |-> caller, allowed |-> allowed]

Tick ==
    /\ windows' = [b \in Buckets |->
         IF windows[b] = NoWindow \/ windows[b].age = Window THEN windows[b]
         ELSE [windows[b] EXCEPT !.age = @ + 1]]
    /\ grants' = {[g EXCEPT !.ago = @ + 1] : g \in {h \in grants : h.ago + 1 \in Ages}}
    /\ last' = NoRequest

LimiterNext == Tick \/ \E c \in Callers : Request(c)

LimiterSpec == LimiterInit /\ [][LimiterNext]_limiterVars

\* The callers one budget is for.
Sharing(b) == {c \in Callers : IF c \in Secrets THEN b = c ELSE b = Anonymous}

GrantedTo(callers) == Cardinality({g \in grants : g.by \in callers})

\* A secret is refused only after its own requests filled its budget within the
\* last window: nobody else's traffic, known or not, uses it up.
RunawayIsolated ==
    last # NoRequest /\ ~last.allowed /\ last.caller \in Secrets
      => GrantedTo({last.caller}) >= PerMinute

\* A fixed window may be straddled, so any span of its length grants less than
\* twice the budget, to one secret and to all strangers together.
TrafficBounded == \A b \in Buckets : GrantedTo(Sharing(b)) < 2 * PerMinute

\* A runaway takes no other's budget, and no caller is granted more than its own.
CallersApart == LimiterTypeOK /\ RunawayIsolated /\ TrafficBounded
=============================================================================
