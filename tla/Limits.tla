--------------------------------- MODULE Limits ---------------------------------
(***************************************************************************)
(* What the API process keeps in memory between requests: the rate         *)
(* limiter's sliding windows, and the clients cached for custom API keys.  *)
(* Neither call awaits anything, so each is one step.                      *)
(***************************************************************************)
EXTENDS Integers, SequencesExt, FiniteSetsExt, Functions

CONSTANTS
    Callers,      \* keys of the rate limiter: a model and an address
    MaxRequests,
    Window,
    MaxKeys,
    ApiKeys,      \* custom API keys
    Ttl,
    MaxSize,
    MaxTime       \* bound: the last tick of the clock

ASSUME LimitsAssumption ==
    /\ {MaxRequests, Window, Ttl, MaxSize} \subseteq Nat \ {0}
    /\ {MaxKeys, MaxTime} \subseteq Nat

VARIABLES
    now,       \* time.monotonic()
    requests,  \* requests[k]: the times kept for caller k
    granted,   \* history: granted[k]: the times of all requests allowed to k
    refused,   \* history: the callers refused at this very time
    cache,     \* cache[k]: when the client cached for k was made
    order,     \* the keys of the cache, as the dict lists them
    dropped    \* history: the entry the last call evicted, and what was cached then

lvars == <<now, requests, granted, refused, cache, order, dropped>>

Kept(k) == IF k \in DOMAIN requests THEN requests[k] ELSE <<>>

LimitsInit ==
    /\ now = 0
    /\ requests = <<>> /\ granted = [k \in Callers |-> <<>>] /\ refused = {}
    /\ cache = <<>> /\ order = <<>> /\ dropped = {}

-------------------------------------------------------------------------------
(* RateLimiter.is_allowed *)

\* Mutant: a request at the very edge of the window is forgotten a tick too early.
Expired_Early(t) == t <= now - Window + 1

Expired(t) == t <= now - Window

\* The times ascend, as the clock does, so those that have expired come first.
Recent(times) == SubSeq(times, Cardinality({i \in DOMAIN times : Expired(times[i])}) + 1, Len(times))

Stale(times) == times = <<>> \/ Expired(Last(times))

\* The caller's own entry is gone, or there and not stale, when the others are looked at.
Evicted(kept) == IF Cardinality(DOMAIN kept) > MaxKeys
                 THEN Restrict(kept, {k \in DOMAIN kept : ~Stale(kept[k])})
                 ELSE kept

IsAllowed(k) == LET recent == Recent(Kept(k))
                    others == Evicted(IF recent = <<>> THEN Restrict(requests, DOMAIN requests \ {k})
                                      ELSE requests)
                IN
    /\ IF Len(recent) >= MaxRequests
       THEN /\ requests' = others /\ refused' = refused \cup {k}
            /\ UNCHANGED granted
       ELSE /\ requests' = [j \in DOMAIN others \cup {k} |->
                              IF j = k THEN Append(recent, now) ELSE others[j]]
            /\ granted' = [granted EXCEPT ![k] = Append(@, now)]
            /\ UNCHANGED refused
    /\ UNCHANGED <<now, cache, order, dropped>>
-------------------------------------------------------------------------------
(* ClientCache._get_custom *)

Fresh(k) == k \in DOMAIN cache /\ now - cache[k] < Ttl

\* Mutant: the entry that was first put into the dict is evicted.
Oldest_FirstPut == 1

\* The place in the dict of the oldest entry, of several the first.
Oldest == CHOOSE i \in DOMAIN order :
             \A j \in DOMAIN order : \/ cache[order[i]] < cache[order[j]]
                                     \/ cache[order[i]] = cache[order[j]] /\ i <= j

GetFresh(k) == /\ Fresh(k)
               /\ dropped' = {}
               /\ UNCHANGED <<now, requests, granted, refused, cache, order>>

Full == Cardinality(DOMAIN cache) >= MaxSize

\* An expired entry of k itself is overwritten in its place.
MakeClient(k) ==
    LET left == IF Full THEN Restrict(cache, DOMAIN cache \ {order[Oldest]}) ELSE cache
        kept == IF Full THEN RemoveAt(order, Oldest) ELSE order
    IN  /\ ~Fresh(k)
        /\ cache' = [j \in DOMAIN left \cup {k} |-> IF j = k THEN now ELSE left[j]]
        /\ order' = IF k \in DOMAIN left THEN kept ELSE Append(kept, k)
        /\ dropped' = IF Full THEN {[key |-> order[Oldest], among |-> {j \in ApiKeys : Fresh(j)}]} ELSE {}
        /\ UNCHANGED <<now, requests, granted, refused>>

Get(k) == GetFresh(k) \/ MakeClient(k)

Tick == /\ now < MaxTime
        /\ now' = now + 1
        /\ refused' = {}
        /\ UNCHANGED <<requests, granted, cache, order, dropped>>

Limiting == Tick \/ \E k \in Callers : IsAllowed(k)
Caching  == Tick \/ \E k \in ApiKeys : Get(k)

LimitsNext == Limiting \/ Caching

LimitsSpec == LimitsInit /\ [][LimitsNext]_lvars
-------------------------------------------------------------------------------
(* Properties *)

Within(k, from, to) == Cardinality({i \in DOMAIN granted[k] : granted[k][i] \in from .. to})

\* In no window of Window ticks is a caller allowed more than MaxRequests, whatever
\* was evicted meanwhile; and no one is refused who had less.
RateKept ==
    \A k \in Callers :
        /\ \A t \in 0 .. now : Within(k, t, t + Window - 1) <= MaxRequests
        /\ k \in refused => Within(k, now - Window + 1, now) >= MaxRequests

\* The cache never holds more than MaxSize clients, and a client that is not expired has
\* to go only if none is expired: replacing an expired one costs no other.
FreshSurvives ==
    /\ Cardinality(DOMAIN cache) <= MaxSize
    /\ ToSet(order) = DOMAIN cache /\ Len(order) = Cardinality(DOMAIN cache)
    /\ \A d \in dropped : d.key \in d.among => Cardinality(d.among) = MaxSize
===============================================================================
