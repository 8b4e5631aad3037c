---------------------------- MODULE LoginThrottle ----------------------------
(***************************************************************************)
(* The throttling of password sign-ins: failureLimiter                     *)
(* (src/internal/server/ratelimit.go), handleLogin, which consults and     *)
(* feeds one limiter per client address and one per username               *)
(* (auth_handlers.go), and realIP (proxy.go), which says what the client   *)
(* address is.                                                             *)
(*                                                                         *)
(* A limiter's mutex makes each of its operations atomic, but an attempt   *)
(* goes through several of them with a password verification in between,   *)
(* and attempts run concurrently.  Times are kept as ages: what has left   *)
(* the window all has age Window, so that the clock needs no bound.        *)
(***************************************************************************)
EXTENDS Naturals, Sequences, FiniteSets

CONSTANTS
    Attempts,      \* requests to sign in that may be in progress at once
    Clients,       \* addresses of clients
    Proxies,       \* the addresses in trustedProxies; clients may have some of them
    Junk,          \* an entry of a header that is no address
    Users,         \* usernames, trimmed and truncated
    FakeHops,      \* what clients put in X-Forwarded-For themselves
    Chains,        \* the trusted proxies a request may pass, client side first
    Limit,         \* loginFailuresPerIP and loginFailuresPerUser
    Window,        \* loginFailureWindow
    PruneSize      \* failureLimiterPruneSize

ASSUME AttemptsAssumption == IsFiniteSet(Attempts)
ASSUME LimitAssumption == Limit \in Nat \ {0}
ASSUME WindowAssumption == Window \in Nat \ {0}
ASSUME PruneSizeAssumption == PruneSize \in Nat

Addresses == Clients \union Proxies

ASSUME AddressAssumption == Junk \notin Addresses
ASSUME HeaderAssumption ==
    /\ FakeHops \subseteq Seq(Addresses \union {Junk})
    /\ Chains \subseteq Seq(Proxies)

VARIABLES
    byAddress,     \* loginFailuresByIP.failures, as ages, oldest first
    byUser,        \* loginFailuresByUser.failures
    at,            \* the step each attempt is at
    key,           \* each attempt's client address (ipKey) and username (userKey)
    waits,         \* whether an attempt found its address blocked
    origin,        \* ghost: where an attempt really comes from; Junk if it may forge that
    addressLog,    \* ghost: ages of all of an address's failures in the window
    userLog        \* ghost: those of a username since it last signed in

vars == <<byAddress, byUser, at, key, waits, origin, addressLog, userLog>>
-----------------------------------------------------------------------------
\* Mutant: the walk starts at the farthest hop, the client's own entry.
StopsAtFarthest(hops, i) == i = 1

\* The walk of forwardedClient from the nearest hop outwards ends at hop i:
\* a malformed entry, or an address that is no trusted proxy's.
StopsAt(hops, i) ==
    /\ hops[i] \notin Proxies
    /\ \A j \in (i + 1) .. Len(hops) : hops[j] \in Proxies

\* forwardedClient for an X-Forwarded-For with some hops; Junk if it has none
\* to offer.
Forwarded(hops) ==
    IF \A i \in DOMAIN hops : hops[i] \in Proxies THEN hops[1]
    ELSE LET i == CHOOSE j \in DOMAIN hops : StopsAt(hops, j)
         IN  IF hops[i] # Junk THEN hops[i]
             ELSE IF i < Len(hops) THEN hops[i + 1] ELSE Junk

\* RemoteAddr after realIP, as handleLogin keys it.
ClientAddress(peer, hops, realIP) ==
    LET client == IF hops = <<>> THEN realIP ELSE Forwarded(hops)
    IN  IF peer \in Proxies /\ client # Junk THEN client ELSE peer
-----------------------------------------------------------------------------
Stored(failures, k) == IF k \in DOMAIN failures THEN failures[k] ELSE <<>>

\* The first of a key's failures that is still within the window.
FirstRecent(times) ==
    CHOOSE i \in 1 .. Len(times) + 1 :
        /\ \A j \in 1 .. i - 1 : times[j] >= Window
        /\ i <= Len(times) => times[i] < Window

\* failureLimiter.recent
Recent(failures, k) ==
    LET times == Stored(failures, k) IN SubSeq(times, FirstRecent(times), Len(times))

\* failureLimiter.retryAfter is positive.
Blocked(failures, k) == Len(Recent(failures, k)) >= Limit

\* Mutant: the sweep takes every key that is not blocked.
SweptFree(failures) ==
    {k \in DOMAIN failures : Cardinality(DOMAIN failures) >= PruneSize
                             /\ ~ Blocked(failures, k)}

\* The keys that the sweep of fail deletes.
Swept(failures) ==
    {k \in DOMAIN failures : Cardinality(DOMAIN failures) >= PruneSize
                             /\ Recent(failures, k) = <<>>}

\* Mutant: one failure too many is kept.
NewestAndOne(times) ==
    IF Len(times) > Limit + 1 THEN SubSeq(times, Len(times) - Limit, Len(times)) ELSE times

Newest(times) ==
    IF Len(times) > Limit THEN SubSeq(times, Len(times) - Limit + 1, Len(times)) ELSE times

\* failureLimiter.fail
Failed(failures, k) ==
    [j \in (DOMAIN failures \ Swept(failures)) \union {k} |->
        IF j = k THEN Newest(Append(Recent(failures, k), 0)) ELSE failures[j]]

\* failureLimiter.reset
Forgotten(failures, k) == [j \in DOMAIN failures \ {k} |-> failures[j]]

\* A tick of the clock, for a key's failures and for the record of all of them.
Older(times) == [i \in DOMAIN times |-> IF times[i] < Window THEN times[i] + 1 ELSE Window]

StillRecorded(times) ==
    LET gone == CHOOSE n \in 0 .. Len(times) :
                    \A i \in DOMAIN times : i <= n <=> times[i] + 1 >= Window
    IN  [i \in 1 .. Len(times) - gone |-> times[i + gone] + 1]
-----------------------------------------------------------------------------
NoKey == [address |-> Junk, user |-> Junk]

Init ==
    /\ byAddress = [k \in {} |-> <<>>]
    /\ byUser = [k \in {} |-> <<>>]
    /\ at = [a \in Attempts |-> "idle"]
    /\ key = [a \in Attempts |-> NoKey]
    /\ waits = [a \in Attempts |-> FALSE]
    /\ origin = [a \in Attempts |-> Junk]
    /\ addressLog = [k \in Addresses |-> <<>>]
    /\ userLog = [k \in Users |-> <<>>]

limiters == <<byAddress, byUser, addressLog, userLog>>

\* The last proxy of the chain is the peer; each proxy before it, and the
\* client, have been appended to the header by the next one.
ThroughProxies(client, fake, chain) ==
    LET n == Len(chain)
    IN  ClientAddress(chain[n], fake \o <<client>> \o SubSeq(chain, 1, n - 1), Junk)

\* What a client's request may be keyed by, and whom it is sure to come from: it
\* comes directly, with any headers where the peer is trusted; through proxies
\* that append to X-Forwarded-For; or through one that sets X-Real-IP only and
\* passes on what the client put in X-Forwarded-For, which comes first.
Routes(client) ==
    LET sure == IF client \in Proxies THEN Junk ELSE client
    IN  {[address |-> ClientAddress(client, fake, real), origin |-> sure] :
            fake \in FakeHops, real \in Addresses \union {Junk}}
        \union {[address |-> ThroughProxies(client, fake, chain), origin |-> sure] :
            fake \in FakeHops, chain \in Chains \ {<<>>}}
        \union {[address |-> ClientAddress(p, fake, client),
                 origin |-> IF fake = <<>> THEN client ELSE Junk] :
            p \in Proxies, fake \in FakeHops}

\* A request reaches handleLogin with a username and a password.
Arrive(a, client, u) ==
    /\ at[a] = "idle"
    /\ at' = [at EXCEPT ![a] = "address"]
    /\ \E route \in Routes(client) :
          /\ key' = [key EXCEPT ![a] = [address |-> route.address, user |-> u]]
          /\ origin' = [origin EXCEPT ![a] = route.origin]
    /\ UNCHANGED <<limiters, waits>>

\* The two calls of retryAfter, before any hashing.
CheckAddress(a) ==
    /\ at[a] = "address"
    /\ at' = [at EXCEPT ![a] = "user"]
    /\ waits' = [waits EXCEPT ![a] = Blocked(byAddress, key[a].address)]
    /\ UNCHANGED <<limiters, key, origin>>

Done(a) ==
    /\ at' = [at EXCEPT ![a] = "idle"]
    /\ waits' = [waits EXCEPT ![a] = FALSE]
    /\ key' = [key EXCEPT ![a] = NoKey]
    /\ origin' = [origin EXCEPT ![a] = Junk]

MustWait(a) == waits[a] \/ Blocked(byUser, key[a].user)

\* Mutant: a refused attempt counts as a failure too.
RefuseCounts(a) ==
    /\ at[a] = "user" /\ MustWait(a)
    /\ Len(addressLog[key[a].address]) <= Limit
    /\ at' = [at EXCEPT ![a] = "failAddress"]
    /\ UNCHANGED <<limiters, key, waits, origin>>

\* 429 Too Many Requests
Refuse(a) ==
    /\ at[a] = "user" /\ MustWait(a)
    /\ Done(a)
    /\ UNCHANGED limiters

\* Mutant: only the address is throttled.
AdmitUser(a) ==
    /\ at[a] = "user" /\ ~ waits[a]
    /\ at' = [at EXCEPT ![a] = "verify"]
    /\ UNCHANGED <<limiters, key, waits, origin>>

Admit(a) ==
    /\ at[a] = "user" /\ ~ MustWait(a)
    /\ at' = [at EXCEPT ![a] = "verify"]
    /\ UNCHANGED <<limiters, key, waits, origin>>

\* auth.Login: wrong credentials, a new session, or an error.
Verify(a) ==
    /\ at[a] = "verify"
    /\ \E next \in {"failAddress", "succeeded"} : at' = [at EXCEPT ![a] = next]
    /\ UNCHANGED <<limiters, key, waits, origin>>

LoginError(a) ==
    /\ at[a] = "verify"
    /\ Done(a)
    /\ UNCHANGED limiters

FailAddress(a) ==
    /\ at[a] = "failAddress"
    /\ at' = [at EXCEPT ![a] = "failUser"]
    /\ byAddress' = Failed(byAddress, key[a].address)
    /\ addressLog' = [addressLog EXCEPT ![key[a].address] = Append(@, 0)]
    /\ UNCHANGED <<byUser, userLog, key, waits, origin>>

FailUser(a) ==
    /\ at[a] = "failUser"
    /\ byUser' = Failed(byUser, key[a].user)
    /\ userLog' = [userLog EXCEPT ![key[a].user] = Append(@, 0)]
    /\ Done(a)
    /\ UNCHANGED <<byAddress, addressLog>>

\* A sign-in clears the username's failures, never the address's.
Succeed(a) ==
    /\ at[a] = "succeeded"
    /\ byUser' = Forgotten(byUser, key[a].user)
    /\ userLog' = [userLog EXCEPT ![key[a].user] = <<>>]
    /\ Done(a)
    /\ UNCHANGED <<byAddress, addressLog>>

\* Time passes.
Tick ==
    /\ byAddress' = [k \in DOMAIN byAddress |-> Older(byAddress[k])]
    /\ byUser' = [k \in DOMAIN byUser |-> Older(byUser[k])]
    /\ addressLog' = [k \in Addresses |-> StillRecorded(addressLog[k])]
    /\ userLog' = [k \in Users |-> StillRecorded(userLog[k])]
    /\ UNCHANGED <<at, key, waits, origin>>
-----------------------------------------------------------------------------
AttemptStep(a) ==
    \/ \E c \in Clients, u \in Users : Arrive(a, c, u)
    \/ CheckAddress(a) \/ Refuse(a) \/ Admit(a) \/ Verify(a) \/ LoginError(a)
    \/ FailAddress(a) \/ FailUser(a) \/ Succeed(a)

Next == Tick \/ \E a \in Attempts : AttemptStep(a)

\* The clock goes on; nothing is assumed of the attempts.
Fairness == WF_vars(Tick)

Spec == Init /\ [][Next]_vars /\ Fairness
-----------------------------------------------------------------------------
Steps == {"idle", "address", "user", "verify", "failAddress", "failUser", "succeeded"}

\* A limiter's table: at most Limit failures of a key.
Table(failures, keys) ==
    /\ DOMAIN failures \subseteq keys
    /\ failures = [k \in DOMAIN failures |-> failures[k]]
    /\ \A k \in DOMAIN failures : failures[k] \in Seq(0 .. Window) /\ Len(failures[k]) <= Limit

(***************************************************************************)
(* Every variable has its type: in particular a limiter keeps at most      *)
(* Limit failures of a key ("at most limit of them", ratelimit.go), however *)
(* many attempts record one at the same time.                              *)
(***************************************************************************)
TypeOK ==
    /\ Table(byAddress, Addresses)
    /\ Table(byUser, Users)
    /\ at \in [Attempts -> Steps]
    /\ key \in [Attempts -> {NoKey} \union [address : Addresses, user : Users]]
    /\ waits \in [Attempts -> BOOLEAN]
    /\ origin \in [Attempts -> Clients \union {Junk}]
    /\ addressLog \in [Addresses -> Seq(0 .. Window - 1)]
    /\ userLog \in [Users -> Seq(0 .. Window - 1)]

(***************************************************************************)
(* Truncating a key's failures to the newest Limit and sweeping keys out   *)
(* of the table never blocks or frees a key: it is blocked exactly when    *)
(* Limit failures recorded for it since its last sign-in are still in the  *)
(* window (retryAfter, fail, recent).                                      *)
(***************************************************************************)
ThrottleExact ==
    /\ \A k \in Addresses : Blocked(byAddress, k) <=> Len(addressLog[k]) >= Limit
    /\ \A k \in Users : Blocked(byUser, k) <=> Len(userLog[k]) >= Limit

(***************************************************************************)
(* handleLogin checks first and records later, so attempts that passed the *)
(* check together can all fail; but within a window no address, and no     *)
(* username between two sign-ins, collects more failures than one less     *)
(* than the limit and one for each attempt that may be under way.          *)
(***************************************************************************)
WindowBounded ==
    /\ \A k \in Addresses : Len(addressLog[k]) < Limit + Cardinality(Attempts)
    /\ \A k \in Users : Len(userLog[k]) < Limit + Cardinality(Attempts)

(***************************************************************************)
(* An attempt is counted against the address it comes from, whatever its   *)
(* headers say, where the proxies vouch for it (realIP, forwardedClient):  *)
(* a client outside of the trusted ranges comes directly or through        *)
(* proxies that append to X-Forwarded-For, or one sets X-Real-IP for a     *)
(* client that sends no X-Forwarded-For itself.  Behind a proxy that       *)
(* passes a client's own X-Forwarded-For on, and from a trusted range, an  *)
(* attempt may be counted against any address: "so they can't be spoofed"  *)
(* (README.md:78) does not hold of these.                                  *)
(***************************************************************************)
CountedAtOrigin == \A a \in Attempts : origin[a] # Junk => key[a].address = origin[a]

(***************************************************************************)
(* A block ends by itself ("until the oldest failure leaves the window",   *)
(* ratelimit.go): attempts made during it do not prolong it for ever.      *)
(***************************************************************************)
BlockEnds ==
    /\ \A k \in Addresses : Blocked(byAddress, k) ~> ~ Blocked(byAddress, k)
    /\ \A k \in Users : Blocked(byUser, k) ~> ~ Blocked(byUser, k)
=============================================================================
