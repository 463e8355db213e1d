---------------------------- MODULE MediaSidecar ----------------------------
(***************************************************************************)
(* The data plane of media-sidecar: POST /mint (internal/mint/handler.go)  *)
(* turns a path into a signed, expiring URL, GET /media/...                *)
(* (internal/serve/handler.go) verifies (internal/sign) and serves it.     *)
(*                                                                         *)
(* Each handler is the sequence of its reads of the shared world: the file *)
(* system, which the workload changes at any time, and the clock.  Callers *)
(* are goroutines of POST /mint, Fetchers of GET /media.  Time counts in   *)
(* ticks; a URL carries whole Unix seconds.  A signature is the tuple it   *)
(* authenticates, with the key: no other tuple has the same one.           *)
(***************************************************************************)
EXTENDS Fence, Integers, FiniteSets

CONSTANTS
    Roots,           \* the sidecar's media roots, in order
    FileSystems,     \* the states the workload may bring the file system into
    Requests,        \* paths clients name
    Ttls,            \* values of ttl_seconds clients send
    DefaultTTL,      \* ticks
    MaxTTL,          \* ticks
    TicksPerSecond,
    DurationLimit,   \* a time.Duration is in -DurationLimit .. DurationLimit - 1
    Keys,            \* signing keys the sidecar may be (re)started with
    Callers, Fetchers,
    MaxTime,         \* bound on the clock
    MaxIssued        \* bound on the URLs minted

Dispositions == {"inline", "attachment"}
SentDispositions == Dispositions \cup {"", "other"}
Status == {200, 400, 401, 403, 404, 500}

\* What NewHandler accepts, what a duration is able to hold, and what files and paths are.
SidecarAssumption ==
    /\ TicksPerSecond \in Nat \ {0}
    /\ DefaultTTL \in Nat \ {0} /\ MaxTTL \in Nat /\ DefaultTTL <= MaxTTL
    /\ MaxTTL < DurationLimit
    /\ DurationLimit \in Nat
    /\ Ttls \subseteq Int
    /\ Roots \in Seq(Seq(STRING))
    /\ \A F \in FileSystems : IsFileSystem(F)
    /\ \A p \in Requests : p.absolute \in BOOLEAN /\ p.names \in Seq(STRING)

ASSUME SidecarAssumption

VARIABLES
    fs,      \* the file system
    now,     \* the clock
    key,     \* the signing key of the running sidecar
    mint,    \* per caller: the handler of its POST /mint
    fetch,   \* per fetcher: the handler of its GET /media
    issued   \* history: the URLs minted, each with how it came about

vars == <<fs, now, key, mint, fetch, issued>>

-----------------------------------------------------------------------------
(* Durations, signatures, statuses. *)

\* int64 arithmetic on a time.Duration.
Wrapped(d) == ((d + DurationLimit) % (2 * DurationLimit)) - DurationLimit

Lifetime_ConvertsFirst(ttl) ==
    IF ttl = 0 THEN DefaultTTL
    ELSE IF Wrapped(ttl * TicksPerSecond) >= MaxTTL THEN MaxTTL
    ELSE Wrapped(ttl * TicksPerSecond)

Lifetime_ClampsLate(ttl) ==
    IF ttl = 0 THEN DefaultTTL
    ELSE IF ttl > MaxTTL \div TicksPerSecond + 1 THEN MaxTTL
    ELSE Wrapped(ttl * TicksPerSecond)

\* The lifetime for a ttl_seconds: clamped in seconds, then converted.
Lifetime(ttl) ==
    IF ttl = 0 THEN DefaultTTL
    ELSE IF ttl >= MaxTTL \div TicksPerSecond THEN MaxTTL
    ELSE Wrapped(ttl * TicksPerSecond)

\* time.Time.Unix: whole seconds, rounded down.
Unix(t) == t \div TicksPerSecond

Signature_WithoutExpiry(k, path, exp, disp) == <<k, path, disp>>

\* Sign(secret, pathB64, exp, disposition)
Signature(k, path, exp, disp) == <<k, path, exp, disp>>

\* now.After(time.Unix(exp, 0))
Expired(exp) == now > exp * TicksPerSecond

Disposition(sent) == IF sent = "" THEN "attachment" ELSE sent

StatusOf(resolution) ==
    CASE resolution = "escape"  -> 403
      [] resolution = "missing" -> 404
      [] OTHER                  -> 500

-----------------------------------------------------------------------------
NoUrl == <<>>

\* The local variables of the two handlers.  seen is the states of the file system the
\* handler has looked at; url, of a fetch, is the URL whose signature it presented.
NoMint == [at |-> "idle", status |-> 0, request |-> <<>>, disp |-> "", ttl |-> 0,
           path |-> <<>>, seen |-> {}]
NoFetch == [at |-> "idle", status |-> 0, url |-> NoUrl, path |-> <<>>, exp |-> 0,
            disp |-> "", when |-> 0, seen |-> {}, body |-> <<>>]

Init ==
    /\ fs \in FileSystems
    /\ now \in 0..(TicksPerSecond - 1)
    /\ key \in Keys
    /\ mint = [c \in Callers |-> NoMint]
    /\ fetch = [f \in Fetchers |-> NoFetch]
    /\ issued = {}

Tick ==
    /\ now < MaxTime
    /\ now' = now + 1
    /\ UNCHANGED <<fs, key, mint, fetch, issued>>

\* The workload rearranges its files.
Mutate ==
    /\ fs' \in FileSystems \ {fs}
    /\ UNCHANGED <<now, key, mint, fetch, issued>>

\* The sidecar's container restarts, possibly with a new MEDIA_SIGNING_SECRET: requests in
\* flight are gone, the URLs it has handed out are not.
Restart ==
    /\ key' \in Keys
    /\ mint' = [c \in Callers |-> NoMint]
    /\ fetch' = [f \in Fetchers |-> NoFetch]
    /\ UNCHANGED <<fs, now, issued>>

-----------------------------------------------------------------------------
(* POST /mint *)

Answer(c, status) ==
    mint' = [mint EXCEPT ![c] = [NoMint EXCEPT !.at = "done", !.status = status]]

Refusal_NegativeAllowed(authorized, sent, ttl) ==
    IF ~authorized THEN 401
    ELSE IF Disposition(sent) \notin Dispositions THEN 400
    ELSE 200

\* The checks that look at the request alone, in the handler's order.  A request with no
\* path, a malformed one, or one for another route or method is refused likewise.
Refusal(authorized, sent, ttl) ==
    IF ~authorized THEN 401
    ELSE IF Disposition(sent) \notin Dispositions \/ ttl < 0 THEN 400
    ELSE 200

MintRequest(c) ==
    /\ mint[c].at = "idle"
    /\ Cardinality(issued) < MaxIssued
    /\ \E authorized \in BOOLEAN, p \in Requests, sent \in SentDispositions, ttl \in Ttls :
         LET refusal == Refusal(authorized, sent, ttl)
         IN  IF refusal # 200
             THEN Answer(c, refusal)
             ELSE mint' = [mint EXCEPT ![c] =
                    [NoMint EXCEPT !.at = "resolve", !.request = p,
                                   !.disp = Disposition(sent), !.ttl = ttl]]
    /\ UNCHANGED <<fs, now, key, fetch, issued>>

MintResolve(c) ==
    /\ mint[c].at = "resolve"
    /\ LET r == Resolve(fs, Roots, mint[c].request)
       IN  IF r.status # "ok"
           THEN Answer(c, StatusOf(r.status))
           ELSE mint' = [mint EXCEPT ![c].at = "stat", ![c].path = r.path,
                                     ![c].seen = {fs}]
    /\ UNCHANGED <<fs, now, key, fetch, issued>>

Mintable_Anything(node) == TRUE

\* "a signed URL for a directory would only 404 at serve time" (mint/handler.go:244-245).
Mintable(node) == node.kind # "dir"

\* os.Stat of the resolved path, at which something else may be by now.
MintStat(c) ==
    /\ mint[c].at = "stat"
    /\ LET found == EvalSymlinks(fs, mint[c].path)
       IN  IF found.status # "ok"
           THEN Answer(c, StatusOf(found.status))
           ELSE IF ~Mintable(fs[found.path])
           THEN Answer(c, 400)
           ELSE mint' = [mint EXCEPT ![c].at = "sign", ![c].seen = @ \cup {fs}]
    /\ UNCHANGED <<fs, now, key, fetch, issued>>

MintSign(c) ==
    /\ mint[c].at = "sign"
    /\ LET m == mint[c]
           exp == Unix(now + Lifetime(m.ttl))
       IN  issued' = issued \cup
             {[path |-> m.path, exp |-> exp, disp |-> m.disp,
               sig |-> Signature(key, m.path, exp, m.disp),
               key |-> key, mintedAt |-> now, asked |-> m.ttl, seen |-> m.seen]}
    /\ Answer(c, 200)
    /\ UNCHANGED <<fs, now, key, fetch>>

MintDone(c) ==
    /\ mint[c].at = "done"
    /\ mint' = [mint EXCEPT ![c] = NoMint]
    /\ UNCHANGED <<fs, now, key, fetch, issued>>

Mint(c) ==
    \/ MintRequest(c) \/ MintResolve(c) \/ MintStat(c) \/ MintSign(c) \/ MintDone(c)

-----------------------------------------------------------------------------
(* GET /media *)

Reply(f, status) ==
    fetch' = [fetch EXCEPT ![f].at = "done", ![f].status = status, ![f].seen = @ \cup {fs}]

Verified_AlsoExpired(path, exp, disp, sig) == sig = Signature(key, path, exp, disp)

Verified(path, exp, disp, sig) ==
    sig = Signature(key, path, exp, disp) /\ ~Expired(exp)

\* A client requests a URL it was given, possibly with parts of another one: parameters
\* are checked, then the signature and the expiry, before the disk is touched.
FetchRequest(f) ==
    /\ fetch[f].at = "idle"
    /\ \E u \in issued, path \in {v.path : v \in issued}, exp \in {v.exp : v \in issued},
          sent \in SentDispositions :
         LET disp == Disposition(sent)
             Refuse(status) == [NoFetch EXCEPT !.at = "done", !.status = status]
         IN  fetch' = [fetch EXCEPT ![f] =
               IF disp \notin Dispositions THEN Refuse(400)
               ELSE IF ~Verified(path, exp, disp, u.sig) THEN Refuse(403)
               ELSE [NoFetch EXCEPT !.at = "resolve", !.url = u, !.path = path,
                                    !.exp = exp, !.disp = disp, !.when = now]]
    /\ UNCHANGED <<fs, now, key, mint, issued>>

FetchResolve(f) ==
    /\ fetch[f].at = "resolve"
    /\ LET r == Resolve(fs, Roots, [absolute |-> TRUE, names |-> fetch[f].path])
       IN  IF r.status # "ok"
           THEN Reply(f, StatusOf(r.status))
           ELSE fetch' = [fetch EXCEPT ![f].at = "open", ![f].path = r.path,
                                       ![f].seen = {fs}]
    /\ UNCHANGED <<fs, now, key, mint, issued>>

Servable(node) == node.kind # "dir"

\* os.Open of the resolved path; Stat and ServeContent then work on the open file.
FetchOpen(f) ==
    /\ fetch[f].at = "open"
    /\ LET found == EvalSymlinks(fs, fetch[f].path)
       IN  IF found.status # "ok"
           THEN Reply(f, StatusOf(found.status))
           ELSE IF ~Servable(fs[found.path])
           THEN Reply(f, 404)
           ELSE fetch' = [fetch EXCEPT ![f] =
                  [fetch[f] EXCEPT !.at = "done", !.status = 200, !.path = found.path,
                                   !.body = fs[found.path].body,
                                   !.seen = fetch[f].seen \cup {fs}]]
    /\ UNCHANGED <<fs, now, key, mint, issued>>

FetchDone(f) ==
    /\ fetch[f].at = "done"
    /\ fetch' = [fetch EXCEPT ![f] = NoFetch]
    /\ UNCHANGED <<fs, now, key, mint, issued>>

Fetch(f) == FetchRequest(f) \/ FetchResolve(f) \/ FetchOpen(f) \/ FetchDone(f)

-----------------------------------------------------------------------------
Next ==
    \/ Tick \/ Mutate \/ Restart
    \/ \E c \in Callers : Mint(c)
    \/ \E f \in Fetchers : Fetch(f)

Spec == Init /\ [][Next]_vars

-----------------------------------------------------------------------------
(* Properties. *)

MintTyped(m) ==
    /\ m.at \in {"idle", "resolve", "stat", "sign", "done"}
    /\ m.status \in Status \cup {0}
    /\ m.at \in {"resolve", "stat", "sign"} => m.disp \in Dispositions
    /\ m.ttl \in (Ttls \cap Nat) \cup {0}
    /\ m.request \in Requests \cup {<<>>}
    /\ m.seen \subseteq FileSystems

FetchTyped(g) ==
    /\ g.at \in {"idle", "resolve", "open", "done"}
    /\ g.status \in Status \cup {0}
    /\ g.url \in issued \cup {NoUrl}
    /\ g.exp \in Int
    /\ g.disp \in Dispositions \cup {""}
    /\ g.when \in 0..now
    /\ g.seen \subseteq FileSystems

UrlTyped(u) ==
    /\ u.mintedAt \in 0..now
    /\ u.exp \in Int
    /\ u.disp \in Dispositions
    /\ u.asked \in (Ttls \cap Nat) \cup {0}
    /\ u.key \in Keys
    /\ u.seen \subseteq FileSystems

TypeOK ==
    /\ fs \in FileSystems /\ now \in Nat /\ key \in Keys
    /\ DOMAIN mint = Callers /\ \A c \in Callers : MintTyped(mint[c])
    /\ DOMAIN fetch = Fetchers /\ \A f \in Fetchers : FetchTyped(fetch[f])
    /\ \A u \in issued : UrlTyped(u)

\* "Path fencing is delegated to internal/serve BEFORE minting, so escaping or missing
\* paths never produce a signed URL" (mint/handler.go:6-7): whatever the workload does to
\* its files, a signed URL names a place inside a resolved root.
IssuedFenced == \A u \in issued : InSomeRoot(fs, Roots, u.path)

\* A fetch whose signature has been checked.
Accepted(f) == fetch[f].url # NoUrl

\* A request gets past Verify only as one of the URLs minted, all parts unaltered, under
\* the key the sidecar runs with now: after a restart with another key none does.
AcceptedWasIssued ==
    \A f \in Fetchers : Accepted(f) =>
        LET u == fetch[f].url
        IN  /\ u.key = key
            /\ u.exp = fetch[f].exp /\ u.disp = fetch[f].disp
            /\ fetch[f].at = "resolve" => u.path = fetch[f].path

\* Whatever the client asked for, also when the requested seconds overflow a Duration, no
\* URL is accepted more than MaxTTL, nor more than the seconds asked for, after minting.
\* (The latter assuming a MaxTTL of whole seconds, which NewHandler does not check.)
NeverOutlives ==
    \A f \in Fetchers : Accepted(f) =>
        LET u == fetch[f].url
            age == fetch[f].when - u.mintedAt
        IN  age <= MaxTTL /\ (u.asked > 0 => age <= u.asked * TicksPerSecond)

\* No URL is handed out that Verify would refuse at once.  (Assuming a DefaultTTL of at
\* least a second, which NewHandler does not check.)
UsableWhenMinted == \A u \in issued : u.mintedAt <= u.exp * TicksPerSecond

\* A URL works: accepted in time, it is answered with the very file it was minted for,
\* as long as mint and fetch saw the same files.  (The URL holds the resolved path,
\* which the fetch fences and resolves again.)
RoundTrip ==
    \A f \in Fetchers : Accepted(f) /\ fetch[f].at = "done" =>
        LET u == fetch[f].url
        IN  Cardinality(u.seen \cup fetch[f].seen) = 1 =>
              /\ fetch[f].status = 200
              /\ fetch[f].path = u.path

\* "under the read-only-volume threat model the residual race (e.g. a symlink swap between
\* Resolve and Open) is acceptable" (resolve.go:41-44): it is the only one.  A file served
\* from outside the roots means the files changed between the two.
EscapeOnlyByRace ==
    \A f \in Fetchers : fetch[f].at = "done" /\ fetch[f].status = 200 =>
        \/ InSomeRoot(fs, Roots, fetch[f].path)
        \/ Cardinality(fetch[f].seen) > 1

\* What the URLs promise.  The grant a fetch is there with is what it presented, not what
\* was issued.
GrantOf(u) == [place |-> u.path, until |-> u.exp, disposition |-> u.disp, secret |-> u.key]

Presented(f) ==
    [place |-> IF fetch[f].at = "resolve" THEN fetch[f].path ELSE fetch[f].url.path,
     until |-> fetch[f].exp, disposition |-> fetch[f].disp, secret |-> key]

Granted == {GrantOf(u) : u \in issued}

Visits == [f \in Fetchers |-> IF Accepted(f) THEN Presented(f) ELSE NoUrl]

Promise == INSTANCE Grants
    WITH Visitors <- Fetchers, Secrets <- Keys, Second <- TicksPerSecond, Longest <- MaxTTL,
         NoVisit <- NoUrl, time <- now, secret <- key, granted <- Granted, visit <- Visits

\* A caller may "receive a signed, expiring URL that the public file server (:8090) later
\* verifies" (mint/handler.go:4-5): every step of the handlers, of the clock and of a restart
\* is one that Grants allows, or none at all to those who hold URLs.  A URL is for no longer
\* than MaxTTL, no parts of two URLs make a third, and each is good only as it was made, in
\* time and under the secret it was made with, before and after restarts.
ImplementsGrants == Promise!Spec

=============================================================================
