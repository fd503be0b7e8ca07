------------------------------- MODULE TokenGate -------------------------------
(***************************************************************************)
(* How a request's bearer token is verified: the key that signed it is       *)
(* looked up in the issuer's key set, of which the process keeps the copy    *)
(* it fetched last, and then the token is judged.                            *)
(*                                                                           *)
(* A copy is trusted for Ttl from the instant at which it ARRIVED.  A token   *)
(* that names a key the copy has not makes its request fetch another.        *)
(* Requests fetch each for themselves, so documents may arrive in another    *)
(* order than they were served in, and the last to arrive is kept.           *)
(***************************************************************************)
EXTENDS Integers

CONSTANTS
  Request,    \* requests that may be at the gate at one time
  Key,        \* signing keys the issuer may publish
  Ttl,        \* how long a copy of the key set is trusted
  MaxFetch,   \* the longest time the network takes for one document
  LastMoment, \* bound: the last instant
  NoKey       \* no key

ASSUME TimesAreNat ==
  /\ Ttl \in Nat \ {0} /\ MaxFetch \in Nat \ {0} /\ LastMoment \in Nat \ {0}

ASSUME NoKeyIsNoKey == NoKey \notin Key

VARIABLES
  now,        \* the current instant
  published,  \* the keys in the issuer's document
  lastSeen,   \* history: the last instant at which the issuer's document had a key
  cache,      \* the copy the process keeps: its keys, and when it arrived
  req         \* the request each of Request is

gateVars == <<now, published, lastSeen, cache, req>>

-----------------------------------------------------------------------------
(* Tokens, documents and requests                                          *)

Moment == 1..LastMoment
NoMoment == 0

Documents == [keys: SUBSET Key, fetchedAt: Moment]
NoDocument == [keys |-> {}, fetchedAt |-> NoMoment]

\* kid is the key a token names, if it names one.  Whether a key has signed it, and
\* whether its claims and times are what verifyToken asks for, is data: left to the
\* steps that judge it.
Kids == Key \cup {NoKey}

\* asked is when the fetch of a request began, last whether it may fetch no more,
\* document what the issuer served it, key what it has looked up.  steady is
\* history: the issuer has published the key of the token since the request came.
Lookups == [stage: {"loading", "served", "found"}, kid: Kids, came: Moment,
            asked: Moment \cup {NoMoment}, last: BOOLEAN, document: SUBSET Key,
            key: Key \cup {NoKey}, steady: BOOLEAN]

\* A request that was answered.  excused is history: it was refused its key when it
\* had got no document, or the issuer had not had the key all the time.
Verdicts == [stage: {"answered"},
             answer: {"ACCEPTED", "REFUSED", "DEPENDENCY_UNAVAILABLE", "INTERNAL_ERROR"},
             came: Moment \cup {NoMoment}, key: Key \cup {NoKey}, excused: BOOLEAN]
NoRequest == [stage |-> "none"]

GateTypeOK ==
  /\ now \in Moment
  /\ published \in SUBSET Key
  /\ lastSeen \in [Key -> Moment \cup {NoMoment}]
  /\ cache \in Documents \cup {NoDocument}
  /\ req \in [Request -> Lookups \cup Verdicts \cup {NoRequest}]

GateInit ==
  /\ now = 1
  /\ published \in SUBSET Key
  /\ lastSeen = [k \in Key |-> IF k \in published THEN 1 ELSE NoMoment]
  /\ cache = NoDocument
  /\ req = [r \in Request |-> NoRequest]

\* The keys of a document that a token may mean: all, if it names none.
Matching(keys, kid) == {k \in keys : kid \in {NoKey, k}}

\* The copy is there and still trusted.
Fresh == cache # NoDocument /\ now - cache.fetchedAt < Ttl

At(r, stage) == req[r].stage = stage
Fetching(job) == job.stage \in {"loading", "served"}

Goes(r, job) ==
  /\ req' = [req EXCEPT ![r] = job]
  /\ UNCHANGED <<now, published, lastSeen>>

\* What it has no more use for is forgotten.
Asks(job, last) ==
  [job EXCEPT !.stage = "loading", !.asked = now, !.last = last, !.document = {}]
Finds(job, k) ==
  [job EXCEPT !.stage = "found", !.kid = NoKey, !.asked = NoMoment, !.last = FALSE,
              !.document = {}, !.key = k, !.steady = FALSE]
Verdict(answer) ==
  [stage |-> "answered", answer |-> answer, came |-> NoMoment, key |-> NoKey, excused |-> FALSE]
Accepted(job) == [Verdict("ACCEPTED") EXCEPT !.came = job.came, !.key = job.key]
Unavailable(job, failed) ==
  [Verdict("DEPENDENCY_UNAVAILABLE") EXCEPT !.excused = failed \/ ~job.steady]

-----------------------------------------------------------------------------
(* A request comes, and looks at the copy                                  *)

Arriving(kid) ==
  [stage |-> "loading", kid |-> kid, came |-> now, asked |-> NoMoment,
   last |-> FALSE, document |-> {}, key |-> NoKey, steady |-> Matching(published, kid) # {}]

FindInCache(r, kid) ==
  /\ At(r, "none")
  /\ Fresh
  /\ \E k \in Matching(cache.keys, kid) : Goes(r, Finds(Arriving(kid), k))
  /\ UNCHANGED cache

\* Defect: a key that a trusted copy has not is taken for unknown.
MissForGood(r, kid) ==
  /\ At(r, "none")
  /\ Fresh
  /\ Matching(cache.keys, kid) = {}
  /\ Goes(r, Unavailable(Arriving(kid), FALSE))
  /\ UNCHANGED cache

\* The copy lacks the key: it is fetched once more.
MissInCache(r, kid) ==
  /\ At(r, "none")
  /\ Fresh
  /\ Matching(cache.keys, kid) = {}
  /\ Goes(r, Asks(Arriving(kid), TRUE))
  /\ UNCHANGED cache

NoneInCache(r, kid) ==
  /\ At(r, "none")
  /\ ~Fresh
  /\ Goes(r, Asks(Arriving(kid), FALSE))
  /\ UNCHANGED cache

-----------------------------------------------------------------------------
(* It fetches the issuer's document                                        *)

\* The issuer answers, with the document of the moment;
Serve(r) ==
  /\ At(r, "loading")
  /\ Goes(r, [req[r] EXCEPT !.stage = "served", !.document = published])
  /\ UNCHANGED cache

\* Defect: when no document can be had, the old copy will do.
FetchFailsOpen(r) ==
  /\ Fetching(req[r])
  /\ \/ \E k \in Matching(cache.keys, req[r].kid) : Goes(r, Finds(req[r], k))
     \/ Matching(cache.keys, req[r].kid) = {} /\ Goes(r, Unavailable(req[r], TRUE))
  /\ UNCHANGED cache

FetchFails(r) ==
  /\ Fetching(req[r])
  /\ Goes(r, Unavailable(req[r], TRUE))
  /\ UNCHANGED cache

\* and the answer arrives, now or later.
ArriveEmpty(r) ==
  /\ At(r, "served")
  /\ req[r].document = {}
  /\ Goes(r, Unavailable(req[r], TRUE))
  /\ UNCHANGED cache

Keeps(r) ==
  /\ At(r, "served")
  /\ req[r].document # {}
  /\ cache' = [keys |-> req[r].document, fetchedAt |-> now]

ArriveWith(r) ==
  /\ Keeps(r)
  /\ \E k \in Matching(req[r].document, req[r].kid) : Goes(r, Finds(req[r], k))

\* The key is not in a document just fetched: it is fetched once more,
ArriveWithout(r) ==
  /\ Keeps(r)
  /\ Matching(req[r].document, req[r].kid) = {}
  /\ ~req[r].last
  /\ Goes(r, Asks(req[r], TRUE))

\* Defect: it is fetched again and again until it is there.
ArriveUnknownAgain(r) ==
  /\ Keeps(r)
  /\ Matching(req[r].document, req[r].kid) = {}
  /\ req[r].last
  /\ Goes(r, Asks(req[r], TRUE))

\* and then the key is taken for unknown.
ArriveUnknown(r) ==
  /\ Keeps(r)
  /\ Matching(req[r].document, req[r].kid) = {}
  /\ req[r].last
  /\ Goes(r, Unavailable(req[r], FALSE))

-----------------------------------------------------------------------------
(* The token is judged                                                     *)

\* Its signature, its times and its claims hold;
Accept(r) ==
  /\ At(r, "found")
  /\ Goes(r, Accepted(req[r]))
  /\ UNCHANGED cache

\* or one of them does not;
Refuse(r) ==
  /\ At(r, "found")
  /\ Goes(r, Verdict("REFUSED"))
  /\ UNCHANGED cache

\* or the key is no RSA key that createPublicKey can read, and what it throws is caught
\* by nobody before the error handler.
KeyUnreadable(r) ==
  /\ At(r, "found")
  /\ Goes(r, Verdict("INTERNAL_ERROR"))
  /\ UNCHANGED cache

\* The answer is taken, or its client goes.
Leave(r) ==
  /\ At(r, "answered")
  /\ Goes(r, NoRequest)
  /\ UNCHANGED cache

-----------------------------------------------------------------------------
(* The issuer and the time                                                 *)

\* The issuer rotates its keys.
Rotate(keys) ==
  /\ published' = keys
  /\ lastSeen' = [k \in Key |-> IF k \in keys THEN now ELSE lastSeen[k]]
  /\ req' = [r \in Request |->
               IF Fetching(req[r])
               THEN [req[r] EXCEPT !.steady = @ /\ Matching(keys, req[r].kid) # {}]
               ELSE req[r]]
  /\ UNCHANGED <<now, cache>>

\* No fetch takes longer than the network's own limits let it.
TimePasses ==
  /\ now < LastMoment
  /\ \A r \in Request :
       Fetching(req[r]) => now < req[r].asked + MaxFetch
  /\ now' = now + 1
  /\ lastSeen' = [k \in Key |-> IF k \in published THEN now + 1 ELSE lastSeen[k]]
  /\ UNCHANGED <<published, cache, req>>

-----------------------------------------------------------------------------
Comes(r) ==
  \E kid \in Kids : FindInCache(r, kid) \/ MissInCache(r, kid) \/ NoneInCache(r, kid)

Arrive(r) == ArriveEmpty(r) \/ ArriveWith(r) \/ ArriveWithout(r) \/ ArriveUnknown(r)

\* What becomes of a request once it has come.
Proceeds(r) ==
  Serve(r) \/ FetchFails(r) \/ Arrive(r) \/ Accept(r) \/ Refuse(r) \/ KeyUnreadable(r)

GateNext ==
  \/ \E r \in Request : Comes(r) \/ Proceeds(r) \/ Leave(r)
  \/ \E keys \in SUBSET Key : Rotate(keys)
  \/ TimePasses

GateSpec == GateInit /\ [][GateNext]_gateVars

\* The network answers or fails in the end, and the process runs what has come.
FairGateSpec == GateSpec /\ \A r \in Request : WF_gateVars(Proceeds(r))

-----------------------------------------------------------------------------
(* Properties                                                              *)

Answered(job, answer) == job.stage = "answered" /\ job.answer = answer

\* A withdrawn key dies: a request is accepted only under a key that the issuer
\* still published less than Ttl and one fetch before the request came, although
\* an older document may arrive after a newer one and be trusted from then.
WithdrawnKeyDies ==
  \A r \in Request : Answered(req[r], "ACCEPTED") =>
    lastSeen[req[r].key] > req[r].came - Ttl - MaxFetch

\* A request is told that the key set is unavailable only when it got no document
\* or the key of its token was withdrawn or not yet published meanwhile: what other
\* requests fetch and keep never hides a key from it.
UnavailableForCause ==
  \A r \in Request : Answered(req[r], "DEPENDENCY_UNAVAILABLE") => req[r].excused

\* Every request that comes is answered.
EveryRequestIsAnswered ==
  \A r \in Request : req[r].stage \in {"loading", "served", "found"} ~> At(r, "answered")

-----------------------------------------------------------------------------
(* The invariant of the proofs                                             *)

\* lastSeen is what it says.
IssuerInv ==
  \A k \in Key : lastSeen[k] <= now /\ (k \in published => lastSeen[k] = now)

\* The copy was served no longer than one fetch before it arrived.
CacheInv ==
  cache # NoDocument =>
    /\ cache.fetchedAt <= now
    /\ \A k \in cache.keys : lastSeen[k] >= cache.fetchedAt - MaxFetch

\* A fetch is of its time, and what it was served was published during it.
FetchFits(job) ==
  Fetching(job) =>
    /\ job.came <= job.asked
    /\ job.asked <= now /\ now <= job.asked + MaxFetch
    /\ \A k \in job.document : lastSeen[k] >= job.asked

\* While the issuer has had a request's key, it has it, and so has the document.
SteadyFits(job) ==
  /\ job.stage = "loading" /\ job.steady => Matching(published, job.kid) # {}
  /\ job.stage = "served" /\ job.steady => Matching(job.document, job.kid) # {}

\* What was looked up was alive, and no key was refused without a cause.
VerdictFits(job) ==
  /\ job.stage = "found" \/ Answered(job, "ACCEPTED") =>
       job.key \in Key /\ lastSeen[job.key] > job.came - Ttl - MaxFetch
  /\ Answered(job, "DEPENDENCY_UNAVAILABLE") => job.excused

JobFits(job) == FetchFits(job) /\ SteadyFits(job) /\ VerdictFits(job)

GateInv == GateTypeOK /\ IssuerInv /\ CacheInv /\ \A r \in Request : JobFits(req[r])

=============================================================================
