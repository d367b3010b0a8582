------------------------------ MODULE KeyCache ------------------------------
(***************************************************************************)
(* Verifying bearer tokens against the identity provider's published keys  *)
(* (core/oidc.py): requests on a thread pool share one key-set client,     *)
(* replaced under a lock when it is old, while the provider rotates its    *)
(* keys and is at times out of reach.                                      *)
(*                                                                         *)
(* The client is PyJWT's PyJWKClient: it keeps the key set for its own     *)
(* lifespan (the same 300 s), remembers the keys it has handed out, and    *)
(* fetches the set once more for a key it does not find.  Its exceptions   *)
(* all derive from PyJWTError, so signing_key's own discarding of the      *)
(* client, behind that class's except, is never reached.                   *)
(***************************************************************************)
EXTENDS Integers, Sequences

CONSTANTS
  Bearers,   \* requests that carry a token, each verified once
  Kids,      \* keys of the provider, in the tokens' header
  FirstKid,  \* the one published at the start
  Life,      \* JWKS_CACHE_SECONDS, in ticks
  MaxTime    \* a bound: the clock stops there

ASSUME KeysAssumption == {Life, MaxTime} \subseteq Nat /\ FirstKid \in Kids

Never == -1

VARIABLES
  clock,
  published,  \* the provider's key set
  withdrawn,  \* when each key was withdrawn
  clients,    \* key-set clients made so far: the last is the shared one
  bearer      \* the requests

keysVars == <<clock, published, withdrawn, clients, bearer>>

NoSet == {"none"}
NewClient == [made |-> clock, set |-> NoSet, fetched |-> Never, handed |-> {}]
Arriving == [at |-> "new", kid |-> FirstKid, good |-> TRUE, client |-> 0, began |-> Never, live |-> FALSE]

KeysInit ==
  /\ clock = 0
  /\ published = {FirstKid}
  /\ withdrawn = [k \in Kids |-> Never]
  /\ clients = <<>>
  /\ bearer = [b \in Bearers |-> Arriving]

-------------------------------------------------------------------------------
\* The provider starts to sign with another key, and withdraws one for good.
Publish(k) ==
  /\ k \notin published /\ withdrawn[k] = Never
  /\ published' = published \cup {k}
  /\ UNCHANGED <<clock, withdrawn, clients, bearer>>

Withdraw(k) ==
  /\ k \in published
  /\ published' = published \ {k}
  /\ withdrawn' = [withdrawn EXCEPT ![k] = clock]
  /\ UNCHANGED <<clock, clients, bearer>>

Tick ==
  /\ clock < MaxTime
  /\ clock' = clock + 1
  /\ UNCHANGED <<published, withdrawn, clients, bearer>>

-------------------------------------------------------------------------------
Newest == Len(clients)

\* A bug: a client would be kept for as long as the process runs.
MutantExpired == Newest = 0
\* _client_now: there is no client, or it is older than JWKS_CACHE_SECONDS.
Expired == Newest = 0 \/ clock - clients[Newest].made > Life

\* A token names its key; whether its signature, issuer, expiry, audience (the
\* API's or MCP's own) and identity claims are in order is `good`.
Arrive(b, k, good) ==
  /\ bearer[b].at = "new"
  /\ clients' = IF Expired THEN Append(clients, NewClient) ELSE clients
  /\ bearer' = [bearer EXCEPT ![b] =
       [at |-> "key", kid |-> k, good |-> good, client |-> Len(clients'),
        began |-> clock, live |-> k \in published]]
  /\ UNCHANGED <<clock, published, withdrawn>>

\* No token, or one that cannot be parsed, which is found when the client is
\* already there.
Unparsed(b, token) ==
  /\ bearer[b].at = "new"
  /\ clients' = IF token /\ Expired THEN Append(clients, NewClient) ELSE clients
  /\ bearer' = [bearer EXCEPT ![b].at = "refused"]
  /\ UNCHANGED <<clock, published, withdrawn>>

Mine(b) == clients[bearer[b].client]

\* The request is answered; of what it went through, only what its token was is
\* kept, and for an accepted one when it began.
Answered(b, how) ==
  bearer' = [bearer EXCEPT ![b] =
    CASE how = "accepted" -> [Arriving EXCEPT !.at = how, !.kid = bearer[b].kid, !.began = bearer[b].began]
      [] how = "refused" -> [bearer[b] EXCEPT !.at = how, !.client = 0, !.began = Never]
      [] OTHER -> [Arriving EXCEPT !.at = how]]

\* The key is found: jwt.decode and _principal_from_claims decide.
Found(b) == Answered(b, IF bearer[b].good THEN "accepted" ELSE "refused")

\* The set is kept, and not for longer than the client's own lifespan.
Keeps(c) == c.set # NoSet /\ clock - c.fetched <= Life

\* The client has handed the key out before, has it in the set, or must fetch.
LookUp(b) ==
  /\ bearer[b].at = "key"
  /\ LET k == bearer[b].kid
     IN CASE k \in Mine(b).handed -> Found(b) /\ UNCHANGED clients
          [] k \notin Mine(b).handed /\ Keeps(Mine(b)) /\ k \in Mine(b).set ->
               /\ Found(b)
               /\ clients' = [clients EXCEPT ![bearer[b].client].handed = @ \cup {k}]
          [] OTHER ->
               /\ bearer' = [bearer EXCEPT ![b].at = IF Keeps(Mine(b)) THEN "again" ELSE "fetch"]
               /\ UNCHANGED clients
  /\ UNCHANGED <<clock, published, withdrawn>>

\* The set is fetched; a key it does not have is looked for once more, in a set
\* fetched again.
Fetch(b) ==
  /\ bearer[b].at \in {"fetch", "again"}
  /\ clients' = [clients EXCEPT ![bearer[b].client] =
       [Mine(b) EXCEPT !.set = published, !.fetched = clock,
                       !.handed = @ \cup (published \cap {bearer[b].kid})]]
  /\ IF bearer[b].kid \in published
     THEN Found(b)
     ELSE IF bearer[b].at = "fetch" THEN bearer' = [bearer EXCEPT ![b].at = "again"]
                                    ELSE Answered(b, "refused")
  /\ UNCHANGED <<clock, published, withdrawn>>

\* A bug: PyJWKClientError, which it is one of, is caught first.
MutantUnreachable == "refused"
\* The provider cannot be reached: OIDCConfigurationError, and not a 401.
Unreachable == "unavailable"

FetchFails(b) ==
  /\ bearer[b].at \in {"fetch", "again"}
  /\ clients' = [clients EXCEPT ![bearer[b].client].set = NoSet]
  /\ Answered(b, Unreachable)
  /\ UNCHANGED <<clock, published, withdrawn>>

KeysNext ==
  \/ Tick
  \/ \E k \in Kids : Publish(k) \/ Withdraw(k)
  \/ \E b \in Bearers :
       \/ \E k \in Kids, good \in BOOLEAN : Arrive(b, k, good)
       \/ \E token \in BOOLEAN : Unparsed(b, token)
       \/ LookUp(b) \/ Fetch(b) \/ FetchFails(b)

KeysSpec == KeysInit /\ [][KeysNext]_keysVars

-------------------------------------------------------------------------------
KeysTypeOK ==
  /\ clock \in 0..MaxTime /\ published \subseteq Kids
  /\ withdrawn \in [Kids -> {Never} \cup 0..MaxTime]
  /\ \A n \in 1..Len(clients) :
       /\ clients[n].set = NoSet \/ clients[n].set \subseteq Kids
       /\ clients[n].handed \subseteq Kids /\ clients[n].made \in 0..MaxTime
  /\ \A b \in Bearers :
       /\ bearer[b].at \in {"new", "key", "fetch", "again", "accepted", "refused", "unavailable"}
       /\ bearer[b].client \in 0..Len(clients) /\ bearer[b].kid \in Kids

\* A key the provider has withdrawn verifies no request that began more than
\* JWKS_CACHE_SECONDS later, whichever clients, key sets and remembered keys the
\* threads went through ("refreshed on a clock").
WithdrawnInTime ==
  \A b \in Bearers :
    LET w == withdrawn[bearer[b].kid]
    IN bearer[b].at = "accepted" /\ w # Never => bearer[b].began - w <= Life

\* A token in order, whose key was published when its request began and still
\* is, is not answered 401: neither just after a rotation ("the alternative is
\* every token minted after it failing until the TTL happens to lapse") nor
\* while the provider is out of reach.
GoodTokenNotRefused ==
  \A b \in Bearers :
    LET r == bearer[b]
    IN r.live /\ r.good /\ withdrawn[r.kid] = Never => r.at # "refused"
===============================================================================
