------------------------------ MODULE ProxyTokens ------------------------------
(***************************************************************************)
(* The host application's proxy (sdk/eaip-proxy-endpoint): exchanges of    *)
(* the widget that share one cached token and one token request, renew it  *)
(* when it is stale, and replace it once when the platform refuses it.     *)
(*                                                                         *)
(* One event loop: what runs between two awaits is one step.  Tokens are   *)
(* numbered as the identity provider issues them.                          *)
(***************************************************************************)
EXTENDS FiniteSets, Naturals

CONSTANTS
  Exchanges,  \* requests of the widget, each served once
  NoExchange

ASSUME TokensAssumption == NoExchange \notin Exchanges

VARIABLES
  cached,    \* #cached: the last token, 0 if there is none
  stale,     \* staleAt has passed
  inFlight,  \* #inFlight: the exchange that made the token request under way
  exchange,  \* the exchanges
  issued,    \* tokens the provider has issued
  \* history, read by no action
  fetches,   \* token requests made
  due        \* reasons there were to make one

tokensVars == <<cached, stale, inFlight, exchange, issued, fetches, due>>

Unserved == [at |-> "unserved", kind |-> "mcp", token |-> 0, refused |-> {}, on |-> NoExchange]

TokensInit ==
  /\ cached = 0 /\ stale = FALSE
  /\ inFlight = NoExchange
  /\ exchange = [x \in Exchanges |-> Unserved]
  /\ issued = 0
  /\ fetches = 0 /\ due = 1

-------------------------------------------------------------------------------
\* What becomes of exchange e when get() gives it a token: session() answers,
\* mcp() forwards.
Given(e, token) ==
  [e EXCEPT !.token = token, !.on = NoExchange,
            !.at = IF e.kind = "session" THEN "answered" ELSE "sending"]

\* A bug: each would ask for a token of its own.
MutantAsks(x, e) ==
  /\ inFlight' = x /\ fetches' = fetches + 1
  /\ exchange' = [exchange EXCEPT ![x] = [e EXCEPT !.at = "waiting", !.on = x]]
\* get(), without a token in the cache: the request under way, or a new one.
Asks(x, e) ==
  LET first == inFlight = NoExchange
      from == IF first THEN x ELSE inFlight
  IN /\ inFlight' = from
     /\ fetches' = IF first THEN fetches + 1 ELSE fetches
     /\ exchange' = [exchange EXCEPT ![x] = [e EXCEPT !.at = "waiting", !.on = from]]

\* session() and mcp(), up to their first await.
Serve(x, kind) ==
  LET e == [Unserved EXCEPT !.kind = kind]
  IN /\ exchange[x].at = "unserved"
     /\ IF cached # 0 /\ ~stale
        THEN /\ exchange' = [exchange EXCEPT ![x] = Given(e, cached)]
             /\ UNCHANGED <<inFlight, fetches>>
        ELSE Asks(x, e)
     /\ UNCHANGED <<cached, stale, issued, due>>

\* The provider's answer holds a token; one whose life is no longer than the
\* skew is stale at once.
TokenArrives(short) ==
  /\ inFlight # NoExchange
  /\ issued' = issued + 1
  /\ cached' = issued + 1 /\ stale' = short
  /\ due' = IF short THEN due + 1 ELSE due
  /\ inFlight' = NoExchange
  /\ exchange' = [x \in Exchanges |-> IF exchange[x].on = inFlight
                                      THEN Given(exchange[x], issued + 1) ELSE exchange[x]]
  /\ UNCHANGED fetches

\* The provider refuses, cannot be reached, or its answer holds no token: all
\* who wait for it are answered 503.
FetchFails ==
  /\ inFlight # NoExchange
  /\ inFlight' = NoExchange
  /\ due' = due + 1
  /\ exchange' = [x \in Exchanges |->
       IF exchange[x].on = inFlight
       THEN [exchange[x] EXCEPT !.at = "answered", !.on = NoExchange] ELSE exchange[x]]
  /\ UNCHANGED <<cached, stale, issued, fetches>>

Ages ==
  /\ cached # 0 /\ ~stale
  /\ stale' = TRUE
  /\ due' = due + 1
  /\ UNCHANGED <<cached, inFlight, exchange, issued, fetches>>

Refusing(x) == exchange[x].at = "sending" /\ exchange[x].refused = {}

\* A bug: the rejected token would stay in the cache.
MutantReplays(x) ==
  /\ Refusing(x)
  /\ LET e == [exchange[x] EXCEPT !.refused = {exchange[x].token}]
     IN IF cached # 0 /\ ~stale
        THEN /\ exchange' = [exchange EXCEPT ![x] = Given(e, cached)]
             /\ UNCHANGED <<inFlight, fetches>>
        ELSE Asks(x, e)
  /\ due' = due + 1
  /\ UNCHANGED <<cached, stale, issued>>
\* The platform answers 401: whatever token is cached by now is dropped, and the
\* exchange has another.
Retry(x) ==
  /\ Refusing(x)
  /\ cached' = 0
  /\ Asks(x, [exchange[x] EXCEPT !.refused = {exchange[x].token}])
  /\ due' = due + 1
  /\ UNCHANGED <<stale, issued>>

\* A second 401 is passed through,
PassOn401(x) ==
  /\ exchange[x].at = "sending" /\ exchange[x].refused # {}
  /\ exchange' = [exchange EXCEPT ![x].at = "unauthorized",
                                  ![x].refused = @ \cup {exchange[x].token}]
  /\ UNCHANGED <<cached, stale, inFlight, issued, fetches, due>>

\* and so is any other answer; none in time is a 502.
PassOn(x) ==
  /\ exchange[x].at = "sending"
  /\ exchange' = [exchange EXCEPT ![x].at = "answered"]
  /\ UNCHANGED <<cached, stale, inFlight, issued, fetches, due>>

TokensNext ==
  \/ \E x \in Exchanges, kind \in {"session", "mcp"} : Serve(x, kind)
  \/ \E short \in BOOLEAN : TokenArrives(short)
  \/ FetchFails \/ Ages
  \/ \E x \in Exchanges : Retry(x) \/ PassOn401(x) \/ PassOn(x)

TokensSpec == TokensInit /\ [][TokensNext]_tokensVars

-------------------------------------------------------------------------------
(* Properties. *)

TokensTypeOK ==
  /\ cached \in 0 .. issued /\ stale \in BOOLEAN
  /\ inFlight \in Exchanges \cup {NoExchange}
  /\ exchange \in [Exchanges ->
       [at: {"unserved", "waiting", "sending", "answered", "unauthorized"},
        kind: {"session", "mcp"}, token: Nat, refused: SUBSET Nat,
        on: Exchanges \cup {NoExchange}]]
  /\ issued \in Nat /\ fetches \in Nat /\ due \in Nat

\* However exchanges share, drop and renew the token, none sends one it has been
\* refused with (token.ts:69, "rather than replaying the rejected one"), and a 401
\* reaches the widget only after two tokens were refused (handler.ts:96).
RefusedTwice ==
  \A x \in Exchanges :
    /\ exchange[x].at = "sending" => exchange[x].token \notin exchange[x].refused
    /\ exchange[x].at = "unauthorized" => Cardinality(exchange[x].refused) = 2

\* The identity provider is asked no more often than there is reason to: at first,
\* after a token has aged or been refused, after a request has failed; not once
\* for each exchange (token.ts:12, "One refresh at a time").
FetchesAreDue == fetches <= due
================================================================================
