---------------------------- MODULE TokenManager ----------------------------
(***************************************************************************)
(* The one access token of the broker account, the manager that holds it   *)
(* and the renewals its callers ask for (core/auth/token_manager.rs).      *)
(*                                                                         *)
(* The broker accepts one token at a time: issuing one kills the one       *)
(* before.  Callers (a socket told its login is dead, the renewal loop,    *)
(* the sweep, the watchdog) queue on one gate; whoever gets through first  *)
(* replaces the token, and the others find that the generation has moved.  *)
(* The steps of a call are the points between which other threads run: the *)
(* gate, the two requests, their answers, the store of the new token and   *)
(* the bump of the generation that follows it.                             *)
(*                                                                         *)
(* A token is its number in the order of issue.  Ages are counted in       *)
(* redial cycles and saturate where the code stops looking at them.        *)
(***************************************************************************)
EXTENDS Naturals

CONSTANTS
    Sockets,    \* the live-feed connections
    Others,     \* the callers that renew whatever token is current
    Cooldown,   \* DHAN_TOKEN_GENERATION_COOLDOWN_SECS
    Reuse       \* RENEW_FAILURE_REUSE_MS

Callers == Sockets \cup Others
NoOne == "no one"
NoToken == 0

ASSUME TokenAssumption ==
    /\ Cooldown \in Nat \ {0} /\ Reuse \in Nat /\ Reuse <= Cooldown
    /\ NoOne \notin Callers /\ Sockets \cap Others = {}

VARIABLES
    issued,      \* tokens the broker has issued
    active,      \* the token the broker accepts
    token,       \* the token the manager holds
    generation,  \* renew_generation: how often the token was replaced
    gate,        \* renew_gate: who holds it
    since_mint,  \* the age of last_mint_attempt
    failure,     \* recent_stale_failure
    held,        \* instance_lock_held
    calls        \* the call of every caller: where it is and what it knows

broker == <<issued, active>>
manager == <<token, generation, gate, since_mint, failure>>
token_vars == <<issued, active, token, generation, gate, since_mint, failure, held, calls>>

CallAt == {"none", "queued", "renew", "renewed", "mint", "minted", "stored", "ended"}
Results == {"none", "ok", "deferred", "failed"}
NoCall == [at |-> "none", seen |-> 0, got |-> NoToken, result |-> "none"]

TokenTypeOK ==
    /\ issued \in Nat /\ active \in 0..issued /\ token \in 1..issued
    /\ generation \in Nat
    /\ gate \in Callers \cup {NoOne}
    /\ since_mint \in 0..Cooldown
    /\ failure \in [seen : Nat, age : 0..Reuse]
    /\ held \in BOOLEAN
    /\ calls \in [Callers -> [at : CallAt, seen : Nat, got : 0..issued, result : Results]]

\* A manager that has adopted the one active token, as initialize leaves it.
TokenInit ==
    /\ issued = 1 /\ active = 1 /\ token = 1 /\ generation = 1
    /\ gate = NoOne /\ held = TRUE
    /\ since_mint = Cooldown
    /\ failure = [seen |-> 0, age |-> Reuse]
    /\ calls = [c \in Callers |-> NoCall]

-----------------------------------------------------------------------------
(* The steps of one call. *)

Sampled(c, seen) ==
    calls' = [calls EXCEPT ![c] = [at |-> "queued", seen |-> seen, got |-> NoToken, result |-> "none"]]

\* renew_with_fallback: what the callers that name no token renew.
AskForCurrent(c) ==
    /\ calls[c].at = "none"
    /\ Sampled(c, generation)
    /\ UNCHANGED <<broker, manager, held>>

AtGate(c) == calls[c].at = "queued" /\ gate = NoOne

\* Another caller replaced the token while this one waited.
Coalesce(c) ==
    /\ AtGate(c)
    /\ generation # calls[c].seen
    /\ calls' = [calls EXCEPT ![c].at = "ended", ![c].result = "ok"]
    /\ UNCHANGED <<broker, manager, held>>

recent_failure_for(c) == c \in Sockets /\ failure.seen = calls[c].seen /\ failure.age < Reuse

\* A renewal of the same token failed moments ago: its result is reused.
ReuseFailure(c) ==
    /\ AtGate(c)
    /\ generation = calls[c].seen /\ recent_failure_for(c)
    /\ calls' = [calls EXCEPT ![c].at = "ended", ![c].result = "deferred"]
    /\ UNCHANGED <<broker, manager, held>>

SendRenewal(c) ==
    /\ AtGate(c)
    /\ generation = calls[c].seen /\ ~recent_failure_for(c)
    /\ gate' = c
    /\ calls' = [calls EXCEPT ![c].at = "renew"]
    /\ UNCHANGED <<broker, token, generation, since_mint, failure, held>>

\* The broker issues a token to a request: the one before is dead.
Issue(c, at) ==
    /\ issued' = issued + 1 /\ active' = issued + 1
    /\ calls' = [calls EXCEPT ![c].at = at, ![c].got = issued + 1]

\* RenewToken is accepted only from the holder of the active token.
Renewed(c) ==
    /\ calls[c].at = "renew" /\ token = active
    /\ Issue(c, "renewed")
    /\ UNCHANGED <<manager, held>>

Minted(c) ==
    /\ calls[c].at = "mint"
    /\ Issue(c, "minted")
    /\ UNCHANGED <<manager, held>>

\* The call ends without a token; a socket leaves a record for the others.
Failed(c, result) ==
    /\ calls' = [calls EXCEPT ![c].at = "ended", ![c].result = result]
    /\ gate' = NoOne
    /\ failure' = IF c \in Sockets THEN [seen |-> calls[c].seen, age |-> 0] ELSE failure

\* A faulty version: a login that is put off restarts the cooldown.
FaultStampDeferred(c) ==
    \/ /\ since_mint < Cooldown \/ ~held
       /\ Failed(c, "deferred")
       /\ since_mint' = 0
    \/ /\ since_mint >= Cooldown /\ held
       /\ since_mint' = 0
       /\ calls' = [calls EXCEPT ![c].at = "mint"]
       /\ UNCHANGED <<gate, failure>>

\* The renewal failed: log in afresh, unless the last login is too recent or
\* another instance holds the lock.
Fallback(c) ==
    \/ /\ since_mint < Cooldown \/ ~held
       /\ Failed(c, "deferred")
       /\ UNCHANGED since_mint
    \/ /\ since_mint >= Cooldown /\ held
       /\ since_mint' = 0
       /\ calls' = [calls EXCEPT ![c].at = "mint"]
       /\ UNCHANGED <<gate, failure>>

\* The broker refuses to renew a token that is not active.
RenewalRefused(c) ==
    /\ calls[c].at = "renew" /\ token # active
    /\ Fallback(c)
    /\ UNCHANGED <<broker, token, generation, held>>

\* The request or its answer is lost.
RenewalLost(c) ==
    /\ calls[c].at \in {"renew", "renewed"}
    /\ Fallback(c)
    /\ UNCHANGED <<broker, token, generation, held>>

MintLost(c) ==
    /\ calls[c].at \in {"mint", "minted"}
    /\ Failed(c, "failed")
    /\ UNCHANGED <<broker, token, generation, since_mint, held>>

Store(c) ==
    /\ calls[c].at \in {"renewed", "minted"}
    /\ token' = calls[c].got
    /\ calls' = [calls EXCEPT ![c].at = "stored"]
    /\ UNCHANGED <<broker, generation, gate, since_mint, failure, held>>

Bump(c) ==
    /\ calls[c].at = "stored"
    /\ generation' = generation + 1
    /\ gate' = NoOne
    /\ calls' = [calls EXCEPT ![c].at = "ended", ![c].result = "ok"]
    /\ UNCHANGED <<broker, token, since_mint, failure, held>>

\* What a call does by itself, and what only a fault makes it do.
CallStep(c) ==
    \/ Coalesce(c)
    \/ ReuseFailure(c)
    \/ SendRenewal(c)
    \/ Renewed(c)
    \/ RenewalRefused(c)
    \/ Minted(c)
    \/ Store(c)
    \/ Bump(c)

CallLost(c) == RenewalLost(c) \/ MintLost(c)

\* A caller that is no socket takes the result and goes on.
Taken(c) ==
    /\ calls[c].at = "ended"
    /\ calls' = [calls EXCEPT ![c] = NoCall]
    /\ UNCHANGED <<broker, manager, held>>

-----------------------------------------------------------------------------
(* The world around the manager. *)

\* The active token runs out.
Expire ==
    /\ active # NoToken
    /\ active' = NoToken
    /\ UNCHANGED <<issued, manager, held, calls>>

\* Another holder of the credentials logs in.
OtherMint ==
    /\ issued' = issued + 1 /\ active' = issued + 1
    /\ UNCHANGED <<manager, held, calls>>

\* The heartbeat of the instance lock found a peer.
LoseLock ==
    /\ held
    /\ held' = FALSE
    /\ UNCHANGED <<broker, manager, calls>>

Older(age, bound) == IF age < bound THEN age + 1 ELSE age

Aged ==
    /\ since_mint' = Older(since_mint, Cooldown)
    /\ failure' = [failure EXCEPT !.age = Older(failure.age, Reuse)]
    /\ UNCHANGED <<broker, token, generation, gate, held, calls>>
=============================================================================
