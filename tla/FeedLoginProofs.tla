--------------------------- MODULE FeedLoginProofs ---------------------------
(***************************************************************************)
(* For any number of sockets and callers and any times: a slot never       *)
(* replaces a token it did not log in with, the operator is paged at most  *)
(* once about a dead token, and no slot gives up for want of a fresh token *)
(* before a fresh login was tried.                                         *)
(*                                                                         *)
(* The first rests on four facts.  Whoever is past the gate holds it; the  *)
(* generation cannot move under him; a socket's call carries the           *)
(* generation it dialled with; and a socket whose generation is still the  *)
(* current one presented the token the manager holds, unless the token was *)
(* just stored and its generation not bumped yet.  The last is where the   *)
(* order of the two reads of a dial, and of the store and the bump, is     *)
(* needed.                                                                 *)
(*                                                                         *)
(* The last compares two clocks: the slot's episode and the manager's      *)
(* cooldown.  An episode without a login of its own is covered by another  *)
(* caller's login or by a cooldown that must end before the episode does.  *)
(***************************************************************************)
EXTENDS FeedLogin, TLAPS

Inside == {"renew", "renewed", "mint", "minted", "stored"}
Past == {"presented", "up", "backoff", "refresh"}

Types ==
    /\ token \in Nat /\ issued \in Nat /\ generation \in Nat
    /\ calls \in [Callers -> [at : CallAt, seen : Nat, got : Nat, result : Results]]
    /\ phase \in [Sockets -> Phases]
    /\ dialled \in [Sockets -> Nat] /\ presented \in [Sockets -> Nat]

Gated == \A c \in Callers : calls[c].at \in Inside => gate = c
SeenCurrent == \A c \in Callers : calls[c].at \in Inside => calls[c].seen = generation
NotAhead == \A s \in Sockets : dialled[s] <= generation
OwnCall == \A s \in Sockets : calls[s].at # "none" => phase[s] = "refresh" /\ calls[s].seen = dialled[s]
Unbumped == \E c \in Callers : calls[c].at = "stored"
SameToken == \A s \in Sockets :
                phase[s] \in Past /\ dialled[s] = generation /\ ~Unbumped => presented[s] = token

Inv == Types /\ Gated /\ SeenCurrent /\ NotAhead /\ OwnCall /\ SameToken

\* The invariant gives the property.
LEMMA InvImplies == Inv => OnlyOwnToken
  BY DEF Inv, Types, Gated, SeenCurrent, OwnCall, SameToken, Unbumped, OnlyOwnToken, Inside, Past, Callers

\* It holds at the start: nobody has dialled or called.
LEMMA InvInit == Init => Inv
  BY TokenAssumption DEF Init, TokenInit, Inv, Types, Gated, SeenCurrent, NotAhead, OwnCall, SameToken, Unbumped, NoCall,
     CallAt, Results, Phases, Inside, Past, Callers, NoToken

\* A step of a slot that makes no call.
LEMMA SlotOnly ==
  ASSUME Inv, NEW s \in Sockets,
         \/ ReadGeneration(s) \/ ReadToken(s) \/ Connect(s) \/ FrameReceived(s) \/ TokenStale(s)
         \/ AuthRejected(s) \/ Redial(s) \/ WakeToDial(s) \/ WakeToPark(s)
  PROVE  Inv'
<1>0. UNCHANGED token_vars
  BY DEF ReadGeneration, ReadToken, Connect, FrameReceived, TokenStale, AuthRejected, Redial, WakeToDial, WakeToPark
<1>1. /\ UNCHANGED <<issued, token, generation, gate, calls>>
  BY <1>0 DEF token_vars
<1>2. calls[s].at = "none"
  <2>1. phase[s] # "refresh"
    BY DEF ReadGeneration, ReadToken, Connect, FrameReceived, TokenStale, AuthRejected, Redial, WakeToDial, WakeToPark, Rejected
  <2> QED BY <2>1 DEF Inv, OwnCall
<1>3. CASE ReadGeneration(s)
  BY <1>1, <1>2, <1>3 DEF ReadGeneration, Inv, Types, Gated, SeenCurrent, NotAhead, OwnCall, SameToken, Unbumped, Phases, Past
<1>4. CASE ReadToken(s)
  BY <1>1, <1>2, <1>4 DEF ReadToken, Inv, Types, Gated, SeenCurrent, NotAhead, OwnCall, SameToken, Unbumped, Phases, Past
<1>5. CASE Connect(s) \/ FrameReceived(s) \/ TokenStale(s) \/ AuthRejected(s) \/ Redial(s) \/ WakeToDial(s) \/ WakeToPark(s)
  <2>1. UNCHANGED <<dialled, presented>>
    BY <1>5 DEF Connect, FrameReceived, TokenStale, AuthRejected, Redial, WakeToDial, WakeToPark
  <2>2. \E p \in Phases : /\ phase' = [phase EXCEPT ![s] = p]
                          /\ p \in Past => phase[s] \in Past
    BY <1>5 DEF Connect, FrameReceived, TokenStale, AuthRejected, Redial, WakeToDial, WakeToPark, Rejected,
       enter_backoff, park, Phases, Past, Inv, Types
  <2> QED BY <1>1, <1>2, <2>1, <2>2 DEF Inv, Types, Gated, SeenCurrent, NotAhead, OwnCall, SameToken, Unbumped
<1> QED BY <1>3, <1>4, <1>5

\* The two steps with which a slot asks for a fresh token and takes the
\* answer.
LEMMA SlotCalls ==
  ASSUME Inv, NEW s \in Sockets, WakeToRefresh(s) \/ Report(s)
  PROVE  Inv'
<1> s \in Callers BY DEF Callers
<1>1. CASE WakeToRefresh(s)
  <2>1. /\ phase' = [phase EXCEPT ![s] = "refresh"] /\ phase[s] = "backoff"
        /\ calls' = [calls EXCEPT ![s] = [at |-> "queued", seen |-> dialled[s], got |-> NoToken, result |-> "none"]]
        /\ UNCHANGED <<issued, token, generation, gate, dialled, presented>>
    BY <1>1 DEF WakeToRefresh, Sampled, NoCall, broker, manager
  <2>2. calls[s].at # "stored" /\ calls'[s].at # "stored"
    BY <2>1 DEF Inv, Types, OwnCall
  <2>3. Types' BY <2>1 DEF Inv, Types, CallAt, Results, Phases, NoToken
  <2>4. Unbumped' <=> Unbumped BY <2>1, <2>2 DEF Inv, Types, Unbumped
  <2> QED BY <2>1, <2>3, <2>4 DEF Inv, Types, Gated, SeenCurrent, NotAhead, OwnCall, SameToken, Inside, Past
<1>2. CASE Report(s)
  <2>1. /\ phase' = [phase EXCEPT ![s] = "dial"]
        /\ calls' = [calls EXCEPT ![s] = [at |-> "none", seen |-> 0, got |-> NoToken, result |-> "none"]]
        /\ calls[s].at = "ended"
        /\ UNCHANGED <<issued, token, generation, gate, dialled, presented>>
    BY <1>2 DEF Report, NoCall, broker, manager
  <2>3. Types' BY <2>1 DEF Inv, Types, CallAt, Results, Phases, NoToken
  <2>4. Unbumped' <=> Unbumped BY <2>1 DEF Inv, Types, Unbumped
  <2> QED BY <2>1, <2>3, <2>4 DEF Inv, Types, Gated, SeenCurrent, NotAhead, OwnCall, SameToken, Inside, Past
<1> QED BY <1>1, <1>2

\* The calls after a step of one of them.
CallSet == [Callers -> [at : CallAt, seen : Nat, got : Nat, result : Results]]
Moves(c, at) ==
    /\ calls' \in CallSet
    /\ \A d \in Callers \ {c} : calls'[d] = calls[d]
    /\ calls'[c].seen = calls[c].seen /\ calls'[c].at = at

\* A step of a call that leaves token and generation alone: the gate is
\* taken by a caller that knows the current generation, or is left.
LEMMA CallMoves ==
  ASSUME Inv, NEW c \in Callers, NEW at \in CallAt \ {"none", "stored"}, Moves(c, at),
         UNCHANGED <<token, generation, phase, dialled, presented>>, issued' \in Nat,
         calls[c].at \notin {"none", "stored"},
         at \in Inside => gate' = c /\ calls[c].seen = generation,
         gate' = gate \/ gate = NoOne \/ gate = c
  PROVE  Inv'
<1>1. Types' BY DEF Inv, Types, Moves, CallSet
<1>2. Unbumped' <=> Unbumped BY DEF Moves, Unbumped
<1>3. Gated'
  <2>1. SUFFICES ASSUME NEW d \in Callers, calls'[d].at \in Inside, d # c PROVE gate' = d
    BY DEF Gated, Moves
  <2>2. calls[d].at \in Inside BY <2>1 DEF Moves
  <2>3. gate = d BY <2>1, <2>2 DEF Inv, Gated
  <2> QED BY <2>1, <2>3, TokenAssumption
<1>4. SeenCurrent' BY DEF Inv, SeenCurrent, Moves
<1>5. OwnCall' BY DEF Inv, OwnCall, Moves, Callers
<1>6. SameToken' BY <1>2 DEF Inv, SameToken
<1> QED BY <1>1, <1>3, <1>4, <1>5, <1>6 DEF Inv, NotAhead

\* The steps of a call.
LEMMA CallSteps ==
  ASSUME Inv, NEW c \in Callers, CallStep(c) \/ CallLost(c), UNCHANGED <<phase, dialled, presented>>
  PROVE  Inv'
<1>0. calls \in CallSet /\ issued \in Nat /\ generation \in Nat BY DEF Inv, Types, CallSet
<1>1. CASE Coalesce(c) \/ ReuseFailure(c)
  <2>1. /\ Moves(c, "ended") /\ calls[c].at = "queued"
        /\ UNCHANGED <<issued, token, generation, gate>>
    BY <1>0, <1>1 DEF Coalesce, ReuseFailure, AtGate, broker, manager, Moves, CallSet, CallAt, Results
  <2> QED BY <1>0, <2>1, CallMoves DEF CallAt, Inside
<1>2. CASE SendRenewal(c)
  <2>1. /\ Moves(c, "renew") /\ calls[c].at = "queued" /\ calls[c].seen = generation
        /\ gate = NoOne /\ gate' = c /\ UNCHANGED <<issued, token, generation>>
    BY <1>0, <1>2 DEF SendRenewal, AtGate, broker, Moves, CallSet, CallAt
  <2> QED BY <1>0, <2>1, CallMoves DEF CallAt, Inside
<1>3. CASE Renewed(c) \/ Minted(c)
  <2>1. /\ Moves(c, "renewed") \/ Moves(c, "minted")
        /\ calls[c].at \in {"renew", "mint"} /\ issued' = issued + 1 /\ UNCHANGED <<token, generation, gate>>
    BY <1>0, <1>3 DEF Renewed, Minted, Issue, manager, Moves, CallSet, CallAt
  <2>2. calls[c].seen = generation /\ gate = c BY <2>1 DEF Inv, Gated, SeenCurrent, Inside
  <2> QED BY <1>0, <2>1, <2>2, CallMoves DEF CallAt, Inside
<1>4. CASE RenewalRefused(c) \/ CallLost(c)
  <2>1. calls[c].at \in {"renew", "renewed", "mint", "minted"} /\ UNCHANGED <<issued, token, generation>>
    BY <1>4 DEF RenewalRefused, CallLost, RenewalLost, MintLost, broker
  <2>2. calls[c].seen = generation /\ gate = c BY <2>1 DEF Inv, Gated, SeenCurrent, Inside
  <2>3. Moves(c, "ended") \/ (Moves(c, "mint") /\ gate' = gate)
    <3>1. \/ Failed(c, "deferred") \/ Failed(c, "failed")
          \/ calls' = [calls EXCEPT ![c].at = "mint"] /\ gate' = gate
      BY <1>4 DEF RenewalRefused, CallLost, RenewalLost, MintLost, Fallback
    <3>2. ASSUME NEW result \in Results, Failed(c, result) PROVE Moves(c, "ended")
      BY <1>0, <3>2 DEF Failed, Moves, CallSet, CallAt
    <3>3. CASE calls' = [calls EXCEPT ![c].at = "mint"] /\ gate' = gate
      BY <1>0, <3>3 DEF Moves, CallSet, CallAt
    <3> QED BY <3>1, <3>2, <3>3 DEF Results
  <2> QED BY <1>0, <2>1, <2>2, <2>3, CallMoves DEF CallAt, Inside
<1>5. CASE Store(c)
  <2>1. /\ Moves(c, "stored") /\ calls[c].at \in {"renewed", "minted"}
        /\ token' = calls[c].got /\ UNCHANGED <<issued, generation, gate>>
    BY <1>0, <1>5 DEF Store, broker, Moves, CallSet, CallAt
  <2>2. Types' BY <1>0, <2>1 DEF Inv, Types, Moves, CallSet
  <2>3. Unbumped' BY <2>1 DEF Moves, Unbumped
  <2>4. Gated' /\ SeenCurrent' BY <2>1 DEF Inv, Gated, SeenCurrent, Moves, Inside
  <2>5. OwnCall' BY <2>1 DEF Inv, OwnCall, Moves, Callers
  <2> QED BY <2>1, <2>2, <2>3, <2>4, <2>5 DEF Inv, NotAhead, SameToken
<1>6. CASE Bump(c)
  <2>1. /\ Moves(c, "ended") /\ calls[c].at = "stored"
        /\ generation' = generation + 1 /\ UNCHANGED <<issued, token>>
    BY <1>0, <1>6 DEF Bump, broker, Moves, CallSet, CallAt, Results
  <2>2. gate = c BY <2>1 DEF Inv, Gated, Inside
  <2>3. Types' BY <1>0, <2>1 DEF Inv, Types, Moves, CallSet
  <2>4. \A d \in Callers : calls'[d].at \notin Inside BY <2>1, <2>2 DEF Inv, Gated, Moves, Inside
  <2>5. NotAhead' /\ SameToken' BY <2>1 DEF Inv, Types, NotAhead, SameToken
  <2>6. OwnCall' BY <2>1 DEF Inv, OwnCall, Moves, Callers
  <2> QED BY <2>3, <2>4, <2>5, <2>6 DEF Inv, Gated, SeenCurrent
<1> QED BY <1>1, <1>2, <1>3, <1>4, <1>5, <1>6 DEF CallStep

\* A caller of another kind asks, or takes its answer.
LEMMA OtherCalls ==
  ASSUME Inv, NEW c \in Others, StartForced(c) \/ Forced(c)
  PROVE  Inv'
<1>0. c \in Callers /\ c \notin Sockets BY TokenAssumption DEF Callers
<1>1. PICK r \in [at : {"none", "queued"}, seen : Nat, got : {NoToken}, result : {"none"}] :
          calls' = [calls EXCEPT ![c] = r]
  <2>1. CASE StartForced(c)
    BY <2>1 DEF StartForced, AskForCurrent, Sampled, NoCall, Inv, Types
  <2>2. CASE Forced(c)
    BY <2>2 DEF Forced, Taken, NoCall
  <2> QED BY <2>1, <2>2
<1>2. calls[c].at # "stored" /\ UNCHANGED <<issued, token, generation, gate, phase, dialled, presented>>
  BY DEF StartForced, Forced, AskForCurrent, Taken, broker, manager, slots
<1>3. Types' BY <1>0, <1>1, <1>2 DEF Inv, Types, CallAt, Results, NoToken
<1>4. Unbumped' <=> Unbumped BY <1>0, <1>1, <1>2 DEF Inv, Types, Unbumped
<1>5. Gated' /\ SeenCurrent' BY <1>0, <1>1, <1>2 DEF Inv, Types, Gated, SeenCurrent, Inside
<1>6. OwnCall' BY <1>0, <1>1, <1>2 DEF Inv, Types, OwnCall
<1> QED BY <1>2, <1>3, <1>4, <1>5, <1>6 DEF Inv, NotAhead, SameToken

\* A step that touches none of the state the invariant speaks of.
LEMMA Elsewhere ==
  ASSUME Inv, issued' \in Nat, UNCHANGED <<token, generation, gate, calls, phase, dialled, presented>>
  PROVE  Inv'
  BY DEF Inv, Types, Gated, SeenCurrent, NotAhead, OwnCall, SameToken, Unbumped

\* Every step keeps the invariant.
LEMMA InvStep == Inv /\ [Next]_vars => Inv'
<1> SUFFICES ASSUME Inv, [Next]_vars PROVE Inv' OBVIOUS
<1>0. issued \in Nat BY DEF Inv, Types
<1>1. ASSUME NEW s \in Sockets, SlotStep(s) \/ Redial(s) PROVE Inv'
  BY <1>1, SlotOnly, SlotCalls DEF SlotStep
<1>2. ASSUME NEW c \in Callers, Proceed(c) \/ Lost(c) PROVE Inv'
  <2>1. (CallStep(c) \/ CallLost(c)) /\ UNCHANGED <<phase, dialled, presented>>
    BY <1>2 DEF Proceed, Lost, slots
  <2> QED BY <2>1, CallSteps
<1>3. ASSUME NEW c \in Others, StartForced(c) \/ Forced(c) PROVE Inv'
  BY <1>3, OtherCalls
<1>4. CASE World
  <2>1. /\ issued' = issued \/ issued' = issued + 1
        /\ UNCHANGED <<token, generation, gate, calls, phase, dialled, presented>>
    BY <1>4 DEF World, Expire, OtherMint, LoseLock, broker, manager, slots
  <2> QED BY <1>0, <2>1, Elsewhere
<1>5. CASE Tick
  <2>1. UNCHANGED <<issued, token, generation, gate, calls, phase, dialled, presented>>
    BY <1>5 DEF Tick, Aged, broker
  <2> QED BY <1>0, <2>1, Elsewhere
<1>6. CASE UNCHANGED vars
  BY <1>0, <1>6, Elsewhere DEF vars, token_vars, slots
<1> QED BY <1>1, <1>2, <1>3, <1>4, <1>5, <1>6 DEF Next

\* No slot ever renews or replaces a token other than the one its rejected
\* dial presented (force_renewal_unless_replaced and the order of the reads
\* in feed_token_recording_generation).
THEOREM SlotsRenewOnlyTheirOwn == Spec => []OnlyOwnToken
<1>1. Inv => OnlyOwnToken BY InvImplies
<1>2. Init => Inv BY InvInit
<1>3. Inv /\ [Next]_vars => Inv' BY InvStep
<1> QED BY <1>1, <1>2, <1>3, PTL DEF Spec

-----------------------------------------------------------------------------
(* Pages.  The latch is never ahead of the current generation, and every   *)
(* page was about a generation below the latch; a new page is about the    *)
(* current generation, and only when the latch does not name it.           *)

PagesBelow ==
    /\ pages \in Seq(Nat) /\ paged \in Nat
    /\ paged <= generation + 1
    /\ \A i \in DOMAIN pages : pages[i] < paged

PageInv == PagesBelow /\ PagedOnce

\* A step pages for one slot or leaves the latch alone, and the generation
\* never falls.
LEMMA PageSteps ==
  ASSUME Inv, [Next]_vars
  PROVE  \/ generation' \in Nat /\ generation <= generation' /\ UNCHANGED paging
         \/ generation' = generation /\ \E s \in Sockets : Page(s)
<1>0. generation \in Nat BY DEF Inv, Types
<1>1. ASSUME NEW s \in Sockets, Report(s) PROVE generation' = generation /\ Page(s)
  BY <1>1 DEF Report, manager
<1>2. ASSUME NEW s \in Sockets, SlotStep(s) \/ Redial(s), ~Report(s) PROVE UNCHANGED <<generation, paging>>
  BY <1>2 DEF SlotStep, ReadGeneration, ReadToken, Connect, FrameReceived, TokenStale, AuthRejected, Redial,
     WakeToDial, WakeToPark, WakeToRefresh, token_vars, manager
<1>3. ASSUME NEW c \in Callers, Proceed(c) \/ Lost(c)
      PROVE  (generation' = generation \/ generation' = generation + 1) /\ UNCHANGED paging
  BY <1>3 DEF Proceed, Lost, CallStep, CallLost, Coalesce, ReuseFailure, SendRenewal, Renewed, RenewalRefused, Minted,
     Store, Bump, RenewalLost, MintLost, manager
<1>4. ASSUME NEW c \in Others, StartForced(c) \/ Forced(c) PROVE UNCHANGED <<generation, paging>>
  BY <1>4 DEF StartForced, Forced, AskForCurrent, Taken, manager
<1>5. CASE World \/ Tick \/ UNCHANGED vars
  <2>1. UNCHANGED <<generation, paging>>
    BY <1>5 DEF World, Expire, OtherMint, LoseLock, Tick, Aged, vars, token_vars, manager
  <2> QED BY <1>0, <2>1
<1> QED BY <1>0, <1>1, <1>2, <1>3, <1>4, <1>5 DEF Next

\* Arithmetic on the latch and the generation.
LEMMA LatchBound ==
  ASSUME NEW p \in Nat, NEW g \in Nat, NEW h \in Nat, p <= g + 1, g <= h
  PROVE  p <= h + 1
  OBVIOUS

\* A page about the current generation, when the latch does not name it.
LEMMA PageKeeps ==
  ASSUME Inv, PageInv, NEW s \in Sockets, Page(s), generation' = generation
  PROVE  PageInv'
<1>0. generation \in Nat /\ dialled[s] \in Nat BY DEF Inv, Types
<1>1. CASE UNCHANGED paging
  BY <1>1 DEF PageInv, PagesBelow, PagedOnce, paging
<1>2. CASE /\ generation = dialled[s] /\ paged' = dialled[s] + 1
           /\ paged = dialled[s] + 1 /\ pages' = pages
  BY <1>0, <1>2 DEF PageInv, PagesBelow, PagedOnce
<1>3. CASE /\ generation = dialled[s] /\ paged' = dialled[s] + 1
           /\ paged # dialled[s] + 1 /\ pages' = Append(pages, dialled[s])
  <2>1. /\ pages' \in Seq(Nat) /\ Len(pages') = Len(pages) + 1
        /\ \A i \in 1..Len(pages) : pages'[i] = pages[i]
        /\ pages'[Len(pages) + 1] = dialled[s] /\ DOMAIN pages' = 1..Len(pages) + 1
        /\ DOMAIN pages = 1..Len(pages) /\ Len(pages) \in Nat
    BY <1>0, <1>3 DEF PageInv, PagesBelow
  <2>2. \A i \in 1..Len(pages) : pages[i] \in Nat /\ pages[i] < dialled[s]
    <3>1. paged \in Nat /\ paged <= dialled[s] BY <1>0, <1>3 DEF PageInv, PagesBelow
    <3>2. DOMAIN pages = 1..Len(pages) BY <2>1
    <3>3. pages \in Seq(Nat) /\ \A i \in DOMAIN pages : pages[i] < paged BY DEF PageInv, PagesBelow
    <3>4. \A i \in 1..Len(pages) : pages[i] \in Nat BY <3>3
    <3> QED BY <1>0, <3>1, <3>2, <3>3, <3>4
  <2>3. PagesBelow'
    BY <1>0, <1>3, <2>1, <2>2 DEF PagesBelow
  <2>4. PagedOnce'
    BY <1>0, <2>1, <2>2 DEF PageInv, PagedOnce
  <2> QED BY <2>3, <2>4 DEF PageInv
<1> QED BY <1>1, <1>2, <1>3 DEF Page, paging

\* The operator is paged at most once about a token, whatever the slots and
\* the renewals do (take_stale_credential_page).
THEOREM PagedAtMostOnce == Spec => []PagedOnce
<1>1. Init => PageInv
  BY DEF Init, TokenInit, PageInv, PagesBelow, PagedOnce
<1>2. Inv /\ PageInv /\ [Next]_vars => PageInv'
  <2> SUFFICES ASSUME Inv, PageInv, [Next]_vars PROVE PageInv' OBVIOUS
  <2>1. CASE generation' \in Nat /\ generation <= generation' /\ UNCHANGED paging
    <3>1. generation \in Nat BY DEF Inv, Types
    <3>2. pages' = pages /\ paged' = paged BY <2>1 DEF paging
    <3>3. paged' <= generation' + 1
      <4>1. paged \in Nat /\ paged <= generation + 1 BY DEF PageInv, PagesBelow
      <4>2. generation' \in Nat /\ generation <= generation' BY <2>1
      <4>3. paged <= generation' + 1 BY <3>1, <4>1, <4>2, LatchBound
      <4> QED BY <3>2, <4>3
    <3> QED BY <3>2, <3>3 DEF PageInv, PagesBelow, PagedOnce
  <2>2. CASE generation' = generation /\ \E s \in Sockets : Page(s)
    BY <2>2, PageKeeps
  <2> QED BY <2>1, <2>2, PageSteps
<1>3. PageInv => PagedOnce BY DEF PageInv
<1> QED BY <1>1, <1>2, <1>3, InvInit, InvStep, PTL DEF Spec
-----------------------------------------------------------------------------
(* No slot gives up for want of a fresh token before a fresh login was     *)
(* tried.  A slot's clock (since) counts from the last progress of its     *)
(* episode, the manager's (since_mint) from the last login tried, so as    *)
(* long as none was tried since that progress the second is ahead of the   *)
(* first or past the cooldown.  A renewal that is put off past the         *)
(* cooldown, and a failure reused past twice the cooldown, therefore had   *)
(* a login before them that counts.                                        *)

EpisodeSet == [open : BOOLEAN, hard : 0..MaxHardFailures, verified : Nat,
               since : 0..EpisodeMax, refreshed : BOOLEAN, grace : BOOLEAN]
CauseSet == [why : {"none", "rejected", "hard", "age", "ceiling"}, live : BOOLEAN]

MintTypes ==
    /\ since_mint \in 0..Cooldown /\ failure \in [seen : Nat, age : 0..Reuse] /\ held \in BOOLEAN
    /\ frames \in [Sockets -> {"none", "some", "healthy"}]
    /\ reason \in [Sockets -> {OtherReason, 807, 808}]
    /\ episode \in [Sockets -> EpisodeSet] /\ minted \in [Sockets -> BOOLEAN]
    /\ cause \in [Sockets -> CauseSet]

\* An 808 whose refresh has not been noted yet.
Asking(s) == phase[s] \in {"backoff", "refresh"} /\ reason[s] = 808

\* The result of a call, and what it says.
ResultInv(s) ==
    /\ calls[s].result # "none" <=> calls[s].at = "ended"
    /\ calls[s].result = "ok" => dialled[s] < generation
    /\ calls[s].at \in {"mint", "minted"} \/ calls[s].result = "failed" => minted[s]
    /\ held /\ calls[s].result = "deferred" /\ past_bound(episode[s]) => minted[s]

\* What an episode says of the logins tried.
EpisodeInv(s) ==
    /\ minted[s] \/ since_mint >= episode[s].since \/ since_mint >= Cooldown
    /\ Asking(s) => episode[s].hard < MaxHardFailures
    /\ episode[s].hard = MaxHardFailures => minted[s]
    /\ episode[s].grace => past_bound(episode[s])
    /\ held /\ episode[s].grace /\ ~Asking(s) => minted[s]
    /\ phase[s] \in {"backoff", "refresh", "parked"} => ~episode[s].refreshed
    /\ phase[s] # "up" /\ phase[s] # "parked" => frames[s] = "none"
    /\ held /\ frames[s] # "healthy" /\ episode[s].refreshed /\ past_bound(episode[s]) => minted[s]
    /\ cause[s].why \in {"hard", "age"} => phase[s] = "parked" /\ (held => minted[s])

LoginCounts ==
    \A c \in Callers, s \in Sockets : calls[c].at \in {"mint", "minted"} => minted[s] \/ episode[s].since = 0
FailureCounts ==
    held /\ failure.age < Reuse =>
        \A s \in Sockets : episode[s].since >= Cooldown + failure.age => minted[s]

MintInv ==
    /\ MintTypes /\ LoginCounts /\ FailureCounts
    /\ \A s \in Sockets : ResultInv(s) /\ EpisodeInv(s)

\* What the slot r knows stays as it is.
Same(r) ==
    /\ phase'[r] = phase[r] /\ dialled'[r] = dialled[r] /\ frames'[r] = frames[r] /\ reason'[r] = reason[r]
    /\ episode'[r] = episode[r] /\ minted'[r] = minted[r] /\ cause'[r] = cause[r]

\* The constants of the clocks.
LEMMA Clocks ==
  /\ Cooldown \in Nat /\ Cooldown > 0 /\ Reuse \in Nat /\ Reuse <= Cooldown
  /\ EpisodeMax \in Nat /\ EpisodeMax >= 2 * Cooldown
  /\ MaxHardFailures \in Nat /\ MaxHardFailures > 0
  BY TokenAssumption, LoginAssumption

\* A slot nothing happens to keeps its part of the invariant.
LEMMA Untouched ==
  ASSUME Inv, NEW r \in Sockets, ResultInv(r), EpisodeInv(r), Same(r), calls'[r] = calls[r],
         generation' \in Nat, generation <= generation', since_mint' = since_mint, held' => held
  PROVE  ResultInv(r)' /\ EpisodeInv(r)'
<1>1. generation \in Nat /\ dialled[r] \in Nat BY DEF Inv, Types
<1>2. ResultInv(r)' BY <1>1 DEF ResultInv, Same, past_bound
<1>3. EpisodeInv(r)' BY DEF EpisodeInv, Same, past_bound, Asking
<1> QED BY <1>2, <1>3

\* The clock of s starts again, or s keeps what it knows of the logins.
Keeps(s) ==
    \/ episode'[s].since = 0
    \/ episode'[s].since = episode[s].since /\ minted'[s] = minted[s]

\* A step of the slot s alone.
LEMMA OneSlot ==
  ASSUME Inv, MintInv, NEW s \in Sockets,
         UNCHANGED <<since_mint, failure, held, generation>>,
         \A r \in Sockets \ {s} : Same(r),
         \A c \in Callers \ {s} : calls'[c] = calls[c],
         calls'[s].at \in {"mint", "minted"} => calls[s].at \in {"mint", "minted"},
         MintTypes', ResultInv(s)', EpisodeInv(s)', Keeps(s)
  PROVE  MintInv'
<1>1. ASSUME NEW r \in Sockets PROVE ResultInv(r)' /\ EpisodeInv(r)'
  <2>1. CASE r = s BY <2>1
  <2>2. CASE r # s
    <3>1. /\ Same(r) /\ calls'[r] = calls[r] /\ since_mint' = since_mint /\ held' = held
          /\ generation' = generation /\ generation \in Nat /\ ResultInv(r) /\ EpisodeInv(r)
      BY <2>2 DEF Callers, Inv, Types, MintInv
    <3> QED BY <3>1, Untouched
  <2> QED BY <2>1, <2>2
<1>2. LoginCounts'
  <2> SUFFICES ASSUME NEW c \in Callers, NEW r \in Sockets, calls'[c].at \in {"mint", "minted"}
               PROVE  minted'[r] \/ episode'[r].since = 0
    BY DEF LoginCounts
  <2>1. calls[c].at \in {"mint", "minted"} OBVIOUS
  <2>2. minted[r] \/ episode[r].since = 0 BY <2>1 DEF MintInv, LoginCounts
  <2> QED BY <2>2 DEF Same, Keeps
<1>3. FailureCounts'
  <2> SUFFICES ASSUME held, failure.age < Reuse, NEW r \in Sockets, episode'[r].since >= Cooldown + failure.age
               PROVE  minted'[r]
    BY DEF FailureCounts
  <2>1. failure.age \in Nat BY DEF MintInv, MintTypes
  <2>2. episode'[r].since # 0 BY <2>1, Clocks
  <2>3. episode'[r].since = episode[r].since /\ minted'[r] = minted[r] BY <2>2 DEF Same, Keeps
  <2>4. episode[r].since >= Cooldown + failure.age => minted[r] BY DEF MintInv, FailureCounts
  <2> QED BY <2>3, <2>4
<1> QED BY <1>1, <1>2, <1>3 DEF MintInv

\* The episode that is none.
LEMMA NoEpisodeFacts ==
  /\ NoEpisode \in EpisodeSet /\ NoEpisode.since = 0 /\ NoEpisode.hard = 0
  /\ ~NoEpisode.grace /\ ~NoEpisode.refreshed /\ ~NoEpisode.open
<1>1. 0 \in 0..MaxHardFailures /\ 0 \in 0..EpisodeMax /\ 0 \in Nat BY Clocks
<1> QED BY <1>1 DEF NoEpisode, EpisodeSet

\* An episode whose refresh is over.
LEMMA Unrefreshed ==
  ASSUME NEW e \in EpisodeSet, NEW f, f = [e EXCEPT !.refreshed = FALSE]
  PROVE  /\ f \in EpisodeSet /\ f.since = e.since /\ f.hard = e.hard /\ ~f.refreshed /\ f.grace = e.grace
  BY DEF EpisodeSet

\* The episode of s is left as enter_backoff leaves it, for another reason
\* than an 808.
LEMMA LeavesForOther ==
  ASSUME Inv, MintInv, NEW s \in Sockets, TokenStale(s) \/ Redial(s)
  PROVE  MintInv'
<1>0. PICK why \in {OtherReason, 807} : enter_backoff(s, why, Left(s, why)) /\ phase[s] \in {"presented", "up"}
  BY DEF TokenStale, Redial, Rejected
<1>1. /\ UNCHANGED <<since_mint, failure, held, generation, calls, dialled, minted, cause>>
  BY DEF TokenStale, Redial, token_vars
<1>2. episode[s] \in EpisodeSet /\ frames[s] \in {"none", "some", "healthy"}
  BY DEF MintInv, MintTypes
<1>3. Left(s, why) \in {NoEpisode, [episode[s] EXCEPT !.refreshed = FALSE]}
  BY DEF Left
<1>4. /\ Left(s, why) \in EpisodeSet /\ ~Left(s, why).refreshed
      /\ Left(s, why) = NoEpisode \/ /\ Left(s, why).since = episode[s].since
                                     /\ Left(s, why).hard = episode[s].hard
                                     /\ Left(s, why).grace = episode[s].grace
  BY <1>2, <1>3, NoEpisodeFacts, Unrefreshed
<1>5. /\ phase'[s] = "backoff" /\ reason'[s] = why /\ frames'[s] = "none" /\ episode'[s] = Left(s, why)
      /\ minted'[s] = minted[s] /\ cause'[s] = cause[s] /\ calls'[s] = calls[s] /\ dialled'[s] = dialled[s]
      /\ \A r \in Sockets \ {s} : Same(r)
  BY <1>0, <1>1 DEF enter_backoff, MintInv, MintTypes, Inv, Types, Same
<1>6. MintTypes'
  BY <1>0, <1>1, <1>4 DEF enter_backoff, MintInv, MintTypes
<1>7. calls[s].at = "none" /\ calls[s].result = "none" /\ cause[s].why \notin {"hard", "age"}
  <2>1. calls[s].at = "none" BY <1>0 DEF Inv, OwnCall
  <2> QED BY <1>0, <2>1 DEF MintInv, ResultInv, EpisodeInv
<1>8. ResultInv(s)'
  BY <1>1, <1>5, <1>7 DEF ResultInv
<1>9. EpisodeInv(s)'
  <2>1. EpisodeInv(s) /\ ~Asking(s) BY <1>0 DEF MintInv, Asking
  <2>2. since_mint \in Nat BY DEF MintInv, MintTypes
  <2> QED BY <1>0, <1>1, <1>4, <1>5, <1>7, <2>1, <2>2, Clocks, NoEpisodeFacts DEF EpisodeInv, Asking, past_bound, OtherReason
<1>10. Keeps(s) BY <1>4, <1>5, NoEpisodeFacts DEF Keeps
<1> QED BY <1>1, <1>5, <1>6, <1>8, <1>9, <1>10, OneSlot DEF Callers

\* The steps of a dial that succeeds, and the end of a backoff that asked for
\* no token.
LEMMA DialSteps ==
  ASSUME Inv, MintInv, NEW s \in Sockets,
         ReadGeneration(s) \/ ReadToken(s) \/ Connect(s) \/ FrameReceived(s) \/ WakeToDial(s)
  PROVE  MintInv'
<1>0. UNCHANGED <<since_mint, failure, held, generation, calls, reason, episode, minted, cause>>
  BY DEF ReadGeneration, ReadToken, Connect, FrameReceived, WakeToDial, token_vars
<1>1. phase[s] \notin {"refresh", "parked"} /\ (phase[s] = "backoff" => reason[s] = OtherReason)
  BY DEF ReadGeneration, ReadToken, Connect, FrameReceived, WakeToDial
<1>2. PICK p \in Phases \ {"backoff", "refresh", "parked"}, f \in {"none", "some", frames[s]}, d \in Nat :
          /\ phase' = [phase EXCEPT ![s] = p] /\ frames' = [frames EXCEPT ![s] = f]
          /\ dialled' = [dialled EXCEPT ![s] = d]
          /\ p # "up" => f = "none"
          /\ f # "healthy" => frames[s] # "healthy"
  <2>1. EpisodeInv(s) BY DEF MintInv
  <2>2. /\ phase \in [Sockets -> Phases] /\ dialled \in [Sockets -> Nat] /\ generation \in Nat
        /\ frames \in [Sockets -> {"none", "some", "healthy"}]
    BY DEF Inv, Types, MintInv, MintTypes
  <2>3. CASE ReadGeneration(s)
    <3>1. frames[s] = "none" BY <2>1, <2>3 DEF ReadGeneration, EpisodeInv
    <3> QED BY <2>2, <2>3, <3>1 DEF ReadGeneration, Phases
  <2>4. CASE ReadToken(s)
    <3>1. frames[s] = "none" BY <2>1, <2>4 DEF ReadToken, EpisodeInv
    <3>2. frames' = [frames EXCEPT ![s] = frames[s]] /\ dialled' = [dialled EXCEPT ![s] = dialled[s]]
      BY <2>2, <2>4 DEF ReadToken
    <3> QED BY <2>2, <2>4, <3>1, <3>2 DEF ReadToken, Phases
  <2>5. CASE Connect(s)
    <3>1. frames' = [frames EXCEPT ![s] = frames[s]] /\ dialled' = [dialled EXCEPT ![s] = dialled[s]]
      BY <2>2, <2>5 DEF Connect
    <3> QED BY <2>2, <2>5, <3>1 DEF Connect, Phases
  <2>6. CASE FrameReceived(s)
    <3>1. phase' = [phase EXCEPT ![s] = "up"] /\ dialled' = [dialled EXCEPT ![s] = dialled[s]]
      BY <2>2, <2>6 DEF FrameReceived
    <3> QED BY <2>2, <2>6, <3>1 DEF FrameReceived, Phases
  <2>7. CASE WakeToDial(s)
    <3>1. frames[s] = "none" BY <2>1, <2>7 DEF WakeToDial, EpisodeInv
    <3>2. frames' = [frames EXCEPT ![s] = frames[s]] /\ dialled' = [dialled EXCEPT ![s] = dialled[s]]
      BY <2>2, <2>7 DEF WakeToDial
    <3> QED BY <2>2, <2>7, <3>1, <3>2 DEF WakeToDial, Phases
  <2> QED BY <2>3, <2>4, <2>5, <2>6, <2>7
<1>3. /\ phase'[s] = p /\ frames'[s] = f /\ dialled'[s] = d
      /\ \A r \in Sockets \ {s} : Same(r)
  BY <1>0, <1>2 DEF Inv, Types, MintInv, MintTypes, Same
<1>4. MintTypes' BY <1>0, <1>2 DEF MintInv, MintTypes
<1>5. calls[s].at = "none" /\ calls[s].result = "none"
  BY <1>1 DEF Inv, OwnCall, MintInv, ResultInv
<1>6. ResultInv(s)' BY <1>0, <1>5 DEF ResultInv
<1>7. EpisodeInv(s)'
  <2>1. EpisodeInv(s) /\ ~Asking(s) BY <1>1 DEF MintInv, Asking, OtherReason
  <2> QED BY <1>0, <1>1, <1>2, <1>3, <2>1 DEF EpisodeInv, Asking, past_bound, Phases
<1>8. Keeps(s) BY <1>0 DEF Keeps
<1> QED BY <1>0, <1>3, <1>4, <1>6, <1>7, <1>8, OneSlot DEF Callers

\* What a parked slot says of its cause.
LEMMA ParkedCause ==
  ASSUME NEW s \in Sockets, NEW why \in {"rejected", "hard", "age", "ceiling"}, NEW live \in BOOLEAN,
         cause \in [Sockets -> CauseSet], park(s, why, live)
  PROVE  cause' \in [Sockets -> CauseSet] /\ cause'[s].why = why
<1>1. [why |-> why, live |-> live] \in CauseSet /\ [why |-> why, live |-> live].why = why BY DEF CauseSet
<1> QED BY <1>1 DEF park

\* A fresh token that was rejected too: parked, for another reason.
LEMMA ParksRejected ==
  ASSUME Inv, MintInv, NEW s \in Sockets, WakeToPark(s)
  PROVE  MintInv'
<1>0. /\ UNCHANGED <<since_mint, failure, held, generation, calls, reason, dialled, frames, minted>>
      /\ park(s, "rejected", cause[s].live) /\ phase[s] = "backoff"
  BY DEF WakeToPark, token_vars
<1>1. /\ phase'[s] = "parked" /\ episode'[s] = NoEpisode /\ cause'[s].why = "rejected"
      /\ \A r \in Sockets \ {s} : Same(r)
  BY <1>0 DEF park, Inv, Types, MintInv, MintTypes, CauseSet, Same
<1>2. MintTypes'
  <2>1. episode' \in [Sockets -> EpisodeSet] BY <1>0, NoEpisodeFacts DEF park, MintInv, MintTypes
  <2>2. cause[s].live \in BOOLEAN BY DEF MintInv, MintTypes, CauseSet
  <2>3. cause' \in [Sockets -> CauseSet] BY <1>0, <2>2, ParkedCause DEF MintInv, MintTypes
  <2> QED BY <1>0, <2>1, <2>3 DEF MintInv, MintTypes
<1>3. calls[s].at = "none" /\ calls[s].result = "none"
  BY <1>0 DEF Inv, OwnCall, MintInv, ResultInv
<1>4. ResultInv(s)' BY <1>0, <1>3 DEF ResultInv
<1>5. EpisodeInv(s)'
  <2>1. since_mint \in Nat BY DEF MintInv, MintTypes
  <2> QED BY <1>0, <1>1, <2>1, NoEpisodeFacts, Clocks DEF EpisodeInv, Asking, past_bound
<1>6. Keeps(s) BY <1>1, NoEpisodeFacts DEF Keeps
<1> QED BY <1>0, <1>1, <1>2, <1>4, <1>5, <1>6, OneSlot DEF Callers

\* The episode an 808 belongs to is the slot's own, or has just begun.
LEMMA OpenedFacts ==
  ASSUME MintInv, NEW s \in Sockets
  PROVE  /\ Opened(s) \in EpisodeSet
         /\ \/ Opened(s) = episode[s] /\ frames[s] # "healthy"
            \/ Opened(s).since = 0 /\ Opened(s).hard = 0 /\ ~Opened(s).grace /\ ~Opened(s).refreshed
<1>1. episode[s] \in EpisodeSet BY DEF MintInv, MintTypes
<1>2. ASSUME NEW e, e = [NoEpisode EXCEPT !.open = TRUE]
      PROVE  e \in EpisodeSet /\ e.since = 0 /\ e.hard = 0 /\ ~e.grace /\ ~e.refreshed
  BY <1>2, NoEpisodeFacts DEF EpisodeSet
<1> QED BY <1>1, <1>2 DEF Opened

\* The episode an 808 that is not the last leaves.
LEMMA Excused ==
  ASSUME NEW e \in EpisodeSet, NEW f, f = [e EXCEPT !.grace = @ \/ past_bound(e), !.refreshed = FALSE]
  PROVE  /\ f \in EpisodeSet /\ f.since = e.since /\ f.hard = e.hard /\ ~f.refreshed
         /\ f.grace => e.grace \/ past_bound(e)
<1>1. past_bound(e) \in BOOLEAN BY DEF past_bound
<1>2. (e.grace \/ past_bound(e)) \in BOOLEAN BY <1>1
<1> QED BY <1>2 DEF EpisodeSet

\* An 808.  Parked for "hard" or "age", the episode is an old one, and a login
\* was tried in it.
LEMMA Rejections ==
  ASSUME Inv, MintInv, NEW s \in Sockets, AuthRejected(s)
  PROVE  MintInv'
<1> DEFINE e == Opened(s)
           g == [e EXCEPT !.grace = @ \/ past_bound(e), !.refreshed = FALSE]
<1>0. /\ UNCHANGED <<since_mint, failure, held, generation, calls, dialled>>
      /\ phase[s] \in {"presented", "up"}
      /\ minted' = [minted EXCEPT ![s] = minted[s] /\ e = episode[s]]
  BY DEF AuthRejected, Rejected, token_vars
<1>1. /\ e \in EpisodeSet
      /\ \/ e = episode[s] /\ frames[s] # "healthy"
         \/ e.since = 0 /\ e.hard = 0 /\ ~e.grace /\ ~e.refreshed
  BY OpenedFacts
<1>2. /\ minted \in [Sockets -> BOOLEAN] /\ since_mint \in Nat /\ EpisodeInv(s) /\ ~Asking(s)
      /\ e.since \in 0..EpisodeMax /\ e.hard \in 0..MaxHardFailures /\ Live(s) \in BOOLEAN
  <2>1. e.since \in 0..EpisodeMax /\ e.hard \in 0..MaxHardFailures BY <1>1 DEF EpisodeSet
  <2>2. Live(s) \in BOOLEAN BY Zenon DEF Live
  <2> QED BY <1>0, <2>1, <2>2 DEF MintInv, MintTypes, Asking
<1>3. minted' \in [Sockets -> BOOLEAN] /\ (minted'[s] <=> minted[s] /\ e = episode[s])
  <2>1. (minted[s] /\ e = episode[s]) \in BOOLEAN BY Zenon
  <2> QED BY <1>0, <1>2, <2>1
<1>4. calls[s].at = "none" /\ calls[s].result = "none"
  BY <1>0 DEF Inv, OwnCall, MintInv, ResultInv
<1>5. ResultInv(s)' BY <1>0, <1>4 DEF ResultInv
<1>6. Exhausted(e) => minted'[s]
  BY <1>1, <1>2, <1>3, Clocks DEF Exhausted, EpisodeInv
<1>7. Overdue(e) /\ held => minted'[s]
  BY <1>1, <1>2, <1>3, Clocks DEF Overdue, past_bound, EpisodeInv
<1>8. ASSUME NEW why \in {"ceiling", "hard", "age"}, park(s, why, Live(s)), UNCHANGED <<slept, reason, frames>>,
             why \in {"hard", "age"} => Exhausted(e) \/ Overdue(e)
      PROVE  MintInv'
  <2>1. /\ cause' \in [Sockets -> CauseSet] /\ cause'[s].why = why
    BY <1>2, <1>8, ParkedCause DEF MintInv, MintTypes
  <2>2. /\ phase'[s] = "parked" /\ episode'[s] = NoEpisode
        /\ episode' \in [Sockets -> EpisodeSet]
        /\ \A r \in Sockets \ {s} : Same(r)
    BY <1>0, <1>8, NoEpisodeFacts DEF park, Inv, Types, MintInv, MintTypes, Same
  <2>3. MintTypes' BY <1>0, <1>3, <1>8, <2>1, <2>2 DEF MintInv, MintTypes
  <2>4. EpisodeInv(s)'
    BY <1>0, <1>2, <1>6, <1>7, <1>8, <2>1, <2>2, NoEpisodeFacts, Clocks DEF EpisodeInv, Asking, past_bound
  <2>5. Keeps(s) BY <2>2, NoEpisodeFacts DEF Keeps
  <2> QED BY <1>0, <1>5, <2>2, <2>3, <2>4, <2>5, OneSlot DEF Callers
<1>9. ASSUME ~Exhausted(e), ~Overdue(e), enter_backoff(s, 808, g), cause' = [cause EXCEPT ![s].live = Live(s)]
      PROVE  MintInv'
  <2>1. /\ g \in EpisodeSet /\ g.since = e.since /\ g.hard = e.hard /\ ~g.refreshed
        /\ g.grace => e.grace \/ past_bound(e)
    BY <1>1, Excused
  <2>2. cause' \in [Sockets -> CauseSet] /\ cause'[s].why = cause[s].why
    BY <1>2, <1>9 DEF MintInv, MintTypes, CauseSet
  <2> HIDE DEF g
  <2>3. /\ phase'[s] = "backoff" /\ reason'[s] = 808 /\ frames'[s] = "none" /\ episode'[s] = g
        /\ \A r \in Sockets \ {s} : Same(r)
    BY <1>0, <1>9 DEF enter_backoff, Inv, Types, MintInv, MintTypes, Same
  <2>4. MintTypes' BY <1>0, <1>3, <1>9, <2>1, <2>2 DEF enter_backoff, MintInv, MintTypes
  <2>5. cause[s].why \notin {"hard", "age"} BY <1>0, <1>2 DEF EpisodeInv
  <2>6. e.grace => past_bound(e) BY <1>1, <1>2 DEF EpisodeInv
  <2>7. minted'[s] \/ since_mint >= e.since \/ since_mint >= Cooldown
    BY <1>1, <1>2, <1>3 DEF EpisodeInv
  <2>8. e.hard # MaxHardFailures /\ e.hard < MaxHardFailures BY <1>2, <1>9, Clocks DEF Exhausted
  <2>9. EpisodeInv(s)'
    BY <1>0, <2>1, <2>2, <2>3, <2>5, <2>6, <2>7, <2>8 DEF EpisodeInv, Asking, past_bound
  <2>10. Keeps(s) BY <1>1, <1>3, <2>1, <2>3, <1>2 DEF Keeps
  <2> QED BY <1>0, <1>5, <2>3, <2>4, <2>9, <2>10, OneSlot DEF Callers
<1> QED BY <1>8, <1>9 DEF AuthRejected

\* A slot asks for a fresh token.
LEMMA Asks ==
  ASSUME Inv, MintInv, NEW s \in Sockets, WakeToRefresh(s)
  PROVE  MintInv'
<1>0. /\ UNCHANGED <<since_mint, failure, held, generation, dialled, frames, reason, episode, minted, cause>>
      /\ phase' = [phase EXCEPT ![s] = "refresh"] /\ phase[s] = "backoff"
      /\ calls' = [calls EXCEPT ![s] = [at |-> "queued", seen |-> dialled[s], got |-> NoToken, result |-> "none"]]
  BY DEF WakeToRefresh, Sampled, manager
<1>1. /\ phase'[s] = "refresh" /\ calls'[s].at = "queued" /\ calls'[s].result = "none"
      /\ \A c \in Callers \ {s} : calls'[c] = calls[c]
      /\ \A r \in Sockets \ {s} : Same(r)
  BY <1>0 DEF Inv, Types, Same, Callers
<1>2. MintTypes' BY <1>0 DEF MintInv, MintTypes
<1>3. ResultInv(s)' BY <1>1 DEF ResultInv
<1>4. EpisodeInv(s)' BY <1>0, <1>1 DEF MintInv, EpisodeInv, Asking, past_bound
<1>5. Keeps(s) BY <1>0 DEF Keeps
<1> QED BY <1>0, <1>1, <1>2, <1>3, <1>4, <1>5, OneSlot

\* What note_token_refresh makes of an episode.
LEMMA NotedFacts ==
  ASSUME Inv, NEW e \in EpisodeSet, NEW outcome, e.hard < MaxHardFailures
  PROVE  /\ Noted(e, outcome) \in EpisodeSet
         /\ outcome = "fresh" => /\ Noted(e, outcome).since = 0 /\ Noted(e, outcome).hard = e.hard
                                 /\ ~Noted(e, outcome).grace
         /\ outcome # "fresh" => /\ Noted(e, outcome).since = e.since
                                 /\ Noted(e, outcome).grace = e.grace
                                 /\ Noted(e, outcome).hard \in {e.hard, e.hard + 1}
         /\ outcome \notin {"fresh", "failed"} => Noted(e, outcome).hard = e.hard
<1>1. generation \in Nat /\ 0 \in 0..EpisodeMax BY Clocks DEF Inv, Types
<1>2. e.hard + 1 \in 0..MaxHardFailures BY Clocks DEF EpisodeSet
<1>3. CASE outcome = "fresh"
  <2>1. Noted(e, outcome) = [e EXCEPT !.refreshed = TRUE, !.verified = generation, !.since = 0, !.grace = FALSE]
    BY <1>3 DEF Noted
  <2> QED BY <1>1, <1>3, <2>1 DEF EpisodeSet
<1>4. CASE outcome = "failed"
  <2>1. Noted(e, outcome) = [e EXCEPT !.refreshed = TRUE, !.hard = @ + 1] BY <1>4 DEF Noted
  <2> QED BY <1>2, <1>4, <2>1 DEF EpisodeSet
<1>5. CASE outcome \notin {"fresh", "failed"}
  <2>1. Noted(e, outcome) = [e EXCEPT !.refreshed = TRUE] BY <1>5 DEF Noted
  <2> QED BY <1>5, <2>1 DEF EpisodeSet
<1> QED BY <1>3, <1>4, <1>5

\* A slot takes the answer to its call.  If it is no fresh token, the renewal
\* failed, after a login, or was put off.
LEMMA Reports ==
  ASSUME Inv, MintInv, NEW s \in Sockets, Report(s)
  PROVE  MintInv'
<1> DEFINE e == episode[s]
           outcome == Outcome(s)
<1>0. /\ UNCHANGED <<since_mint, failure, held, generation, dialled, frames, reason, cause>>
      /\ phase' = [phase EXCEPT ![s] = "dial"] /\ phase[s] = "refresh" /\ calls[s].at = "ended"
      /\ calls' = [calls EXCEPT ![s] = NoCall] /\ note_token_refresh(s, outcome)
  BY DEF Report, manager
<1>1. /\ phase'[s] = "dial" /\ calls'[s].at = "none" /\ calls'[s].result = "none"
      /\ \A c \in Callers \ {s} : calls'[c] = calls[c]
      /\ \A r \in Sockets \ {s} : phase'[r] = phase[r]
  BY <1>0 DEF Inv, Types, Callers, NoCall
<1>2. /\ e \in EpisodeSet /\ EpisodeInv(s) /\ ResultInv(s) /\ since_mint \in Nat
      /\ minted \in [Sockets -> BOOLEAN] /\ ~e.refreshed /\ frames[s] = "none"
      /\ calls[s].result \in Results \ {"none"} /\ dialled[s] \in Nat /\ generation \in Nat
  BY <1>0 DEF MintInv, MintTypes, EpisodeInv, ResultInv, Inv, Types, Callers
<1>3. outcome # "fresh" => calls[s].result = outcome /\ outcome \in {"deferred", "failed"}
  BY <1>2 DEF Outcome, ResultInv, Results
<1>4. outcome # "fresh" /\ held /\ past_bound(e) => minted[s]
  BY <1>2, <1>3 DEF ResultInv
<1>5. outcome = "failed" => minted[s]
  BY <1>2, <1>3 DEF ResultInv
<1>6. ResultInv(s)' BY <1>1 DEF ResultInv
<1>7. cause[s].why \notin {"hard", "age"} BY <1>0, <1>2 DEF EpisodeInv
<1> HIDE DEF outcome
<1>8. CASE reason[s] = 808
  <2> DEFINE f == Noted(e, outcome)
  <2>1. e.hard < MaxHardFailures BY <1>0, <1>2, <1>8 DEF EpisodeInv, Asking
  <2>2. /\ f \in EpisodeSet
        /\ outcome = "fresh" => f.since = 0 /\ f.hard = e.hard /\ ~f.grace
        /\ outcome # "fresh" => f.since = e.since /\ f.grace = e.grace
        /\ outcome \notin {"fresh", "failed"} => f.hard = e.hard
    BY <1>2, <2>1, NotedFacts
  <2> HIDE DEF f
  <2>3. episode' = [episode EXCEPT ![s] = f] /\ minted' = [minted EXCEPT ![s] = minted[s] /\ outcome # "fresh"]
    BY <1>0, <1>8 DEF note_token_refresh, f
  <2>4. minted' \in [Sockets -> BOOLEAN] /\ (minted'[s] <=> minted[s] /\ outcome # "fresh")
    <3>1. (minted[s] /\ outcome # "fresh") \in BOOLEAN BY Zenon
    <3> QED BY <1>2, <2>3, <3>1
  <2>5. episode' \in [Sockets -> EpisodeSet] /\ episode'[s] = f
    BY <2>2, <2>3 DEF MintInv, MintTypes
  <2>6. \A r \in Sockets \ {s} : Same(r)
    BY <1>0, <1>1, <1>2, <2>3 DEF MintInv, MintTypes, Same
  <2>7. MintTypes' BY <1>0, <2>4, <2>5 DEF MintInv, MintTypes
  <2>8. e.hard \in Nat /\ e.since \in Nat /\ f.since \in Nat BY <1>2, <2>2 DEF EpisodeSet
  <2>9. EpisodeInv(s)'
    <3>1. minted'[s] \/ since_mint >= f.since \/ since_mint >= Cooldown
      BY <1>2, <2>2, <2>4 DEF EpisodeInv
    <3>2. f.hard = MaxHardFailures => minted'[s]
      BY <1>5, <2>1, <2>2, <2>4, <2>8, Clocks
    <3>3. f.grace => past_bound(f) /\ (held => minted'[s])
      BY <1>2, <1>4, <2>2, <2>4 DEF EpisodeInv, past_bound
    <3>4. held /\ past_bound(f) => minted'[s]
      BY <1>4, <2>2, <2>4, Clocks DEF past_bound
    <3> QED BY <1>0, <1>1, <1>2, <1>7, <2>5, <3>1, <3>2, <3>3, <3>4 DEF EpisodeInv, Asking, past_bound
  <2>10. Keeps(s) BY <1>2, <2>2, <2>4, <2>5 DEF Keeps
  <2> QED BY <1>0, <1>1, <1>6, <2>6, <2>7, <2>9, <2>10, OneSlot
<1>9. CASE reason[s] # 808
  <2>1. UNCHANGED <<episode, minted>> BY <1>0, <1>9 DEF note_token_refresh
  <2>2. \A r \in Sockets \ {s} : Same(r) BY <1>0, <1>1, <2>1 DEF Same
  <2>3. MintTypes' BY <1>0, <2>1 DEF MintInv, MintTypes
  <2>4. EpisodeInv(s)' BY <1>0, <1>1, <1>2, <1>9, <2>1 DEF EpisodeInv, Asking, past_bound
  <2>5. Keeps(s) BY <2>1 DEF Keeps
  <2> QED BY <1>0, <1>1, <1>6, <2>2, <2>3, <2>4, <2>5, OneSlot
<1> QED BY <1>8, <1>9

\* A step of the call of c that tries no login.
LEMMA CallOnly ==
  ASSUME Inv, MintInv, NEW c \in Callers,
         UNCHANGED <<phase, dialled, frames, reason, episode, cause, held, since_mint, minted>>,
         generation' \in Nat, generation <= generation',
         \A d \in Callers \ {c} : calls'[d] = calls[d],
         calls'[c].at \in {"mint", "minted"} => calls[c].at \in {"mint", "minted"},
         failure' = failure \/ FailureCounts', failure' \in [seen : Nat, age : 0..Reuse],
         c \in Sockets => ResultInv(c)'
  PROVE  MintInv'
<1>1. MintTypes' BY DEF MintInv, MintTypes
<1>2. LoginCounts' BY DEF MintInv, LoginCounts
<1>3. FailureCounts' BY DEF MintInv, FailureCounts
<1>4. ASSUME NEW r \in Sockets PROVE ResultInv(r)' /\ EpisodeInv(r)'
  <2>1. EpisodeInv(r)' BY DEF MintInv, EpisodeInv, Asking, past_bound
  <2>2. CASE r = c BY <2>1, <2>2
  <2>3. CASE r # c
    <3>1. /\ Same(r) /\ calls'[r] = calls[r] /\ ResultInv(r) /\ EpisodeInv(r)
      BY <2>3 DEF Same, MintInv, Callers
    <3> QED BY <3>1, Untouched
  <2> QED BY <2>2, <2>3
<1> QED BY <1>1, <1>2, <1>3, <1>4 DEF MintInv

\* A login is tried, and counts for every slot.
LEMMA LoginTried ==
  ASSUME Inv, MintInv, NEW c \in Callers,
         UNCHANGED <<phase, dialled, frames, reason, episode, cause, held, failure, generation>>,
         since_mint' = 0, minted' = [s \in Sockets |-> TRUE],
         calls[c].at \in {"renew", "renewed"}, calls' = [calls EXCEPT ![c].at = "mint"]
  PROVE  MintInv'
<1>1. MintTypes' BY Clocks DEF MintInv, MintTypes
<1>2. LoginCounts' /\ FailureCounts' BY DEF LoginCounts, FailureCounts
<1>3. ASSUME NEW r \in Sockets PROVE ResultInv(r)' /\ EpisodeInv(r)'
  <2>1. minted'[r] OBVIOUS
  <2>2. EpisodeInv(r)' BY <2>1 DEF MintInv, EpisodeInv, Asking, past_bound
  <2>3. r \in Callers /\ ResultInv(r) BY DEF Callers, MintInv
  <2>4. /\ calls'[r].result = calls[r].result
        /\ calls'[r].at = "ended" <=> calls[r].at = "ended"
    BY <2>3 DEF Inv, Types
  <2>5. ResultInv(r)' BY <2>1, <2>3, <2>4 DEF ResultInv
  <2> QED BY <2>2, <2>5
<1> QED BY <1>1, <1>2, <1>3 DEF MintInv

\* A call fails: after a login, or because the last login is too recent.
LEMMA CallFails ==
  ASSUME Inv, MintInv, NEW c \in Callers, NEW result \in {"deferred", "failed"}, Failed(c, result),
         UNCHANGED <<phase, dialled, frames, reason, episode, cause, held, since_mint, minted, generation>>,
         result = "failed" => calls[c].at \in {"mint", "minted"},
         result = "deferred" => since_mint < Cooldown \/ ~held
  PROVE  MintInv'
<1>1. /\ calls'[c].at = "ended" /\ calls'[c].result = result
      /\ \A d \in Callers \ {c} : calls'[d] = calls[d]
      /\ generation \in Nat /\ calls[c].seen \in Nat
  BY DEF Failed, Inv, Types
<1>2. held /\ result = "deferred" => \A r \in Sockets : episode[r].since >= Cooldown => minted[r]
  <2> SUFFICES ASSUME held, result = "deferred", NEW r \in Sockets, episode[r].since >= Cooldown PROVE minted[r]
    OBVIOUS
  <2>1. since_mint < Cooldown /\ since_mint \in Nat /\ episode[r].since \in Nat
    BY DEF MintInv, MintTypes, EpisodeSet
  <2> QED BY <2>1, Clocks DEF MintInv, EpisodeInv
<1>3. result = "failed" => \A r \in Sockets : episode[r].since >= Cooldown => minted[r]
  <2> SUFFICES ASSUME result = "failed", NEW r \in Sockets, episode[r].since >= Cooldown PROVE minted[r]
    OBVIOUS
  <2>1. episode[r].since # 0 BY Clocks
  <2> QED BY <2>1 DEF MintInv, LoginCounts
<1>4. c \in Sockets => FailureCounts'
  <2> SUFFICES ASSUME c \in Sockets PROVE FailureCounts' OBVIOUS
  <2>1. failure'.age = 0 BY DEF Failed
  <2>2. Cooldown + 0 = Cooldown BY Clocks
  <2> QED BY <1>2, <1>3, <2>1, <2>2 DEF FailureCounts
<1>5. failure' \in [seen : Nat, age : 0..Reuse] /\ (c \notin Sockets => failure' = failure)
  BY <1>1, Clocks DEF Failed, MintInv, MintTypes
<1>6. c \in Sockets => ResultInv(c)'
  <2> SUFFICES ASSUME c \in Sockets PROVE ResultInv(c)' OBVIOUS
  <2>1. ResultInv(c) BY DEF MintInv
  <2>2. episode[c].since \in Nat BY DEF MintInv, MintTypes, EpisodeSet
  <2>3. held /\ result = "deferred" /\ past_bound(episode[c]) => minted[c]
    BY <1>2, <2>2, Clocks DEF past_bound
  <2>4. result = "failed" => minted[c] BY <2>1 DEF ResultInv
  <2> QED BY <1>1, <2>3, <2>4 DEF ResultInv
<1> QED BY <1>1, <1>4, <1>5, <1>6, CallOnly

\* The steps of a call.
LEMMA CallNotes ==
  ASSUME Inv, MintInv, NEW c \in Callers, Proceed(c) \/ Lost(c)
  PROVE  MintInv'
<1>0. /\ (CallStep(c) \/ CallLost(c)) /\ MintNoted(c)
      /\ UNCHANGED <<phase, dialled, frames, reason, episode, cause>>
  BY DEF Proceed, Lost, slots
<1>1. /\ calls \in CallSet /\ generation \in Nat
      /\ c \in Sockets => ResultInv(c)
      /\ failure \in [seen : Nat, age : 0..Reuse]
  BY DEF Inv, Types, CallSet, MintInv, MintTypes
<1>2. CASE RenewalRefused(c) \/ CallLost(c)
  <2>1. UNCHANGED <<held, generation>>
    BY <1>2 DEF RenewalRefused, CallLost, RenewalLost, MintLost
  <2>2. CASE MintLost(c)
    <3>1. Failed(c, "failed") /\ calls[c].at \in {"mint", "minted"} /\ since_mint' = since_mint
      BY <2>2 DEF MintLost
    <3>2. calls'[c].at = "ended" BY <1>1, <3>1 DEF Failed, CallSet
    <3>3. minted' = minted BY <1>0, <3>2 DEF MintNoted
    <3> QED BY <1>0, <2>1, <3>1, <3>3, CallFails
  <2>3. CASE Fallback(c) /\ calls[c].at \in {"renew", "renewed"}
    <3>1. CASE (since_mint < Cooldown \/ ~held) /\ Failed(c, "deferred") /\ UNCHANGED since_mint
      <4>1. calls'[c].at = "ended" BY <1>1, <3>1 DEF Failed, CallSet
      <4>2. minted' = minted BY <1>0, <4>1 DEF MintNoted
      <4> QED BY <1>0, <2>1, <3>1, <4>2, CallFails
    <3>2. CASE since_mint' = 0 /\ calls' = [calls EXCEPT ![c].at = "mint"] /\ UNCHANGED <<gate, failure>>
      <4>1. calls'[c].at = "mint" BY <1>1, <3>2 DEF CallSet
      <4>2. minted' = [s \in Sockets |-> TRUE] BY <1>0, <2>3, <4>1 DEF MintNoted
      <4> QED BY <1>0, <2>1, <2>3, <3>2, <4>2, LoginTried
    <3> QED BY <2>3, <3>1, <3>2 DEF Fallback
  <2> QED BY <1>2, <2>2, <2>3 DEF RenewalRefused, CallLost, RenewalLost
<1>3. CASE Coalesce(c) \/ ReuseFailure(c) \/ SendRenewal(c) \/ Renewed(c) \/ Minted(c) \/ Store(c) \/ Bump(c)
  <2>1. /\ UNCHANGED <<held, since_mint, failure>> /\ generation' \in {generation, generation + 1}
        /\ \A d \in Callers \ {c} : calls'[d] = calls[d]
    BY <1>1, <1>3 DEF Coalesce, ReuseFailure, SendRenewal, Renewed, Minted, Store, Bump, Issue, manager, CallSet
  <2>2. /\ calls'[c].at = "mint" => calls[c].at = "mint"
        /\ calls'[c].at = "minted" => calls[c].at = "mint"
    BY <1>1, <1>3 DEF Coalesce, ReuseFailure, SendRenewal, Renewed, Minted, Store, Bump, Issue, CallSet
  <2>3. minted' = minted BY <1>0, <2>2 DEF MintNoted
  <2>4. ASSUME c \in Sockets PROVE ResultInv(c)'
    <3>1. /\ dialled[c] \in Nat /\ dialled[c] <= generation /\ ResultInv(c) /\ dialled'[c] = dialled[c]
          /\ calls[c].at # "none" => calls[c].seen = dialled[c]
      BY <1>0, <1>1, <2>4 DEF Inv, Types, NotAhead, OwnCall
    <3>2. CASE Coalesce(c)
      <4>1. calls'[c].at = "ended" /\ calls'[c].result = "ok" /\ generation' = generation
            /\ generation # calls[c].seen /\ calls[c].at = "queued"
        BY <1>1, <3>2 DEF Coalesce, AtGate, manager, CallSet
      <4> QED BY <1>1, <3>1, <4>1 DEF ResultInv
    <3>3. CASE ReuseFailure(c)
      <4>1. calls'[c].at = "ended" /\ calls'[c].result = "deferred" /\ failure.age < Reuse
        BY <1>1, <3>3 DEF ReuseFailure, recent_failure_for, CallSet
      <4>2. episode[c].since \in Nat /\ failure.age \in Nat BY <1>1, <2>4 DEF MintInv, MintTypes, EpisodeSet
      <4>3. past_bound(episode[c]) => episode[c].since >= Cooldown + failure.age
        BY <4>1, <4>2, Clocks DEF past_bound
      <4>4. held /\ past_bound(episode[c]) => minted[c]
        BY <2>4, <4>1, <4>3 DEF MintInv, FailureCounts
      <4> QED BY <1>0, <2>1, <2>3, <4>1, <4>4 DEF ResultInv, past_bound
    <3>4. CASE Bump(c)
      <4>1. /\ calls'[c].at = "ended" /\ calls'[c].result = "ok" /\ generation' = generation + 1
        BY <1>1, <3>4 DEF Bump, CallSet
      <4> QED BY <1>1, <3>1, <4>1 DEF ResultInv
    <3>5. CASE SendRenewal(c) \/ Renewed(c) \/ Minted(c) \/ Store(c)
      <4>1. /\ calls'[c].result = calls[c].result /\ calls'[c].at # "ended" /\ calls[c].at # "ended"
        BY <1>1, <3>5 DEF SendRenewal, AtGate, Renewed, Minted, Store, Issue, CallSet
      <4>2. calls'[c].at \in {"mint", "minted"} => minted[c] BY <2>2, <3>1 DEF ResultInv
      <4> QED BY <2>3, <3>1, <4>1, <4>2 DEF ResultInv
    <3> QED BY <1>3, <3>2, <3>3, <3>4, <3>5
  <2>5. generation' \in Nat /\ generation <= generation' BY <1>1, <2>1
  <2> QED BY <1>0, <1>1, <2>1, <2>2, <2>3, <2>4, <2>5, CallOnly
<1> QED BY <1>0, <1>2, <1>3 DEF CallStep

\* Callers of another kind.
LEMMA OthersNote ==
  ASSUME Inv, MintInv, NEW c \in Others, StartForced(c) \/ Forced(c)
  PROVE  MintInv'
<1>0. c \in Callers /\ c \notin Sockets BY TokenAssumption DEF Callers
<1>1. /\ UNCHANGED <<phase, dialled, frames, reason, episode, cause, held, since_mint, minted, failure, generation>>
      /\ generation \in Nat
  BY DEF StartForced, Forced, AskForCurrent, Taken, slots, manager, Inv, Types
<1>2. /\ \A d \in Callers \ {c} : calls'[d] = calls[d]
      /\ calls'[c].at \in {"queued", "none"}
  BY <1>0 DEF StartForced, Forced, AskForCurrent, Sampled, Taken, NoCall, Inv, Types
<1>3. failure' \in [seen : Nat, age : 0..Reuse] BY <1>1 DEF MintInv, MintTypes
<1> QED BY <1>0, <1>1, <1>2, <1>3, CallOnly

\* The world, whose one effect here is that the lock is lost.
LEMMA WorldNotes ==
  ASSUME Inv, MintInv, held' \in BOOLEAN, held' => held,
         UNCHANGED <<phase, dialled, frames, reason, episode, cause, since_mint, minted, failure, generation, calls>>
  PROVE  MintInv'
<1>1. MintTypes' /\ LoginCounts' /\ FailureCounts' BY DEF MintInv, MintTypes, LoginCounts, FailureCounts
<1>2. ASSUME NEW r \in Sockets PROVE ResultInv(r)' /\ EpisodeInv(r)'
  <2>1. Same(r) /\ ResultInv(r) /\ EpisodeInv(r) /\ generation \in Nat BY DEF Same, MintInv, Inv, Types
  <2> QED BY <2>1, Untouched
<1> QED BY <1>1, <1>2 DEF MintInv

\* A tick: no call is under way, and the two clocks go on together.
LEMMA TickNotes ==
  ASSUME Inv, MintInv, Tick
  PROVE  MintInv'
<1>0. /\ UNCHANGED <<phase, dialled, reason, cause, held, minted, generation, calls>>
      /\ since_mint' = Older(since_mint, Cooldown) /\ failure' = [failure EXCEPT !.age = Older(failure.age, Reuse)]
      /\ \A c \in Callers : calls[c].at = "none"
  BY DEF Tick, Aged, Quiet
<1>1. /\ since_mint \in 0..Cooldown /\ since_mint' \in 0..Cooldown
      /\ since_mint' = since_mint + 1 \/ since_mint' = Cooldown
      /\ failure.age \in 0..Reuse /\ failure' \in [seen : Nat, age : 0..Reuse]
      /\ failure'.age = failure.age + 1 \/ failure'.age = Reuse
  BY <1>0, Clocks DEF Older, MintInv, MintTypes
<1>2. ASSUME NEW r \in Sockets
      PROVE  /\ episode'[r] \in EpisodeSet
             /\ episode'[r].since \in {episode[r].since, episode[r].since + 1}
             /\ episode'[r].since < EpisodeMax => episode'[r].since <= episode[r].since + 1
             /\ past_bound(episode[r]) => past_bound(episode'[r])
             /\ episode'[r].hard = episode[r].hard /\ episode'[r].grace = episode[r].grace
             /\ episode'[r].refreshed = episode[r].refreshed
  <2>1. episode[r] \in EpisodeSet BY DEF MintInv, MintTypes
  <2>2. episode'[r] = episode[r] \/ episode'[r] = [episode[r] EXCEPT !.since = Older(@, EpisodeMax)]
    BY DEF Tick
  <2>3. episode[r].since \in 0..EpisodeMax BY <2>1 DEF EpisodeSet
  <2>4. /\ Older(episode[r].since, EpisodeMax) \in 0..EpisodeMax
        /\ Older(episode[r].since, EpisodeMax) \in {episode[r].since, episode[r].since + 1}
        /\ episode[r].since >= EpisodeMax => Older(episode[r].since, EpisodeMax) >= EpisodeMax
    BY <2>3, Clocks DEF Older
  <2>5. CASE episode'[r] = episode[r] BY <2>1, <2>3, <2>5, Clocks
  <2>6. CASE episode'[r] = [episode[r] EXCEPT !.since = Older(@, EpisodeMax)]
    <3>1. /\ episode'[r] \in EpisodeSet /\ episode'[r].since = Older(episode[r].since, EpisodeMax)
          /\ episode'[r].hard = episode[r].hard /\ episode'[r].grace = episode[r].grace
          /\ episode'[r].refreshed = episode[r].refreshed
      BY <2>1, <2>4, <2>6 DEF EpisodeSet
    <3> QED BY <2>3, <2>4, <3>1, Clocks DEF past_bound
  <2> QED BY <2>2, <2>5, <2>6
<1>3. MintTypes'
  <2>1. episode' \in [Sockets -> EpisodeSet] BY <1>2 DEF Tick
  <2>2. frames' \in [Sockets -> {"none", "some", "healthy"}] BY DEF Tick, MintInv, MintTypes
  <2> QED BY <1>0, <1>1, <2>1, <2>2 DEF MintInv, MintTypes
<1>4. LoginCounts' BY <1>0 DEF LoginCounts
<1>5. FailureCounts'
  <2> SUFFICES ASSUME held, failure'.age < Reuse, NEW r \in Sockets, episode'[r].since >= Cooldown + failure'.age
               PROVE  minted[r]
    BY <1>0 DEF FailureCounts
  <2>1. episode[r].since \in Nat BY DEF MintInv, MintTypes, EpisodeSet
  <2>2. failure'.age = failure.age + 1 /\ failure.age < Reuse BY <1>1, Clocks
  <2>3. episode[r].since >= Cooldown + failure.age BY <1>1, <1>2, <2>1, <2>2, Clocks
  <2> QED BY <2>2, <2>3 DEF MintInv, FailureCounts
<1>6. ASSUME NEW r \in Sockets PROVE ResultInv(r)' /\ EpisodeInv(r)'
  <2>1. /\ ResultInv(r) /\ EpisodeInv(r) /\ r \in Callers /\ episode[r].since \in Nat /\ episode[r] \in EpisodeSet
    BY DEF MintInv, MintTypes, Callers, EpisodeSet
  <2>2. calls[r].at = "none" /\ calls[r].result = "none" BY <1>0, <2>1 DEF ResultInv
  <2>3. ResultInv(r)' BY <1>0, <2>2 DEF ResultInv
  <2>4. frames'[r] = IF frames[r] = "some" THEN "healthy" ELSE frames[r] BY DEF Tick
  <2>5. frames'[r] # "healthy" /\ held /\ phase[r] # "parked" => phase[r] = "backoff"
    BY <2>4 DEF Tick, Quiet, MintInv, MintTypes
  <2>6. minted[r] \/ since_mint' >= episode'[r].since \/ since_mint' >= Cooldown
    BY <1>1, <1>2, <2>1, Clocks DEF EpisodeInv
  <2>7. phase[r] # "up" /\ phase[r] # "parked" => frames'[r] = "none"
    BY <2>1, <2>4 DEF EpisodeInv
  <2>8. phase[r] = "parked" => ~episode[r].refreshed
    BY <2>1 DEF EpisodeInv
  <2>9. held /\ frames'[r] # "healthy" /\ episode'[r].refreshed /\ past_bound(episode'[r]) => minted[r]
    BY <1>2, <2>1, <2>5, <2>8 DEF EpisodeInv
  <2> QED BY <1>0, <1>2, <2>1, <2>3, <2>6, <2>7, <2>9 DEF EpisodeInv, Asking, past_bound
<1> QED BY <1>3, <1>4, <1>5, <1>6 DEF MintInv

\* Every step keeps the invariant.
LEMMA MintStep == Inv /\ MintInv /\ [Next]_vars => MintInv'
<1> SUFFICES ASSUME Inv, MintInv, [Next]_vars PROVE MintInv' OBVIOUS
<1>1. ASSUME NEW s \in Sockets, SlotStep(s) \/ Redial(s) PROVE MintInv'
  BY <1>1, LeavesForOther, DialSteps, ParksRejected, Rejections, Asks, Reports DEF SlotStep
<1>2. ASSUME NEW c \in Callers, Proceed(c) \/ Lost(c) PROVE MintInv'
  BY <1>2, CallNotes
<1>3. ASSUME NEW c \in Others, StartForced(c) \/ Forced(c) PROVE MintInv'
  BY <1>3, OthersNote
<1>4. CASE World \/ UNCHANGED vars
  <2>1. /\ UNCHANGED <<phase, dialled, frames, reason, episode, cause, since_mint, minted, failure, generation, calls>>
        /\ held' = held \/ (held /\ held' = FALSE)
    BY <1>4 DEF World, Expire, OtherMint, LoseLock, manager, slots, vars, token_vars
  <2>2. held \in BOOLEAN BY DEF MintInv, MintTypes
  <2>3. held' \in BOOLEAN /\ (held' => held)
    <3>1. CASE held' = held BY <2>2, <3>1
    <3>2. CASE held' = FALSE BY <3>2
    <3> QED BY <2>1, <3>1, <3>2
  <2> QED BY <2>1, <2>3, WorldNotes
<1>5. CASE Tick BY <1>5, TickNotes
<1> QED BY <1>1, <1>2, <1>3, <1>4, <1>5 DEF Next

\* It holds at the start.
LEMMA MintInit == Init => MintInv
<1> SUFFICES ASSUME Init PROVE MintInv OBVIOUS
<1>1. /\ \A c \in Callers : calls[c] = NoCall
      /\ \A s \in Sockets : /\ phase[s] = "dial" /\ frames[s] = "none" /\ episode[s] = NoEpisode
                            /\ cause[s] = NotParked
      /\ since_mint = Cooldown /\ failure = [seen |-> 0, age |-> Reuse] /\ held = TRUE
  BY DEF Init, TokenInit
<1>2. NotParked \in CauseSet /\ NotParked.why = "none" BY DEF NotParked, CauseSet
<1>3. NoCall.at = "none" /\ NoCall.result = "none" BY DEF NoCall
<1>4. MintTypes
  BY <1>1, <1>2, NoEpisodeFacts, Clocks DEF Init, TokenInit, MintTypes, OtherReason
<1>5. LoginCounts /\ FailureCounts BY <1>1, <1>3, Clocks DEF LoginCounts, FailureCounts
<1>6. ASSUME NEW s \in Sockets PROVE ResultInv(s) /\ EpisodeInv(s)
  <2>1. s \in Callers BY DEF Callers
  <2>2. ResultInv(s) BY <1>1, <1>3, <2>1 DEF ResultInv
  <2>3. EpisodeInv(s) BY <1>1, <1>2, NoEpisodeFacts, Clocks DEF EpisodeInv, Asking, past_bound
  <2> QED BY <2>2, <2>3
<1> QED BY <1>4, <1>5, <1>6 DEF MintInv

\* While the process holds the instance lock, no slot parks for want of a
\* fresh token unless a login was tried since its episode last made progress,
\* for any number of slots and callers and whatever is lost (note_token_refresh
\* and the const assertion on AUTH_REJECT_EPISODE_MAX_MS).
THEOREM LoginBeforePark == Spec => []MintBeforePark
<1>1. MintInv => MintBeforePark BY DEF MintInv, EpisodeInv, MintBeforePark
<1> QED BY <1>1, InvInit, InvStep, MintInit, MintStep, PTL DEF Spec

-----------------------------------------------------------------------------
(* The types, and the ceiling of the refreshes.  A slot asks the ceiling   *)
(* when its login is rejected and charges the ring after the backoff and   *)
(* the refresh: in between the ages only grow, and nobody else writes the  *)
(* ring.                                                                   *)

Numbers ==
    /\ active \in 0..issued /\ token \in 1..issued
    /\ gate \in Callers \cup {NoOne}
    /\ presented \in [Sockets -> 1..issued]
    /\ \A c \in Callers : /\ calls[c].got \in 0..issued
                          /\ calls[c].at \in {"renewed", "minted"} => calls[c].got >= 1

Rings ==
    /\ refreshes \in [Sockets -> [1..MaxRefreshes -> 0..Window]]
    /\ \A s \in Sockets : Asking(s) => Oldest(s) >= Window

Rest ==
    /\ slept \in [Sockets -> BOOLEAN]
    /\ paged \in Nat /\ pages \in Seq(Nat)
    /\ scenario \in Scenarios /\ budget \in 0..scenario.budget

\* The number of a token stays one when more are issued.
LEMMA NumbersGrow ==
  ASSUME Inv, Numbers, issued' \in Nat, issued <= issued', active' \in 0..issued', token' \in 1..issued',
         gate' \in Callers \cup {NoOne}, presented' \in [Sockets -> 1..issued'],
         \A c \in Callers : \/ calls'[c] = calls[c]
                            \/ /\ calls'[c].got \in 0..issued'
                               /\ calls'[c].at \in {"renewed", "minted"} => calls'[c].got >= 1
  PROVE  Numbers'
<1>1. issued \in Nat /\ issued' \in Nat BY DEF Inv, Types
<1>2. ASSUME NEW c \in Callers
      PROVE  /\ calls'[c].got \in 0..issued'
             /\ calls'[c].at \in {"renewed", "minted"} => calls'[c].got >= 1
  <2>1. /\ calls[c].got \in 0..issued
        /\ calls[c].at \in {"renewed", "minted"} => calls[c].got >= 1
    BY DEF Numbers
  <2> QED BY <1>1, <2>1
<1> QED BY <1>2 DEF Numbers

\* A socket that presented a token presented one of those issued since.
LEMMA PresentedGrows ==
  ASSUME Inv, Numbers, issued' \in Nat, issued <= issued', presented' = presented
  PROVE  presented' \in [Sockets -> 1..issued']
<1>1. issued \in Nat BY DEF Inv, Types
<1>2. 1..issued \subseteq 1..issued' BY <1>1
<1> QED BY <1>2 DEF Numbers

\* The steps of a call keep the numbers of the tokens.
LEMMA CallNumbers ==
  ASSUME Inv, Numbers, NEW c \in Callers, CallStep(c) \/ CallLost(c), UNCHANGED presented
  PROVE  Numbers'
<1>0. /\ issued \in Nat /\ calls \in CallSet
      /\ active \in 0..issued /\ token \in 1..issued /\ gate \in Callers \cup {NoOne}
      /\ calls[c].got \in 0..issued
      /\ calls[c].at \in {"renewed", "minted"} => calls[c].got >= 1
  BY DEF Inv, Types, CallSet, Numbers
<1>1. CASE Renewed(c) \/ Minted(c)
  <2>1. /\ issued' = issued + 1 /\ active' = issued + 1 /\ UNCHANGED <<token, gate>>
        /\ \E at \in {"renewed", "minted"} :
              calls' = [calls EXCEPT ![c].at = at, ![c].got = issued + 1]
    BY <1>1 DEF Renewed, Minted, Issue, manager
  <2>2. /\ calls'[c].got = issued + 1
        /\ \A d \in Callers : d # c => calls'[d] = calls[d]
    BY <1>0, <2>1 DEF CallSet
  <2>3. /\ issued' \in Nat /\ issued <= issued' /\ active' \in 0..issued' /\ token' \in 1..issued'
        /\ calls'[c].got \in 0..issued' /\ calls'[c].got >= 1
    BY <1>0, <2>1, <2>2
  <2>4. presented' \in [Sockets -> 1..issued'] BY <2>3, PresentedGrows
  <2> QED BY <1>0, <2>1, <2>2, <2>3, <2>4, NumbersGrow
<1>2. CASE ~(Renewed(c) \/ Minted(c))
  <2>1. /\ UNCHANGED <<issued, active>>
        /\ token' = token \/ (calls[c].at \in {"renewed", "minted"} /\ token' = calls[c].got)
        /\ gate' \in {gate, c, NoOne}
        /\ \E at \in CallAt \ {"renewed", "minted"}, result \in Results \cup {calls[c].result} :
              calls' = [calls EXCEPT ![c].at = at, ![c].result = result]
    <3>1. CASE Coalesce(c) \/ ReuseFailure(c)
      BY <3>1 DEF Coalesce, ReuseFailure, broker, manager, CallAt, Results
    <3>2. CASE SendRenewal(c)
      <4>1. calls' = [calls EXCEPT ![c].at = "renew", ![c].result = calls[c].result]
        BY <1>0, <3>2 DEF SendRenewal, CallSet
      <4> QED BY <3>2, <4>1 DEF SendRenewal, broker, CallAt
    <3>3. CASE RenewalRefused(c) \/ RenewalLost(c)
      <4>1. Fallback(c) /\ UNCHANGED <<issued, active, token>>
        BY <3>3 DEF RenewalRefused, RenewalLost, broker
      <4>2. CASE Failed(c, "deferred")
        BY <4>1, <4>2 DEF Failed, CallAt, Results
      <4>3. CASE calls' = [calls EXCEPT ![c].at = "mint"] /\ UNCHANGED gate
        <5>1. calls' = [calls EXCEPT ![c].at = "mint", ![c].result = calls[c].result]
          BY <1>0, <4>3 DEF CallSet
        <5> QED BY <4>1, <4>3, <5>1 DEF CallAt
      <4> QED BY <4>1, <4>2, <4>3 DEF Fallback
    <3>4. CASE MintLost(c)
      BY <3>4 DEF MintLost, Failed, broker, CallAt, Results
    <3>5. CASE Store(c)
      <4>1. calls' = [calls EXCEPT ![c].at = "stored", ![c].result = calls[c].result]
        BY <1>0, <3>5 DEF Store, CallSet
      <4> QED BY <3>5, <4>1 DEF Store, broker, CallAt
    <3>6. CASE Bump(c)
      BY <3>6 DEF Bump, broker, CallAt, Results
    <3> QED BY <1>2, <3>1, <3>2, <3>3, <3>4, <3>5, <3>6 DEF CallStep, CallLost
  <2>2. /\ calls'[c].got = calls[c].got /\ calls'[c].at \notin {"renewed", "minted"}
        /\ \A d \in Callers : d # c => calls'[d] = calls[d]
    BY <1>0, <2>1 DEF CallSet
  <2>3. token' \in 1..issued' BY <1>0, <2>1
  <2>4. /\ issued' \in Nat /\ issued <= issued' /\ active' \in 0..issued'
        /\ gate' \in Callers \cup {NoOne} /\ calls'[c].got \in 0..issued'
    BY <1>0, <2>1, <2>2
  <2>5. presented' \in [Sockets -> 1..issued'] BY <2>4, PresentedGrows
  <2> QED BY <2>2, <2>3, <2>4, <2>5, NumbersGrow
<1> QED BY <1>1, <1>2

\* Every step keeps the numbers of the tokens.
LEMMA NumbersStep == Inv /\ Numbers /\ [Next]_vars => Numbers'
<1> SUFFICES ASSUME Inv, Numbers, [Next]_vars PROVE Numbers' OBVIOUS
<1>0. /\ issued \in Nat /\ calls \in CallSet
      /\ active \in 0..issued /\ token \in 1..issued /\ gate \in Callers \cup {NoOne}
      /\ presented \in [Sockets -> 1..issued]
  BY DEF Inv, Types, CallSet, Numbers
<1>1. ASSUME NEW s \in Sockets, SlotStep(s) \/ Redial(s) PROVE Numbers'
  <2>0. s \in Callers BY DEF Callers
  <2>1. CASE WakeToRefresh(s) \/ Report(s)
    <3>1. /\ UNCHANGED <<issued, active, token, gate, presented>>
          /\ \E r : r.got = NoToken /\ r.at \in {"queued", "none"} /\ calls' = [calls EXCEPT ![s] = r]
      BY <2>1 DEF WakeToRefresh, Report, Sampled, NoCall, broker, manager
    <3>2. /\ calls'[s].got = 0 /\ calls'[s].at \notin {"renewed", "minted"}
          /\ \A d \in Callers : d # s => calls'[d] = calls[d]
      BY <1>0, <2>0, <3>1 DEF CallSet, NoToken
    <3> QED BY <1>0, <3>1, <3>2, NumbersGrow
  <2>2. CASE ReadToken(s)
    <3>1. UNCHANGED token_vars /\ presented' = [presented EXCEPT ![s] = token]
      BY <2>2 DEF ReadToken
    <3>2. UNCHANGED <<issued, active, token, gate, calls>> BY <3>1 DEF token_vars
    <3>3. presented' \in [Sockets -> 1..issued'] BY <1>0, <3>1, <3>2
    <3> QED BY <1>0, <3>2, <3>3, NumbersGrow
  <2>3. CASE ~(WakeToRefresh(s) \/ Report(s) \/ ReadToken(s))
    <3>1. UNCHANGED token_vars /\ UNCHANGED presented
      BY <1>1, <2>3 DEF SlotStep, ReadGeneration, Connect, FrameReceived, TokenStale, AuthRejected, Redial,
         WakeToDial, WakeToPark
    <3>2. UNCHANGED <<issued, active, token, gate, calls>> BY <3>1 DEF token_vars
    <3> QED BY <1>0, <3>1, <3>2, NumbersGrow
  <2> QED BY <2>1, <2>2, <2>3
<1>2. ASSUME NEW c \in Callers, Proceed(c) \/ Lost(c) PROVE Numbers'
  <2>1. (CallStep(c) \/ CallLost(c)) /\ UNCHANGED presented
    BY <1>2 DEF Proceed, Lost, slots
  <2> QED BY <2>1, CallNumbers
<1>3. ASSUME NEW c \in Others, StartForced(c) \/ Forced(c) PROVE Numbers'
  <2>1. /\ UNCHANGED <<issued, active, token, gate, presented>>
        /\ \E r : r.got = NoToken /\ r.at \in {"queued", "none"} /\ calls' = [calls EXCEPT ![c] = r]
    BY <1>3 DEF StartForced, Forced, AskForCurrent, Taken, Sampled, NoCall, broker, manager, slots
  <2>2. /\ calls'[c].got = 0 /\ calls'[c].at \notin {"renewed", "minted"}
        /\ \A d \in Callers : d # c => calls'[d] = calls[d]
    BY <1>0, <2>1 DEF CallSet, NoToken, Callers
  <2> QED BY <1>0, <2>1, <2>2, NumbersGrow
<1>4. CASE World
  <2>1. /\ UNCHANGED <<token, gate, calls, presented>>
        /\ \/ issued' = issued /\ active' \in {active, 0}
           \/ issued' = issued + 1 /\ active' = issued + 1
    BY <1>4 DEF World, Expire, OtherMint, LoseLock, broker, manager, slots, NoToken
  <2>2. /\ issued' \in Nat /\ issued <= issued' /\ active' \in 0..issued' /\ token' \in 1..issued'
    BY <1>0, <2>1
  <2>3. presented' \in [Sockets -> 1..issued'] BY <2>1, <2>2, PresentedGrows
  <2> QED BY <1>0, <2>1, <2>2, <2>3, NumbersGrow
<1>5. CASE Tick \/ UNCHANGED vars
  <2>1. UNCHANGED <<issued, active, token, gate, calls, presented>>
    BY <1>5 DEF Tick, Aged, broker, vars, token_vars, slots
  <2> QED BY <1>0, <2>1, NumbersGrow
<1> QED BY <1>1, <1>2, <1>3, <1>4, <1>5 DEF Next

\* The ring after a tick and after a refresh is a ring.
LEMMA RingShape ==
  ASSUME NEW ring \in [1..MaxRefreshes -> 0..Window]
  PROVE  /\ Charged(ring) \in [1..MaxRefreshes -> 0..Window]
         /\ Later(ring) \in [1..MaxRefreshes -> 0..Window]
         /\ ring[1] >= Window => Later(ring)[1] >= Window
<1>1. MaxRefreshes \in Nat /\ MaxRefreshes >= 1 /\ Window \in Nat BY LoginAssumption
<1>2. \A i \in 1..MaxRefreshes : ring[i] \in 0..Window OBVIOUS
<1>3. ASSUME NEW i \in 1..MaxRefreshes
      PROVE  /\ (IF i < MaxRefreshes THEN ring[i + 1] ELSE 0) \in 0..Window
             /\ Older(ring[i], Window) \in 0..Window
  <2>1. ring[i] \in 0..Window BY <1>2
  <2>2. i < MaxRefreshes => ring[i + 1] \in 0..Window BY <1>1, <1>2
  <2> QED BY <1>1, <2>1, <2>2 DEF Older
<1>4. Later(ring)[1] = Older(ring[1], Window) BY <1>1 DEF Later
<1>5. ring[1] \in 0..Window BY <1>1, <1>2
<1> QED BY <1>1, <1>3, <1>4, <1>5 DEF Charged, Later, Older

\* Every step keeps the rings.
LEMMA RingsStep == Inv /\ MintInv /\ Rings /\ [Next]_vars => Rings'
<1> SUFFICES ASSUME Inv, MintInv, Rings, [Next]_vars PROVE Rings' OBVIOUS
<1>0. /\ phase \in [Sockets -> Phases] /\ reason \in [Sockets -> {OtherReason, 807, 808}]
      /\ refreshes \in [Sockets -> [1..MaxRefreshes -> 0..Window]]
  BY DEF Inv, Types, MintInv, MintTypes, Rings
<1>1. ASSUME NEW s \in Sockets, UNCHANGED refreshes,
             \A r \in Sockets : r # s => phase'[r] = phase[r] /\ reason'[r] = reason[r],
             Asking(s)' => Asking(s) \/ ~CeilingReached(s)
      PROVE  Rings'
  <2>1. ASSUME NEW r \in Sockets, Asking(r)' PROVE refreshes[r][1] >= Window
    <3>1. CASE Asking(r) BY <3>1 DEF Rings, Oldest
    <3>2. CASE ~Asking(r)
      <4>1. r = s BY <1>1, <2>1, <3>2 DEF Asking
      <4>2. refreshes[s][1] \in 0..Window /\ Window \in Nat BY <1>0, LoginAssumption
      <4> QED BY <1>1, <2>1, <3>2, <4>1, <4>2 DEF CeilingReached, Oldest
    <3> QED BY <3>1, <3>2
  <2> QED BY <1>0, <1>1, <2>1 DEF Rings, Oldest
<1>2. ASSUME NEW s \in Sockets, SlotStep(s) \/ Redial(s) PROVE Rings'
  <2>1. CASE ReadGeneration(s) \/ ReadToken(s) \/ Connect(s) \/ FrameReceived(s) \/ WakeToDial(s)
    <3>1. /\ UNCHANGED <<refreshes, reason>>
          /\ \E p \in {"read", "presented", "up", "dial"} : phase' = [phase EXCEPT ![s] = p] \/ phase' = phase
      BY <2>1 DEF ReadGeneration, ReadToken, Connect, FrameReceived, WakeToDial
    <3> QED BY <1>0, <1>1, <3>1 DEF Asking
  <2>2. CASE TokenStale(s) \/ Redial(s)
    <3>1. /\ UNCHANGED refreshes
          /\ phase' = [phase EXCEPT ![s] = "backoff"]
          /\ \E why \in {OtherReason, 807} : reason' = [reason EXCEPT ![s] = why]
      BY <2>2 DEF TokenStale, Redial, enter_backoff
    <3> QED BY <1>0, <1>1, <3>1 DEF Asking, OtherReason
  <2>3. CASE AuthRejected(s)
    <3>1. /\ UNCHANGED refreshes
          /\ \/ phase' = [phase EXCEPT ![s] = "parked"] /\ UNCHANGED reason
             \/ /\ ~CeilingReached(s)
                /\ phase' = [phase EXCEPT ![s] = "backoff"] /\ reason' = [reason EXCEPT ![s] = 808]
      BY <2>3 DEF AuthRejected, enter_backoff, park
    <3> QED BY <1>0, <1>1, <3>1 DEF Asking
  <2>4. CASE WakeToPark(s) \/ WakeToRefresh(s)
    <3>1. /\ UNCHANGED <<refreshes, reason>> /\ phase[s] = "backoff"
          /\ \E p \in {"parked", "refresh"} : phase' = [phase EXCEPT ![s] = p]
      BY <2>4 DEF WakeToPark, WakeToRefresh, park
    <3> QED BY <1>0, <1>1, <3>1 DEF Asking
  <2>5. CASE Report(s)
    <3>1. /\ phase' = [phase EXCEPT ![s] = "dial"] /\ UNCHANGED reason
          /\ refreshes' = refreshes \/ refreshes' = [refreshes EXCEPT ![s] = Charged(refreshes[s])]
      BY <1>0, <2>5 DEF Report, note_token_refresh
    <3>2. /\ \A r \in Sockets : Asking(r)' => Asking(r) /\ r # s
          /\ \A r \in Sockets : r # s => refreshes'[r] = refreshes[r]
      BY <1>0, <3>1 DEF Asking
    <3>3. refreshes' \in [Sockets -> [1..MaxRefreshes -> 0..Window]]
      BY <1>0, <3>1, RingShape
    <3> QED BY <3>2, <3>3 DEF Rings, Oldest
  <2> QED BY <1>2, <2>1, <2>2, <2>3, <2>4, <2>5 DEF SlotStep
<1>3. CASE UNCHANGED <<phase, reason, refreshes>>
  BY <1>3 DEF Rings, Asking, Oldest
<1>4. CASE Tick
  <2>1. /\ UNCHANGED <<phase, reason>> /\ refreshes' = [s \in Sockets |-> Later(refreshes[s])]
    BY <1>4 DEF Tick
  <2>2. refreshes' \in [Sockets -> [1..MaxRefreshes -> 0..Window]]
    BY <1>0, <2>1, RingShape
  <2>3. ASSUME NEW r \in Sockets, Asking(r)' PROVE refreshes'[r][1] >= Window
    <3>1. refreshes[r][1] >= Window BY <2>1, <2>3 DEF Rings, Asking, Oldest
    <3> QED BY <1>0, <2>1, <3>1, RingShape
  <2> QED BY <2>2, <2>3 DEF Rings, Oldest
<1> QED BY <1>2, <1>3, <1>4 DEF Next, Proceed, Lost, StartForced, Forced, World, vars, slots

\* Every step keeps the rest of the types.
LEMMA RestStep == Inv /\ Rest /\ [Next]_vars => Rest'
<1> SUFFICES ASSUME Inv, Rest, [Next]_vars PROVE Rest' OBVIOUS
<1>1. slept' \in [Sockets -> BOOLEAN]
  <2>1. \/ slept' = slept
        \/ \E s \in Sockets : slept' = [slept EXCEPT ![s] = FALSE]
        \/ slept' = [s \in Sockets |-> phase[s] = "backoff"]
    BY DEF Next, SlotStep, ReadGeneration, ReadToken, Connect, FrameReceived, TokenStale, AuthRejected, Redial,
       WakeToDial, WakeToPark, WakeToRefresh, Report, enter_backoff, park, Proceed, Lost, StartForced, Forced,
       World, Tick, vars, slots
  <2> QED BY <2>1 DEF Rest
<1>2. paged' \in Nat /\ pages' \in Seq(Nat)
  <2>1. \/ UNCHANGED paging
        \/ \E s \in Sockets : Page(s)
    BY DEF Next, SlotStep, ReadGeneration, ReadToken, Connect, FrameReceived, TokenStale, AuthRejected, Redial,
       WakeToDial, WakeToPark, WakeToRefresh, Report, Proceed, Lost, StartForced, Forced, World, Tick, vars
  <2>2. CASE UNCHANGED paging BY <2>2 DEF Rest, paging
  <2>3. ASSUME NEW s \in Sockets, Page(s) PROVE paged' \in Nat /\ pages' \in Seq(Nat)
    <3>1. dialled[s] \in Nat BY DEF Inv, Types
    <3>2. Append(pages, dialled[s]) \in Seq(Nat) BY <3>1 DEF Rest
    <3>3. /\ paged' = paged \/ paged' = dialled[s] + 1
          /\ pages' = pages \/ pages' = Append(pages, dialled[s])
      BY <2>3 DEF Page, paging
    <3>4. paged \in Nat /\ pages \in Seq(Nat) BY DEF Rest
    <3>5. paged' \in Nat BY <3>1, <3>3, <3>4
    <3>6. pages' \in Seq(Nat) BY <3>2, <3>3, <3>4, Zenon
    <3> QED BY <3>5, <3>6
  <2> QED BY <2>1, <2>2, <2>3
<1>3. scenario' \in Scenarios /\ budget' \in 0..scenario'.budget
  <2>1. UNCHANGED bounds \/ \E kind \in FaultKinds : Fault(kind)
    BY DEF Next, SlotStep, ReadGeneration, ReadToken, Connect, FrameReceived, TokenStale, AuthRejected, Redial,
       WakeToDial, WakeToPark, WakeToRefresh, Report, Proceed, Lost, StartForced, Forced, World, Tick, vars,
       FaultKinds
  <2>2. scenario.budget \in Nat BY LoginAssumption DEF Rest
  <2> QED BY <2>1, <2>2 DEF Rest, bounds, Fault
<1> QED BY <1>1, <1>2, <1>3 DEF Rest

\* They hold at the start.
LEMMA ShapeInit == Init => Numbers /\ Rings /\ Rest
<1> SUFFICES ASSUME Init PROVE Numbers /\ Rings /\ Rest OBVIOUS
<1>1. Window \in Nat /\ MaxRefreshes \in Nat /\ MaxRefreshes >= 1 BY LoginAssumption
<1>2. Numbers BY DEF Init, TokenInit, Numbers, NoCall, NoToken
<1>3. Rings
  <2>1. NoRefreshes \in [1..MaxRefreshes -> 0..Window] BY <1>1 DEF NoRefreshes
  <2>2. \A s \in Sockets : ~Asking(s) BY DEF Init, Asking
  <2> QED BY <2>1, <2>2 DEF Init, Rings
<1>4. scenario.budget \in Nat BY LoginAssumption DEF Init
<1>5. Rest BY <1>4 DEF Init, Rest
<1> QED BY <1>2, <1>3, <1>5

\* The manager, the slots and the pages keep their types, for any number of
\* slots and callers and any bounds: no token is held or presented that was not
\* issued, and the ages never leave their ranges.
THEOREM TypeCorrect == Spec => []TypeOK
<1>1. Inv /\ MintInv /\ Numbers /\ Rings /\ Rest => TypeOK
  <2> SUFFICES ASSUME Inv, MintInv, Numbers, Rings, Rest PROVE TypeOK OBVIOUS
  <2>1. calls \in [Callers -> [at : CallAt, seen : Nat, got : 0..issued, result : Results]]
    <3>1. calls \in [Callers -> [at : CallAt, seen : Nat, got : Nat, result : Results]]
      BY DEF Inv, Types
    <3>2. ASSUME NEW c \in Callers
          PROVE  calls[c] \in [at : CallAt, seen : Nat, got : 0..issued, result : Results]
      BY <3>1 DEF Numbers
    <3> QED BY <3>1, <3>2
  <2>2. TokenTypeOK BY <2>1 DEF TokenTypeOK, Inv, Types, MintInv, MintTypes, Numbers
  <2> QED BY <2>2 DEF TypeOK, Inv, Types, MintInv, MintTypes, EpisodeSet, CauseSet, Numbers, Rings, Rest
<1> QED BY <1>1, InvInit, InvStep, MintInit, MintStep, ShapeInit, NumbersStep, RingsStep, RestStep, PTL DEF Spec

\* No slot obtains more than MaxRefreshes fresh tokens inside a window: whenever
\* it may charge the ring, the entry it overwrites is out of the window
\* (on_auth_rejected rule (d) and note_token_refresh).
THEOREM CeilingKept == Spec => []RefreshCeiling
<1>1. Rings => RefreshCeiling BY DEF Rings, RefreshCeiling, Asking
<1> QED BY <1>1, InvInit, InvStep, MintInit, MintStep, ShapeInit, RingsStep, PTL DEF Spec
=============================================================================
