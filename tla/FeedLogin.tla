------------------------------ MODULE FeedLogin ------------------------------
(***************************************************************************)
(* The live-feed connections and the token they log in with: the dial that *)
(* records which token it presents, the refresh after a rejection, and the *)
(* episode that decides when a slot gives up for the session               *)
(* (core/websocket/pool_supervisor.rs, the refresh closure of              *)
(* app/dhan_feed_stack.rs, force_renewal_unless_replaced of                *)
(* core/auth/token_manager.rs).                                            *)
(*                                                                         *)
(* The broker closes a socket whose token is not the active one, with 807  *)
(* (expired) or with 808, which it also sends for a wrong client id.  An   *)
(* 808 refreshes the token and dials again; the slot is parked for good    *)
(* when the episode shows that the token is not the cause.                 *)
(*                                                                         *)
(* Abstractions.  Dialling, requests and answers take no time, a backoff   *)
(* takes one tick (a redial cycle), and so do the thirty seconds after the *)
(* first frame.  The market is open: a socket that is up gets a frame.     *)
(* The ladder, the flap damper, the other close codes and a late close     *)
(* code are left out.  The sockets share one thread, so what a socket does *)
(* between two waits is one step to the other sockets.                     *)
(*                                                                         *)
(* What may go wrong is chosen once:                                       *)
(*   "expire"  the active token runs out;                                  *)
(*   "minter"  another holder of the credentials logs in;                  *)
(*   "forced"  the renewal loop, the sweep or the watchdog renews;         *)
(*   "rest"    a request or its answer is lost;                            *)
(*   "drop"    a socket closes, or a dial fails, for another reason;       *)
(*   "lock"    the instance lock is lost;                                  *)
(*   "account" the broker rejects every login with 808.                    *)
(***************************************************************************)
EXTENDS TokenManager, Sequences

CONSTANTS
    MaxHardFailures,  \* AUTH_REJECT_MAX_HARD_FAILURES
    EpisodeMax,       \* AUTH_REJECT_EPISODE_MAX_MS
    Window,           \* AUTH_REJECT_WINDOW_MS
    MaxRefreshes,     \* AUTH_REJECT_MAX_REFRESHES_PER_WINDOW
    Scenarios         \* what a run explores

FaultKinds == {"expire", "minter", "forced", "rest", "drop", "lock", "account"}

\* The const assertion of pool_supervisor.rs, and what a scenario is.
ASSUME LoginAssumption ==
    /\ MaxHardFailures \in Nat \ {0} /\ Window \in Nat \ {0} /\ MaxRefreshes \in Nat \ {0}
    /\ EpisodeMax \in Nat /\ EpisodeMax >= 2 * Cooldown
    /\ \A c \in Scenarios : c \in [faults : SUBSET FaultKinds, budget : Nat, codes : SUBSET {807, 808}]

VARIABLES
    phase,      \* of every slot
    dialled,    \* the generation a slot recorded when it dialled
    presented,  \* the token it dialled with
    frames,     \* "none", "some", or "healthy" after MIN_HEALTHY_SESSION_MS of them
    reason,     \* last_redial_reason
    slept,      \* the backoff is over
    episode,    \* auth_reject
    refreshes,  \* auth_reject_refreshes: the ages in the ring, oldest first, up to Window
    paged,      \* stale_credential_paged_generation, 0 for none
    pages,      \* the generations paged about, in order
    minted,     \* a fresh login was tried since the slot's episode last made progress
    cause,      \* why a slot is parked, and whether its last 808 was for the active token
    scenario, budget

slots == <<phase, dialled, presented, frames, reason, slept, episode, refreshes, cause>>
paging == <<paged, pages>>
bounds == <<scenario, budget>>
vars == <<token_vars, slots, paging, minted, bounds>>

Phases == {"dial", "read", "presented", "up", "backoff", "refresh", "parked"}
OtherReason == 0
NotParked == [why |-> "none", live |-> FALSE]
NoRefreshes == [i \in 1..MaxRefreshes |-> Window]
NoEpisode == [open |-> FALSE, hard |-> 0, verified |-> 0, since |-> 0, refreshed |-> FALSE, grace |-> FALSE]

TypeOK ==
    /\ TokenTypeOK
    /\ phase \in [Sockets -> Phases]
    /\ dialled \in [Sockets -> Nat] /\ presented \in [Sockets -> 1..issued]
    /\ frames \in [Sockets -> {"none", "some", "healthy"}]
    /\ reason \in [Sockets -> {OtherReason, 807, 808}]
    /\ slept \in [Sockets -> BOOLEAN]
    /\ episode \in [Sockets -> [open : BOOLEAN, hard : 0..MaxHardFailures, verified : Nat,
                                since : 0..EpisodeMax, refreshed : BOOLEAN, grace : BOOLEAN]]
    /\ refreshes \in [Sockets -> [1..MaxRefreshes -> 0..Window]]
    /\ paged \in Nat /\ pages \in Seq(Nat)
    /\ minted \in [Sockets -> BOOLEAN]
    /\ cause \in [Sockets -> [why : {"none", "rejected", "hard", "age", "ceiling"}, live : BOOLEAN]]
    /\ scenario \in Scenarios /\ budget \in 0..scenario.budget

Init ==
    /\ TokenInit
    /\ phase = [s \in Sockets |-> "dial"]
    /\ dialled = [s \in Sockets |-> 0] /\ presented = [s \in Sockets |-> 1]
    /\ frames = [s \in Sockets |-> "none"] /\ reason = [s \in Sockets |-> OtherReason]
    /\ slept = [s \in Sockets |-> FALSE]
    /\ episode = [s \in Sockets |-> NoEpisode] /\ refreshes = [s \in Sockets |-> NoRefreshes]
    /\ paged = 0 /\ pages = <<>>
    /\ minted = [s \in Sockets |-> FALSE] /\ cause = [s \in Sockets |-> NotParked]
    /\ scenario \in Scenarios /\ budget = scenario.budget

\* One of the scenario's faults happens.
Fault(kind) ==
    /\ kind \in scenario.faults /\ budget > 0
    /\ budget' = budget - 1
    /\ UNCHANGED scenario

Live(s) == presented[s] = active
Accepts(t) == t = active /\ "account" \notin scenario.faults

-----------------------------------------------------------------------------
(* Dialling.  The generation is read before the token. *)

ReadGeneration(s) ==
    /\ phase[s] = "dial" /\ held
    /\ dialled' = [dialled EXCEPT ![s] = generation]
    /\ phase' = [phase EXCEPT ![s] = "read"]
    /\ frames' = [frames EXCEPT ![s] = "none"]
    /\ UNCHANGED <<token_vars, presented, reason, slept, episode, refreshes, cause, paging, minted, bounds>>

ReadToken(s) ==
    /\ phase[s] = "read"
    /\ presented' = [presented EXCEPT ![s] = token]
    /\ phase' = [phase EXCEPT ![s] = "presented"]
    /\ UNCHANGED <<token_vars, dialled, frames, reason, slept, episode, refreshes, cause, paging, minted, bounds>>

Connect(s) ==
    /\ phase[s] = "presented" /\ Accepts(presented[s])
    /\ phase' = [phase EXCEPT ![s] = "up"]
    /\ UNCHANGED <<token_vars, dialled, presented, frames, reason, slept, episode, refreshes, cause, paging,
                   minted, bounds>>

FrameReceived(s) ==
    /\ phase[s] = "up" /\ frames[s] = "none"
    /\ frames' = [frames EXCEPT ![s] = "some"]
    /\ UNCHANGED <<token_vars, phase, dialled, presented, reason, slept, episode, refreshes, cause, paging,
                   minted, bounds>>

-----------------------------------------------------------------------------
(* A close.  Every redial passes through enter_backoff. *)

\* The episode as enter_backoff leaves it.
Left(s, why) ==
    IF frames[s] # "none" /\ why # 808 THEN NoEpisode ELSE [episode[s] EXCEPT !.refreshed = FALSE]

enter_backoff(s, why, left) ==
    /\ phase' = [phase EXCEPT ![s] = "backoff"]
    /\ slept' = [slept EXCEPT ![s] = FALSE]
    /\ reason' = [reason EXCEPT ![s] = why]
    /\ frames' = [frames EXCEPT ![s] = "none"]
    /\ episode' = [episode EXCEPT ![s] = left]

park(s, why, live) ==
    /\ phase' = [phase EXCEPT ![s] = "parked"]
    /\ episode' = [episode EXCEPT ![s] = NoEpisode]
    /\ cause' = [cause EXCEPT ![s] = [why |-> why, live |-> live]]

\* The broker closes the socket, or answers its dial: with 807 when the token
\* has run out, else with one of the scenario's codes.
Rejected(s, code) ==
    /\ phase[s] \in {"presented", "up"}
    /\ ~Accepts(presented[s])
    /\ IF active = NoToken /\ presented[s] = issued THEN code = 807 ELSE code \in scenario.codes

TokenStale(s) ==
    /\ Rejected(s, 807)
    /\ enter_backoff(s, 807, Left(s, 807))
    /\ UNCHANGED <<token_vars, dialled, presented, refreshes, cause, paging, minted, bounds>>

\* The episode an 808 belongs to: a new one after a healthy session.
Opened(s) ==
    IF episode[s].open /\ frames[s] # "healthy" THEN episode[s] ELSE [NoEpisode EXCEPT !.open = TRUE]

past_bound(e) == e.since >= EpisodeMax

\* The entry the next refresh overwrites; one that was never written is as
\* old as the window.
Oldest(s) == refreshes[s][1]

\* A faulty version: the age is compared with the wrong bound.
FaultHalfWindow(s) == Oldest(s) < Window \div 2

\* Park rule (d): the oldest refresh of the ring is inside the window.
CeilingReached(s) == Oldest(s) < Window

Exhausted(e) == e.hard >= MaxHardFailures
Overdue(e) == past_bound(e) /\ (e.refreshed \/ e.grace)

AuthRejected(s) ==
    /\ Rejected(s, 808)
    /\ LET e == Opened(s) IN
       /\ minted' = [minted EXCEPT ![s] = @ /\ e = episode[s]]
       /\ \/ /\ CeilingReached(s)
             /\ park(s, "ceiling", Live(s))
             /\ UNCHANGED <<slept, reason, frames>>
          \/ /\ ~CeilingReached(s) /\ (Exhausted(e) \/ Overdue(e))
             /\ park(s, IF Exhausted(e) THEN "hard" ELSE "age", Live(s))
             /\ UNCHANGED <<slept, reason, frames>>
          \/ /\ ~CeilingReached(s) /\ ~Exhausted(e) /\ ~Overdue(e)
             /\ enter_backoff(s, 808, [e EXCEPT !.grace = @ \/ past_bound(e), !.refreshed = FALSE])
             /\ cause' = [cause EXCEPT ![s].live = Live(s)]
    /\ UNCHANGED <<token_vars, dialled, presented, refreshes, paging, bounds>>

\* Any other close, or a dial that does not get through.
Redial(s) ==
    /\ phase[s] \in {"presented", "up"}
    /\ Fault("drop")
    /\ enter_backoff(s, OtherReason, Left(s, OtherReason))
    /\ UNCHANGED <<token_vars, dialled, presented, refreshes, cause, paging, minted>>

-----------------------------------------------------------------------------
(* The refresh before the dial. *)

\* Over: a backoff that asked for no fresh token.
WakeToDial(s) ==
    /\ phase[s] = "backoff" /\ slept[s] /\ reason[s] = OtherReason
    /\ phase' = [phase EXCEPT ![s] = "dial"]
    /\ UNCHANGED <<token_vars, dialled, presented, frames, reason, slept, episode, refreshes, cause, paging,
                   minted, bounds>>

\* The rejected dial presented the token this episode obtained.
FreshRejected(s) == reason[s] = 808 /\ episode[s].verified = dialled[s]

\* skip_if_presented: nothing is renewed, and note_token_refresh parks.
WakeToPark(s) ==
    /\ phase[s] = "backoff" /\ slept[s] /\ FreshRejected(s)
    /\ park(s, "rejected", cause[s].live)
    /\ UNCHANGED <<token_vars, dialled, presented, frames, reason, slept, refreshes, paging, minted, bounds>>

\* A faulty version: renew whatever token is current.
FaultRenewCurrent(s) ==
    /\ phase[s] = "backoff" /\ slept[s] /\ reason[s] # OtherReason /\ ~FreshRejected(s)
    /\ phase' = [phase EXCEPT ![s] = "refresh"]
    /\ Sampled(s, generation)
    /\ UNCHANGED <<broker, manager, held, dialled, presented, frames, reason, slept, episode, refreshes, cause,
                   paging, minted, bounds>>

\* force_renewal_unless_replaced: renew the token this slot dialled with.
WakeToRefresh(s) ==
    /\ phase[s] = "backoff" /\ slept[s] /\ reason[s] # OtherReason /\ ~FreshRejected(s)
    /\ phase' = [phase EXCEPT ![s] = "refresh"]
    /\ Sampled(s, dialled[s])
    /\ UNCHANGED <<broker, manager, held, dialled, presented, frames, reason, slept, episode, refreshes, cause,
                   paging, minted, bounds>>

\* A faulty version: the latch is set and never asked.
FaultPageEveryTime(s) ==
    IF calls[s].result = "failed" /\ generation = dialled[s]
    THEN paged' = dialled[s] + 1 /\ pages' = Append(pages, dialled[s])
    ELSE UNCHANGED paging

\* stale_credential_failure_pages and take_stale_credential_page.
Page(s) ==
    IF calls[s].result = "failed" /\ generation = dialled[s]
    THEN /\ paged' = dialled[s] + 1
         /\ pages' = IF paged # dialled[s] + 1 THEN Append(pages, dialled[s]) ELSE pages
    ELSE UNCHANGED paging

\* What the closure saw: fresh only if the generation moved.
Outcome(s) == IF generation # dialled[s] THEN "fresh" ELSE calls[s].result

\* A faulty version: a deferral counts as a failure.
FaultDeferredCounts(e, outcome) ==
    IF outcome = "fresh"
    THEN [e EXCEPT !.refreshed = TRUE, !.verified = generation, !.since = 0, !.grace = FALSE]
    ELSE [e EXCEPT !.refreshed = TRUE, !.hard = @ + 1]

\* The episode after note_token_refresh.
Noted(e, outcome) ==
    CASE outcome = "fresh" ->
           [e EXCEPT !.refreshed = TRUE, !.verified = generation, !.since = 0, !.grace = FALSE]
      [] outcome = "failed" ->
           [e EXCEPT !.refreshed = TRUE, !.hard = @ + 1]
      [] OTHER -> [e EXCEPT !.refreshed = TRUE]

\* A faulty version: the cursor does not wrap.
FaultNoWrap(ring) == [i \in 1..(MaxRefreshes + 1) |-> IF i <= MaxRefreshes THEN ring[i] ELSE 0]

\* The newest refresh overwrites the oldest.
Charged(ring) == [i \in 1..MaxRefreshes |-> IF i < MaxRefreshes THEN ring[i + 1] ELSE 0]

note_token_refresh(s, outcome) ==
    IF reason[s] = 808
    THEN /\ episode' = [episode EXCEPT ![s] = Noted(episode[s], outcome)]
         /\ refreshes' = [refreshes EXCEPT ![s] = IF outcome = "fresh" THEN Charged(@) ELSE @]
         /\ minted' = [minted EXCEPT ![s] = @ /\ outcome # "fresh"]
    ELSE UNCHANGED <<episode, refreshes, minted>>

Report(s) ==
    /\ phase[s] = "refresh" /\ calls[s].at = "ended"
    /\ Page(s)
    /\ note_token_refresh(s, Outcome(s))
    /\ phase' = [phase EXCEPT ![s] = "dial"]
    /\ calls' = [calls EXCEPT ![s] = NoCall]
    /\ UNCHANGED <<broker, manager, held, dialled, presented, frames, reason, slept, cause, bounds>>

-----------------------------------------------------------------------------
(* The callers, the world and the passing of time. *)

\* A fresh login that is tried counts for every slot.
MintNoted(c) ==
    minted' = IF calls'[c].at = "mint" /\ calls[c].at # "mint" THEN [s \in Sockets |-> TRUE] ELSE minted

Proceed(c) ==
    /\ CallStep(c) /\ MintNoted(c)
    /\ UNCHANGED <<slots, paging, bounds>>

Lost(c) ==
    /\ Fault("rest")
    /\ CallLost(c) /\ MintNoted(c)
    /\ UNCHANGED <<slots, paging>>

StartForced(c) ==
    /\ Fault("forced")
    /\ AskForCurrent(c)
    /\ UNCHANGED <<slots, paging, minted>>

Forced(c) ==
    /\ Taken(c)
    /\ UNCHANGED <<slots, paging, minted, bounds>>

World ==
    /\ \/ Fault("expire") /\ Expire
       \/ Fault("minter") /\ OtherMint
       \/ Fault("lock") /\ LoseLock
    /\ UNCHANGED <<slots, paging, minted>>

\* Nobody is in the middle of a dial or a request, and the market is open.
Quiet ==
    /\ \A c \in Callers : calls[c].at = "none"
    /\ \A s \in Sockets :
         \/ phase[s] = "parked"
         \/ phase[s] = "up" /\ frames[s] # "none"
         \/ phase[s] = "backoff" /\ ~slept[s]
         \/ phase[s] = "dial" /\ ~held

Later(ring) == [i \in 1..MaxRefreshes |-> Older(ring[i], Window)]

Tick ==
    /\ Quiet
    /\ Aged
    /\ slept' = [s \in Sockets |-> phase[s] = "backoff"]
    /\ frames' = [s \in Sockets |->
                    IF frames[s] = "some" THEN "healthy" ELSE frames[s]]
    /\ episode' = [s \in Sockets |->
                     IF episode[s].open THEN [episode[s] EXCEPT !.since = Older(@, EpisodeMax)] ELSE episode[s]]
    /\ refreshes' = [s \in Sockets |-> Later(refreshes[s])]
    /\ UNCHANGED <<phase, dialled, presented, reason, cause, paging, minted, bounds>>

SlotStep(s) ==
    \/ ReadGeneration(s)
    \/ ReadToken(s)
    \/ Connect(s)
    \/ FrameReceived(s)
    \/ TokenStale(s)
    \/ AuthRejected(s)
    \/ WakeToDial(s)
    \/ WakeToPark(s)
    \/ WakeToRefresh(s)
    \/ Report(s)

Next ==
    \/ \E s \in Sockets : SlotStep(s) \/ Redial(s)
    \/ \E c \in Callers : Proceed(c) \/ Lost(c)
    \/ \E c \in Others : StartForced(c) \/ Forced(c)
    \/ World
    \/ Tick

\* Tasks run, requests are answered or time out, and time passes.
Fairness ==
    /\ \A s \in Sockets : WF_vars(SlotStep(s))
    /\ \A c \in Callers : WF_vars(Proceed(c))
    /\ \A c \in Others : WF_vars(Forced(c))
    /\ WF_vars(Tick)

Spec == Init /\ [][Next]_vars /\ Fairness

-----------------------------------------------------------------------------
(* Properties. *)

\* A slot never replaces a token it did not log in with: a slot whose login
\* was rejected late finds that another caller has renewed, and does not kill
\* the token its siblings have just dialled with (the "token war" of
\* token_manager.rs).
OnlyOwnToken ==
    \A s \in Sockets :
        calls[s].at \in {"renew", "renewed", "mint", "minted"} => presented[s] = token

\* The operator is paged once about a dead token, however many slots fail to
\* renew it (take_stale_credential_page).
PagedOnce == \A i, j \in DOMAIN pages : pages[i] = pages[j] => i = j

\* While the process holds the instance lock, no slot gives up for want of a
\* fresh token before a fresh login was tried (the const assertion on
\* AUTH_REJECT_EPISODE_MAX_MS, and deferrals that count as no failure).
MintBeforePark ==
    \A s \in Sockets : held /\ cause[s].why \in {"hard", "age"} => minted[s]

\* No slot is refreshed more than MaxRefreshes times in a window after an 808:
\* the refresh it is about to make overwrites one that is out of the window,
\* although the ceiling was asked a backoff earlier
\* (AUTH_REJECT_MAX_REFRESHES_PER_WINDOW).  The ceiling is on these alone: a
\* refresh after an 807 is not charged.
RefreshCeiling ==
    \A s \in Sockets : phase[s] = "refresh" /\ reason[s] = 808 => Oldest(s) >= Window

\* "The login is not the cause": a slot parked because its fresh token was
\* rejected too had presented the token the broker accepts.
ParkedForCause == \A s \in Sockets : cause[s].why = "rejected" => cause[s].live

\* Once nothing more goes wrong every slot is connected for good or parked,
\* and with an account the broker rejects, parked; a process that has lost
\* the instance lock dials no more.
SettlesDown ==
    \A s \in Sockets :
        <>[](\/ phase[s] = "parked"
             \/ phase[s] = "up" /\ Accepts(presented[s])
             \/ ~held)
=============================================================================
