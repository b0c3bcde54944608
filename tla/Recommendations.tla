--------------------------- MODULE Recommendations ---------------------------
(***************************************************************************)
(* Bid recommendations of one search cluster (a phrase) of a WB campaign:  *)
(* a background job keeps a "lower bid" or a "raise bid" row active,       *)
(* people apply, dismiss, resolve and reopen rows, set and roll back bids  *)
(* by hand and start, pause or stop the campaign.  Each database statement *)
(* and each call of WB is a step, and a request may end at any of them.    *)
(***************************************************************************)
EXTENDS Naturals, Sequences

CONSTANTS Users,       \* API requests in progress
          Generators,  \* workers that generate recommendations
          MaxBid, MaxRecs, MaxChanges,
          MaxRuns,     \* runs of the generators
          MaxEvents    \* what people do beside applying, and what fails

ASSUME BoundsAssumption ==
    /\ {MaxBid, MaxRecs, MaxChanges, MaxRuns, MaxEvents} \subseteq Nat
    /\ MaxBid >= 1
    /\ Users \cap Generators = {}

VARIABLES recs,     \* recommendations, in order of creation
          changes,  \* bid_changes of the phrase with wb_status applied
          obs,      \* phrases.current_bid, as the last sync stored it
          wb,       \* the bid WB uses
          synced,   \* history: WB's bid has not changed since the sync read obs
          camp,     \* campaigns.status
          sync,     \* a sync in progress: the bid it read (0: none), still WB's bid?
          pc, loc,
          runs, used

vars == <<recs, changes, obs, wb, synced, camp, sync, pc, loc, runs, used>>

Procs    == Users \cup Generators
Bids     == 1 .. MaxBid
Types    == {"lower_bid", "raise_bid"}
Statuses == {"active", "applying", "apply_unknown", "completed", "dismissed", "invalidated"}

\* What a user has in hand (rec, old, new, to), what the generator has still
\* to do, and whether WB's bid has changed since the sync that was relied on.
Idle == [job |-> "none", rec |-> 0, old |-> 0, new |-> 0, blind |-> FALSE, to |-> "none", todo |-> <<>>]

NoSync == [bid |-> 0, clean |-> FALSE]

Claiming == {"check", "release", "call", "record", "complete", "mark"}

----------------------------------------------------------------------------

\* A row as CreateRecommendation inserts it; calls, landed, overruled and lost are history.
NewRec(t, old, new) ==
    [type |-> t, old |-> old, new |-> new, status |-> "active", calls |-> 0, reopened |-> 0,
     landed |-> FALSE, overruled |-> FALSE, lost |-> FALSE]

Init ==
    /\ recs = <<>> /\ changes = <<>>
    /\ wb \in Bids /\ obs = wb /\ synced = TRUE
    /\ camp = "active" /\ sync = NoSync
    /\ pc = [p \in Procs |-> "idle"] /\ loc = [p \in Procs |-> Idle]
    /\ runs = 0 /\ used = 0

Goto(p, label) == pc' = [pc EXCEPT ![p] = label] /\ UNCHANGED loc
Return(p)      == pc' = [pc EXCEPT ![p] = "idle"] /\ loc' = [loc EXCEPT ![p] = Idle]

\* A person's request, or a failure, within the bound.
Event == used < MaxEvents /\ used' = used + 1

outside == <<obs, wb, synced, sync>>

----------------------------------------------------------------------------
(* The status of a row.                                                    *)

\* TransitionRecommendationStatusInWorkspace: compare and set.
Transition(r, from, to) ==
    recs' = IF recs[r].status = from THEN [recs EXCEPT ![r].status = to] ELSE recs

\* UpdateRecommendationStatus: whatever the row says now.  A person or the
\* generator then decides about an application under way or left open.
Overwritten(rec, to) ==
    [rec EXCEPT !.status = to,
                !.overruled = @ \/ rec.status \in {"applying", "apply_unknown"}]

Decided(rec, to) == [Overwritten(rec, to) EXCEPT !.reopened = IF to = "active" THEN @ + 1 ELSE @]

\* UpdateStatus: a person resolves, dismisses or reopens a row.
UpdateStatus(r, to) ==
    /\ to \in {"active", "completed", "dismissed"} /\ recs[r].status # to /\ Event
    /\ recs' = [recs EXCEPT ![r] = Decided(@, to)]
    /\ UNCHANGED <<changes, outside, camp, pc, loc, runs>>

----------------------------------------------------------------------------
(* GenerateForWorkspace for one phrase: the statistics ask for a lower     *)
(* bid, for a higher one or for neither.                                   *)

Upsert(t, old, new) == [op |-> "upsert", type |-> t, old |-> old, new |-> new]
Close(t)            == [op |-> "close", type |-> t, old |-> 0, new |-> 0]

Plans(current) ==
    {<<Close("lower_bid"), Close("raise_bid")>>}
    \cup {<<Upsert("lower_bid", current, b), Close("raise_bid"), Close("raise_bid")>> :
             b \in {x \in Bids : x < current}}
    \cup {<<Close("lower_bid"), Upsert("raise_bid", current, b), Close("lower_bid")>> :
             b \in {x \in Bids : x > current}}

Generate(g) ==
    /\ pc[g] = "idle" /\ runs < MaxRuns
    /\ runs' = runs + 1
    /\ \E plan \in Plans(obs) : loc' = [loc EXCEPT ![g] = [Idle EXCEPT !.job = "generate", !.todo = plan]]
    /\ pc' = [pc EXCEPT ![g] = "look"]
    /\ UNCHANGED <<recs, changes, outside, camp, used>>

NextStep(g) ==
    IF Len(loc[g].todo) = 1 THEN Return(g)
    ELSE /\ pc' = [pc EXCEPT ![g] = "look"]
         /\ loc' = [loc EXCEPT ![g].todo = Tail(@), ![g].rec = 0]

\* GetActiveRecommendation: any active row of the type, or none.
Active(t) == {r \in 1 .. Len(recs) : recs[r].type = t /\ recs[r].status = "active"}

Look(g) ==
    LET step == Head(loc[g].todo) IN
    /\ pc[g] = "look"
    /\ \/ \E r \in Active(step.type) :
             /\ loc' = [loc EXCEPT ![g].rec = r]
             /\ pc' = [pc EXCEPT ![g] = "put"]
       \/ Active(step.type) = {} /\ step.op = "upsert" /\ Goto(g, "put")
       \/ Active(step.type) = {} /\ step.op = "close" /\ NextStep(g)
    /\ UNCHANGED <<recs, changes, outside, camp, used, runs>>

\* UpsertActive and CloseActive after their lookup: the row found is
\* refreshed or completed whatever has become of it meanwhile.
Put(g) ==
    LET step == Head(loc[g].todo)
        r    == loc[g].rec
    IN
    /\ pc[g] = "put"
    /\ IF r = 0 THEN Len(recs) < MaxRecs /\ recs' = Append(recs, NewRec(step.type, step.old, step.new))
       ELSE recs' = [recs EXCEPT ![r] =
                IF step.op = "close" THEN Overwritten(@, "completed")
                ELSE [@ EXCEPT !.old = step.old, !.new = step.new]]
    /\ NextStep(g)
    /\ UNCHANGED <<changes, outside, camp, used, runs>>

----------------------------------------------------------------------------
(* ApplyRecommendation.                                                    *)

ApplyRecommendation(u) ==
    /\ pc[u] = "idle"
    /\ \E r \in 1 .. Len(recs) :
          /\ recs[r].status = "active"
          /\ loc' = [loc EXCEPT ![u] = [Idle EXCEPT !.job = "apply", !.rec = r]]
    /\ pc' = [pc EXCEPT ![u] = "claim"]
    /\ UNCHANGED <<recs, changes, outside, camp, used, runs>>

\* The row may no longer be active: then it is somebody else's.
ClaimActiveRecommendation(u) ==
    LET r == loc[u].rec IN
    /\ pc[u] = "claim"
    /\ IF recs[r].status = "active"
       THEN /\ recs' = [recs EXCEPT ![r].status = "applying"]
            /\ loc' = [loc EXCEPT ![u] = [@ EXCEPT !.old = recs[r].old, !.new = recs[r].new]]
            /\ pc' = [pc EXCEPT ![u] = "check"]
       ELSE Return(u) /\ UNCHANGED recs
    /\ UNCHANGED <<changes, outside, camp, used, runs>>

\* preflightCampaignAction for bids.
MayChangeBid == camp \in {"active", "paused"}

\* From here on WB is called with the decision of this moment.
Send(u) ==
    /\ pc' = [pc EXCEPT ![u] = "call"]
    /\ loc' = [loc EXCEPT ![u].blind = ~synced]

\* Slip: the bid the recommendation was made for is not compared.
ApplyChecksNoBaseline(u) ==
    /\ pc[u] = "check"
    /\ \/ MayChangeBid /\ Send(u)
       \/ Goto(u, "release")
    /\ UNCHANGED <<recs, changes, outside, camp, used, runs>>

\* applyPhraseBidRecommendation up to the call: the baseline must be the
\* synced bid; stock, economics, rate limits and the token may refuse too.
ApplyChecks(u) ==
    /\ pc[u] = "check"
    /\ \/ obs = loc[u].old /\ MayChangeBid /\ Send(u)
       \/ Goto(u, "release")
    /\ UNCHANGED <<recs, changes, outside, camp, used, runs>>

ReleaseClaim(u) ==
    /\ pc[u] = "release"
    /\ Transition(loc[u].rec, "applying", "active")
    /\ Return(u)
    /\ UNCHANGED <<changes, outside, camp, used, runs>>

CompleteRecommendation(u) ==
    /\ pc[u] = "complete"
    /\ Transition(loc[u].rec, "applying", "completed")
    /\ Goto(u, "mark")
    /\ UNCHANGED <<changes, outside, camp, used, runs>>

CompleteFails(u) ==
    /\ pc[u] = "complete" /\ Event
    /\ Goto(u, "mark")
    /\ UNCHANGED <<recs, changes, outside, camp, runs>>

\* Slip: nobody marks the row.
MarkForgotten(u) ==
    /\ pc[u] = "mark" /\ Return(u)
    /\ UNCHANGED <<recs, changes, outside, camp, used, runs>>

\* The deferred statement of every application that has called WB: it finds
\* the row applying unless the application was completed or overruled.
MarkApplyUnknown(u) ==
    /\ pc[u] = "mark"
    /\ Transition(loc[u].rec, "applying", "apply_unknown")
    /\ Return(u)
    /\ UNCHANGED <<changes, outside, camp, used, runs>>

----------------------------------------------------------------------------
(* Bids and campaigns changed by hand.                                     *)

\* SetClusterBid: no baseline, and nothing in bid_changes.
SetClusterBid(u) ==
    /\ pc[u] = "idle" /\ MayChangeBid /\ Event
    /\ \E b \in Bids : loc' = [loc EXCEPT ![u] = [Idle EXCEPT !.job = "set", !.old = obs, !.new = b]]
    /\ pc' = [pc EXCEPT ![u] = "call"]
    /\ UNCHANGED <<recs, changes, outside, camp, runs>>

\* validateBidChangeRollbackTarget and the comparison with the synced bid.
Restorable(c) == c.old # c.new /\ obs = c.new

RollbackBidChange(u) ==
    /\ pc[u] = "idle" /\ MayChangeBid /\ Event
    /\ \E i \in 1 .. Len(changes) :
          /\ Restorable(changes[i])
          /\ loc' = [loc EXCEPT ![u] = [Idle EXCEPT !.job = "rollback", !.blind = ~synced,
                                                    !.old = changes[i].new, !.new = changes[i].old]]
    /\ pc' = [pc EXCEPT ![u] = "call"]
    /\ UNCHANGED <<recs, changes, outside, camp, runs>>

\* preflightCampaignAction for starts, pauses and stops.
Switches == {<<"paused", "active">>, <<"active", "paused">>, <<"active", "stopped">>, <<"paused", "stopped">>}

SwitchCampaign(u) ==
    /\ pc[u] = "idle" /\ Event
    /\ \E s \in Switches : s[1] = camp /\ loc' = [loc EXCEPT ![u] = [Idle EXCEPT !.job = "switch", !.to = s[2]]]
    /\ pc' = [pc EXCEPT ![u] = "call"]
    /\ UNCHANGED <<recs, changes, outside, camp, runs>>

UpdateLocalStatus(u) ==
    /\ pc[u] = "local"
    /\ camp' = loc[u].to
    /\ IF loc[u].to = "active" THEN Return(u) ELSE Goto(u, "invalidate")
    /\ UNCHANGED <<recs, changes, outside, used, runs>>

\* InvalidateActiveRecommendationsForCampaign.
Invalidated(rec) == IF rec.status = "active" THEN [rec EXCEPT !.status = "invalidated"] ELSE rec

InvalidateRecommendations(u) ==
    /\ pc[u] = "invalidate"
    /\ recs' = [r \in 1 .. Len(recs) |-> Invalidated(recs[r])]
    /\ Return(u)
    /\ UNCHANGED <<changes, outside, camp, used, runs>>

----------------------------------------------------------------------------
(* The call of WB, its answer and what is recorded of it.                  *)

\* History of the row: it was sent to WB, and perhaps WB took it.
Sent(rec, landed) == [rec EXCEPT !.calls = @ + 1, !.landed = @ \/ landed]

Called(u, landed) ==
    recs' = IF loc[u].job = "apply"
            THEN [recs EXCEPT ![loc[u].rec] = Sent(@, landed)]
            ELSE recs

\* WB's bid becomes b: what anybody read before is outdated.
Lands(b) ==
    /\ wb' = b /\ synced' = FALSE
    /\ sync' = [sync EXCEPT !.clean = FALSE]
    /\ UNCHANGED obs

\* u goes to a label; a bid that has landed outdates those about to call.
Proceed(u, label, lands) ==
    /\ pc' = [pc EXCEPT ![u] = label]
    /\ loc' = [q \in Procs |->
                 IF q = u THEN IF label = "idle" THEN Idle ELSE [loc[u] EXCEPT !.blind = FALSE]
                 ELSE [loc[q] EXCEPT !.blind = @ \/ (lands /\ pc[q] = "call")]]

Bidding(u) == loc[u].job # "switch"

\* Where an error of the call leads.
Failed(u) == IF loc[u].job = "apply" THEN "mark" ELSE "idle"

Answered(u) ==
    CASE loc[u].job = "switch"               -> "local"
      [] loc[u].job \in {"apply", "rollback"} -> "record"
      [] loc[u].job = "set"                  -> "idle"

CallAccepted(u) ==
    /\ pc[u] = "call"
    /\ Called(u, TRUE)
    /\ Proceed(u, Answered(u), Bidding(u))
    /\ IF Bidding(u) THEN Lands(loc[u].new) ELSE UNCHANGED outside
    /\ UNCHANGED <<changes, camp, used, runs>>

\* Slip: an error of WB is taken for a recommendation that was not sent.
CallRefusedReleased(u) ==
    /\ pc[u] = "call"
    /\ Called(u, FALSE)
    /\ Proceed(u, IF loc[u].job = "apply" THEN "release" ELSE "idle", FALSE)
    /\ UNCHANGED <<changes, outside, camp, used, runs>>

CallRefused(u) ==
    /\ pc[u] = "call"
    /\ Called(u, FALSE)
    /\ Proceed(u, Failed(u), FALSE)
    /\ UNCHANGED <<changes, outside, camp, used, runs>>

\* WB does as it is told, and the answer is lost.
CallLost(u) ==
    /\ pc[u] = "call" /\ Event
    /\ Called(u, TRUE)
    /\ Proceed(u, Failed(u), Bidding(u))
    /\ IF Bidding(u) THEN Lands(loc[u].new) ELSE UNCHANGED outside
    /\ UNCHANGED <<changes, camp, runs>>

\* CreateBidChange; an application is completed after it.
RecordChange(u) ==
    /\ pc[u] = "record" /\ Len(changes) < MaxChanges
    /\ changes' = Append(changes, [old |-> loc[u].old, new |-> loc[u].new, rec |-> loc[u].rec])
    /\ IF loc[u].job = "apply" THEN Goto(u, "complete") ELSE Return(u)
    /\ UNCHANGED <<recs, outside, camp, used, runs>>

\* Slip: a change that cannot be stored frees the recommendation.
RecordFailsReleased(u) ==
    /\ pc[u] = "record" /\ Event
    /\ IF loc[u].job = "apply" THEN Goto(u, "release") ELSE Return(u)
    /\ UNCHANGED <<recs, changes, outside, camp, runs>>

RecordFails(u) ==
    /\ pc[u] = "record" /\ Event
    /\ IF loc[u].job = "apply" THEN Goto(u, "mark") ELSE Return(u)
    /\ UNCHANGED <<recs, changes, outside, camp, runs>>

----------------------------------------------------------------------------
(* The rest of the world.                                                  *)

\* The process dies, or the client goes away: its context is cancelled, and
\* the deferred statements, which use that context, fail as well.
Crash(p) ==
    /\ pc[p] # "idle" /\ Event
    /\ Return(p)
    /\ recs' = IF p \in Users /\ pc[p] \in Claiming /\ loc[p].job = "apply"
               THEN [recs EXCEPT ![loc[p].rec].lost = TRUE] ELSE recs
    /\ UNCHANGED <<changes, outside, camp, runs>>

SyncRead ==
    /\ sync = NoSync /\ ~ synced
    /\ sync' = [bid |-> wb, clean |-> TRUE]
    /\ UNCHANGED <<recs, changes, obs, wb, synced, camp, pc, loc, used, runs>>

SyncWrite ==
    /\ sync # NoSync
    /\ obs' = sync.bid /\ synced' = sync.clean /\ sync' = NoSync
    /\ UNCHANGED <<recs, changes, wb, camp, pc, loc, used, runs>>

\* The seller changes the bid in WB's own interface.
EditInWB ==
    /\ Event
    /\ \E b \in Bids \ {wb} : Lands(b)
    /\ loc' = [q \in Procs |-> [loc[q] EXCEPT !.blind = @ \/ pc[q] = "call"]]
    /\ UNCHANGED <<recs, changes, camp, pc, runs>>

----------------------------------------------------------------------------

Apply(u) ==
    \/ ApplyRecommendation(u) \/ ClaimActiveRecommendation(u) \/ ApplyChecks(u)
    \/ ReleaseClaim(u) \/ CompleteRecommendation(u) \/ CompleteFails(u) \/ MarkApplyUnknown(u)

ByHand(u) ==
    \/ SetClusterBid(u) \/ RollbackBidChange(u)
    \/ SwitchCampaign(u) \/ UpdateLocalStatus(u) \/ InvalidateRecommendations(u)

Call(u) ==
    \/ CallAccepted(u) \/ CallRefused(u) \/ CallLost(u)
    \/ RecordChange(u) \/ RecordFails(u)

Next ==
    \/ \E u \in Users : Apply(u) \/ ByHand(u) \/ Call(u)
    \/ \E g \in Generators : Generate(g) \/ Look(g) \/ Put(g)
    \/ \E r \in 1 .. Len(recs), to \in Statuses : UpdateStatus(r, to)
    \/ \E p \in Procs : Crash(p)
    \/ SyncRead \/ SyncWrite \/ EditInWB

Spec == Init /\ [][Next]_vars

----------------------------------------------------------------------------
(* Properties.                                                             *)

\* Every row, change, local and counter has its type.
TypeOK ==
    /\ recs \in Seq([type : Types, old : Bids, new : Bids, status : Statuses,
                      calls : Nat, reopened : Nat, landed : BOOLEAN, overruled : BOOLEAN, lost : BOOLEAN])
    /\ changes \in Seq([old : Bids, new : Bids, rec : 0 .. MaxRecs])
    /\ obs \in Bids /\ wb \in Bids /\ synced \in BOOLEAN
    /\ camp \in {"active", "paused", "stopped"}
    /\ sync \in [bid : Bids, clean : BOOLEAN] \cup {NoSync}
    /\ pc \in [Procs -> {"idle", "claim", "local", "invalidate", "look", "put"} \cup Claiming]
    /\ runs \in 0 .. MaxRuns /\ used \in 0 .. MaxEvents

\* A recommendation is sent to WB once, and once more for each time a person
\* reopened it: neither racing requests, an uncertain answer, a failed
\* statement nor a refresh by the generator sends it again.
SentOnce == \A r \in 1 .. Len(recs) : recs[r].calls <= 1 + recs[r].reopened

\* A recommendation or a rollback about to be sent replaces the bid it was
\* made for, unless WB's bid has changed since the sync it relied on.
NoBlindOverwrite ==
    \A u \in Users : pc[u] = "call" /\ loc[u].job \in {"apply", "rollback"} => wb = loc[u].old \/ loc[u].blind

Unrecorded(r) == recs[r].landed /\ \A i \in 1 .. Len(changes) : changes[i].rec # r

\* A bid that WB took and bid_changes does not have is never hidden: its row
\* stays applying or apply_unknown until a person, or the generator, which
\* looked it up while it was active, decides otherwise.
UncertainStaysVisible ==
    \A r \in 1 .. Len(recs) :
        Unrecorded(r) => recs[r].overruled \/ recs[r].status \in {"applying", "apply_unknown"}

\* No claim is leaked: while a row is applying a request is at work on it,
\* unless one that was has died or lost its client.
ClaimNotLeaked ==
    \A r \in 1 .. Len(recs) : recs[r].status = "applying" =>
        recs[r].lost \/ \E u \in Users : loc[u].rec = r /\ loc[u].job = "apply" /\ pc[u] \in Claiming
=============================================================================
