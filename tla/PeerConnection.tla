---------------------------- MODULE PeerConnection ----------------------------
(***************************************************************************)
(* A peer connection of a video room and its negotiation with the media    *)
(* server: PeerConnectionV2, PeerConnectionManager and StateMachine of     *)
(* twilio_video.js, on which the video meetings of events run.             *)
(*                                                                         *)
(* What a call does is a chain of promises.  The rest of the chain is a    *)
(* sequence of calls, todo; between two of them anything else may happen.  *)
(* The chain runs under the lock of the state machine, which calls of      *)
(* update() and offer() await in the order they came.                      *)
(*                                                                         *)
(* The server is outside the repository.  The code tells what it relies    *)
(* on: the server never yields when both offer at once, except to the      *)
(* first offer of all; messages arrive in the order they were sent.        *)
(***************************************************************************)
EXTENDS Integers, Sequences

CONSTANTS
    MaxChanges,   \* bound: times the tracks of the participant change
    MaxAsks,      \* bound: offers and requests to offer of the server
    MaxBreaks,    \* bound: times the ICE connection fails
    MaxFails,     \* bound: promises of WebRTC that are rejected
    None

ASSUME BoundAssumption ==
    MaxChanges \in Nat /\ MaxAsks \in Nat /\ MaxBreaks \in Nat /\ MaxFails \in Nat

VARIABLES
    pc,           \* the PeerConnectionV2, with the RTCPeerConnection it wraps
    waiting,      \* calls of offer() and update() that await the lock
    tracks,       \* how often the tracks have changed
    ice,          \* whether the ICE connection holds
    server,       \* what the server knows
    toServer,
    toClient,
    asks, breaks, fails

limits == <<asks, breaks, fails>>
network == <<server, toServer, toClient>>
vars == <<pc, waiting, tracks, ice, network, limits>>

Calls == {"rollback", "setRemoteOffer", "setAnswer", "setRemoteAnswer",
          "createOffer", "setOffer", "drain", "drained", "maybeReoffer", "reoffer"}
Messages == [type: {"offer", "answer", "create-offer", "close"},
             revision: Nat, offer: Nat, tracks: Nat]

\* signaling: the signalingState; stable: _lastStableDescriptionRevision;
\* local: the type of _localDescription; offer, tracks: the number of the last
\* offer, and the tracks it or the last answer carries; draft:
\* those of an offer created and not yet set; current: the number of
\* the offer that the answer being applied answers.
Connections ==
    [signaling: {"stable", "have-local-offer", "have-remote-offer", "closed"},
     revision: Nat, stable: Nat, needsAnswer: BOOLEAN, queued: Messages \cup {None},
     shouldOffer: BOOLEAN, shouldRestartIce: BOOLEAN, isRestartingIce: BOOLEAN,
     local: {"none", "offer", "answer", "close"}, offer: Nat, tracks: Nat,
     draft: Nat, current: Nat, todo: Seq(Calls)]

\* revision: the highest seen or sent; expects: the revision of the offer sent,
\* or 0; owes: the offer to be answered; stable: the last revision agreed on;
\* tracks: those the server was told of.
Servers == [revision: Nat, expects: Nat, owes: Messages \cup {None},
            stable: Nat, tracks: Nat]

TypeOK ==
    /\ pc \in Connections
    /\ waiting \in Seq(Messages \cup {None})
    /\ tracks \in 0..MaxChanges
    /\ ice \in {"connected", "failed"}
    /\ server \in Servers
    /\ toServer \in Seq(Messages) /\ toClient \in Seq(Messages)
    /\ asks \in 0..MaxAsks /\ breaks \in 0..MaxBreaks /\ fails \in 0..MaxFails

Closed == pc.signaling = "closed"
Locked == pc.todo # <<>>

\* createAndOffer: offer() has been called on a new connection.
Init ==
    /\ pc = [signaling |-> "stable", revision |-> 0, stable |-> 0,
             needsAnswer |-> FALSE, queued |-> None, shouldOffer |-> FALSE,
             shouldRestartIce |-> FALSE, isRestartingIce |-> FALSE,
             local |-> "none", offer |-> 0, tracks |-> 0, draft |-> 0, current |-> 0,
             todo |-> <<>>]
    /\ waiting = <<None>>
    /\ tracks = 0
    /\ ice = "connected"
    /\ server = [revision |-> 0, expects |-> 0, owes |-> None, stable |-> 0, tracks |-> 0]
    /\ toServer = <<>> /\ toClient = <<>>
    /\ asks = 0 /\ breaks = 0 /\ fails = 0

-----------------------------------------------------------------------------
(* What the methods do before they wait for WebRTC: the connection c with  *)
(* their promises put before those that are left.                          *)

First(c, calls) == [c EXCEPT !.todo = calls \o @]

\* _offer
Offering(c) ==
    First([c EXCEPT !.needsAnswer = TRUE,
                    !.isRestartingIce = @ \/ c.shouldRestartIce,
                    !.shouldRestartIce = FALSE],
          <<"createOffer", "setOffer">>)

\* _answer
Answering(c) == First(c, <<"setRemoteOffer", "setAnswer", "drain", "maybeReoffer">>)

\* Mutant of HandleGlare: the restart of the offer rolled back is forgotten.
HandleGlareForgetting(c) ==
    First([c EXCEPT !.isRestartingIce = FALSE],
          <<"rollback", "setRemoteOffer", "setAnswer", "drain", "reoffer">>)

\* _handleGlare.  An offer follows in the end, by _maybeReoffer or else after it.
HandleGlare(c) ==
    First([c EXCEPT !.isRestartingIce = FALSE,
                    !.shouldRestartIce = @ \/ c.isRestartingIce],
          <<"rollback", "setRemoteOffer", "setAnswer", "drain", "reoffer">>)

\* Mutant of HandleAnswer: revisions are not compared.
HandleAnyAnswer(c, m) ==
    IF c.signaling # "have-local-offer" THEN c
    ELSE First([c EXCEPT !.current = m.offer],
               <<"setRemoteAnswer", "drain", "maybeReoffer">>)

HandleAnswer(c, m) ==
    IF m.revision # c.revision \/ c.signaling # "have-local-offer" THEN c
    ELSE First([c EXCEPT !.current = m.offer],
               <<"setRemoteAnswer", "drain", "maybeReoffer">>)

HandleCreateOffer(c, m) ==
    IF m.revision <= c.stable THEN c
    ELSE IF c.needsAnswer THEN [c EXCEPT !.queued = m]
    ELSE Offering([c EXCEPT !.revision = m.revision])

\* Mutant of HandleOffer: no glare is looked for.
HandleOfferWithoutGlare(c, m) ==
    IF m.revision <= c.stable THEN c ELSE Answering([c EXCEPT !.revision = m.revision])

HandleOffer(c, m) ==
    IF m.revision <= c.stable THEN c
    ELSE IF c.signaling # "have-local-offer"
         THEN Answering([c EXCEPT !.revision = m.revision])
    ELSE IF c.needsAnswer /\ c.revision = 1 THEN [c EXCEPT !.queued = m]
    ELSE HandleGlare([c EXCEPT !.revision = m.revision])

\* _updateDescription
Handle(c, m) ==
    CASE m.type = "answer"       -> HandleAnswer(c, m)
      [] m.type = "create-offer" -> HandleCreateOffer(c, m)
      [] m.type = "offer"        -> HandleOffer(c, m)

-----------------------------------------------------------------------------
(* The calls that await the lock.                                          *)

\* Mutant of CallOffer: whoever expects an answer does not offer.
CallOfferInVain(c) ==
    IF c.needsAnswer \/ c.isRestartingIce
    THEN pc' = c /\ UNCHANGED waiting
    ELSE pc' = c /\ waiting' = Append(waiting, None)

\* offer(): whoever expects an answer offers again later.
CallOffer(c) ==
    IF c.needsAnswer \/ c.isRestartingIce
    THEN pc' = [c EXCEPT !.shouldOffer = TRUE] /\ UNCHANGED waiting
    ELSE pc' = c /\ waiting' = Append(waiting, None)

\* _close preempts the lock; what is left of its chain fails.
Closing == [pc EXCEPT !.signaling = "closed", !.todo = <<>>]

\* A call that gets the lock: offer() looks again whether to offer now.
Begin ==
    /\ ~Closed /\ ~Locked
    /\ waiting # <<>>
    /\ waiting' = Tail(waiting)
    /\ LET m == Head(waiting) IN
          pc' = IF m = None
                THEN IF pc.needsAnswer \/ pc.isRestartingIce THEN pc ELSE Offering(pc)
                ELSE IF m.type = "close" THEN Closing
                ELSE Handle(pc, m)
    /\ UNCHANGED <<tracks, ice, network, limits>>

ChangeTracks ==
    /\ ~Closed
    /\ tracks < MaxChanges
    /\ tracks' = tracks + 1
    /\ CallOffer(pc)
    /\ UNCHANGED <<ice, network, limits>>

\* The ICE connection fails: unless a restart is on its way, one is asked for.
Break ==
    /\ ~Closed /\ ice = "connected" /\ pc.stable > 0 /\ breaks < MaxBreaks
    /\ ice' = "failed"
    /\ breaks' = breaks + 1
    /\ IF pc.shouldRestartIce \/ pc.isRestartingIce THEN UNCHANGED <<pc, waiting>>
       ELSE CallOffer([pc EXCEPT !.shouldRestartIce = TRUE])
    /\ UNCHANGED <<tracks, network, asks, fails>>

Sent(type) == [type |-> type, revision |-> pc'.revision, offer |-> pc'.offer,
               tracks |-> pc'.tracks]

\* The participant leaves: close()
Close ==
    /\ ~Closed
    /\ pc' = [Closing EXCEPT !.revision = @ + 1, !.local = "close"]
    /\ waiting' = <<>>
    /\ toServer' = Append(toServer, Sent("close"))
    /\ UNCHANGED <<tracks, ice, server, toClient, limits>>

\* update(): descriptions for a closed connection are dropped by the manager.
Receive ==
    /\ toClient # <<>>
    /\ toClient' = Tail(toClient)
    /\ waiting' = IF Closed THEN waiting ELSE Append(waiting, Head(toClient))
    /\ UNCHANGED <<pc, tracks, ice, server, toServer, limits>>

-----------------------------------------------------------------------------
(* The calls of the chain, as WebRTC completes them.                       *)

\* The states in which WebRTC accepts a call.
Accepted(call) ==
    CASE call \in {"createOffer", "setOffer"} ->
            pc.signaling \in {"stable", "have-local-offer"}
      [] call \in {"rollback", "setRemoteAnswer"} -> pc.signaling = "have-local-offer"
      [] call = "setRemoteOffer" -> pc.signaling = "stable"
      [] call = "setAnswer" -> pc.signaling = "have-remote-offer"
      [] OTHER -> TRUE

Runs(call) == ~Closed /\ Locked /\ Head(pc.todo) = call /\ Accepted(call)
Rest == [pc EXCEPT !.todo = Tail(@)]

\* createOffer takes the tracks there are; shouldOffer is served by it.
CreateOffer ==
    /\ Runs("createOffer")
    /\ pc' = [Rest EXCEPT !.shouldOffer = FALSE, !.draft = tracks]
    /\ UNCHANGED <<waiting, tracks, ice, network, limits>>

SetOffer ==
    /\ Runs("setOffer")
    /\ pc' = [Rest EXCEPT !.signaling = "have-local-offer", !.local = "offer",
                          !.revision = @ + 1, !.offer = @ + 1, !.tracks = pc.draft]
    /\ toServer' = Append(toServer, Sent("offer"))
    /\ UNCHANGED <<waiting, tracks, ice, server, toClient, limits>>

Rollback ==
    /\ Runs("rollback")
    /\ pc' = [Rest EXCEPT !.signaling = "stable", !.needsAnswer = FALSE]
    /\ UNCHANGED <<waiting, tracks, ice, network, limits>>

SetRemoteOffer ==
    /\ Runs("setRemoteOffer")
    /\ pc' = [Rest EXCEPT !.signaling = "have-remote-offer"]
    /\ UNCHANGED <<waiting, tracks, ice, network, limits>>

\* The offer answered may have no room for the tracks that are new.
SetAnswer ==
    /\ Runs("setAnswer")
    /\ \E carried \in {pc.tracks, tracks} :
          pc' = [Rest EXCEPT !.signaling = "stable", !.local = "answer",
                             !.stable = pc.revision, !.tracks = carried]
    /\ toServer' = Append(toServer, Sent("answer"))
    /\ UNCHANGED <<waiting, tracks, ice, server, toClient, limits>>

\* Mutant of SetRemoteAnswer: a provisional answer is set as such.
SetRemoteAnswerProvisionally ==
    /\ Runs("setRemoteAnswer")
    /\ pc' = [Rest EXCEPT !.signaling = "have-remote-pranswer", !.stable = pc.revision,
                          !.needsAnswer = FALSE, !.isRestartingIce = FALSE]
    /\ ice' = IF pc.isRestartingIce THEN "connected" ELSE ice
    /\ UNCHANGED <<waiting, tracks, network, limits>>

\* The ICE connection is back once an offer that restarts it is answered.
SetRemoteAnswer ==
    /\ Runs("setRemoteAnswer")
    /\ pc' = [Rest EXCEPT !.signaling = "stable", !.stable = pc.revision,
                          !.needsAnswer = FALSE, !.isRestartingIce = FALSE]
    /\ ice' = IF pc.isRestartingIce THEN "connected" ELSE ice
    /\ UNCHANGED <<waiting, tracks, network, limits>>

\* A description that was queued is handled before the chain goes on.
Drain ==
    /\ Runs("drain")
    /\ pc' = IF pc.queued = None THEN Rest
             ELSE Handle(First(Rest, <<"drained">>), pc.queued)
    /\ UNCHANGED <<waiting, tracks, ice, network, limits>>

Drained ==
    /\ Runs("drained")
    /\ pc' = [Rest EXCEPT !.queued = None]
    /\ UNCHANGED <<waiting, tracks, ice, network, limits>>

\* Mutant of MaybeReoffer: an offer asked for meanwhile is not looked at.
MaybeReofferForgetting ==
    /\ Runs("maybeReoffer")
    /\ \/ pc' = Rest
       \/ pc.local = "answer" /\ pc.tracks # tracks /\ pc' = Offering(Rest)
    /\ UNCHANGED <<waiting, tracks, ice, network, limits>>

\* An offer was asked for meanwhile, or the answer had no room for a new track.
MaybeReoffer ==
    /\ Runs("maybeReoffer")
    /\ \/ ~pc.shouldOffer /\ pc' = Rest
       \/ pc.shouldOffer /\ pc' = Offering(Rest)
       \/ pc.local = "answer" /\ pc.tracks # tracks /\ pc' = Offering(Rest)
    /\ UNCHANGED <<waiting, tracks, ice, network, limits>>

Reoffer ==
    /\ Runs("reoffer")
    /\ pc' = Offering(Rest)
    /\ UNCHANGED <<waiting, tracks, ice, network, limits>>

\* The rest of the chain is skipped and the lock freed.
Rejected == pc' = [pc EXCEPT !.todo = <<>>]

Refuse ==
    /\ ~Closed /\ Locked /\ ~Accepted(Head(pc.todo))
    /\ Rejected
    /\ UNCHANGED <<waiting, tracks, ice, network, limits>>

Proceed ==
    \/ CreateOffer \/ SetOffer \/ Rollback \/ SetRemoteOffer \/ SetAnswer
    \/ SetRemoteAnswer \/ Drain \/ Drained \/ MaybeReoffer \/ Reoffer \/ Refuse

\* A call may fail in any state.
Reject ==
    /\ ~Closed /\ Locked /\ fails < MaxFails
    /\ Head(pc.todo) \in {"rollback", "setRemoteOffer", "setAnswer",
                          "setRemoteAnswer", "createOffer", "setOffer"}
    /\ Rejected
    /\ fails' = fails + 1
    /\ UNCHANGED <<waiting, tracks, ice, network, asks, breaks>>

-----------------------------------------------------------------------------
(* The server.                                                             *)

Says(type, revision, offer) ==
    toClient' = Append(toClient, [type |-> type, revision |-> revision,
                                  offer |-> offer, tracks |-> 0])

Higher(a, b) == IF a > b THEN a ELSE b

\* It does not yield to an offer that crosses its own, unless it is the first.
ServerReceive ==
    /\ toServer # <<>>
    /\ toServer' = Tail(toServer)
    /\ LET m == Head(toServer)
           seen == [server EXCEPT !.revision = Higher(@, m.revision)] IN
       server' = IF m.type = "offer" /\ (m.revision = 1 \/ server.expects = 0)
                 THEN [seen EXCEPT !.owes = m]
                 ELSE IF m.type = "answer" /\ m.revision = server.expects
                 THEN [seen EXCEPT !.expects = 0, !.stable = m.revision, !.tracks = m.tracks]
                 ELSE seen
    /\ UNCHANGED <<pc, waiting, tracks, ice, toClient, limits>>

ServerAnswer ==
    /\ server.owes # None
    /\ Says("answer", server.owes.revision, server.owes.offer)
    /\ server' = [server EXCEPT !.owes = None, !.stable = server.owes.revision,
                                !.tracks = server.owes.tracks]
    /\ UNCHANGED <<pc, waiting, tracks, ice, toServer, limits>>

\* It offers, or asks for an offer, when it waits for nothing.
ServerAsk ==
    /\ asks < MaxAsks
    /\ asks' = asks + 1
    /\ server.revision > 0 /\ server.expects = 0
    /\ server.owes # None => server.owes.revision = 1
    /\ LET revision == server.revision + 1 IN
          \/ /\ Says("offer", revision, 0)
             /\ server' = [server EXCEPT !.revision = revision, !.expects = revision]
          \/ /\ Says("create-offer", revision, 0)
             /\ server' = [server EXCEPT !.revision = revision]
          \/ /\ Says("close", revision, 0)
             /\ UNCHANGED server
    /\ UNCHANGED <<pc, waiting, tracks, ice, toServer, breaks, fails>>

Next ==
    \/ Begin \/ Proceed \/ Reject \/ Receive
    \/ ChangeTracks \/ Break \/ Close
    \/ ServerReceive \/ ServerAnswer \/ ServerAsk

\* Promises of WebRTC settle, messages arrive, and the server answers.
Fairness ==
    WF_vars(Begin) /\ WF_vars(Proceed) /\ WF_vars(Receive)
       /\ WF_vars(ServerReceive) /\ WF_vars(ServerAnswer)

Spec == Init /\ [][Next]_vars /\ Fairness

-----------------------------------------------------------------------------
\* Until WebRTC rejects a call for another reason, it accepts every call of the
\* chain: whatever crosses, calls are made in the states they are made for.
CallsAreAccepted == (Locked /\ fails = 0) => Accepted(Head(pc.todo))

\* Though only revisions are compared, an answer is never applied to another
\* offer than the one it answers: not to the offer after a rollback, either.
AnswersOwnOffer ==
    (Locked /\ Head(pc.todo) = "setRemoteAnswer") => pc.current = pc.offer

\* Unless WebRTC rejected a call: who waits for an answer has made an offer,
\* and an offer that was asked for meanwhile waits for that answer.
Idle == ~Closed /\ ~Locked
WaitsForAnswer ==
    (Idle /\ fails = 0) =>
       /\ pc.needsAnswer <=> pc.signaling = "have-local-offer"
       /\ pc.shouldOffer \/ pc.isRestartingIce => pc.needsAnswer

\* Unless WebRTC rejects a call, every change of the tracks reaches the server
\* and both sides end up with the same description ...
Settled ==
    /\ server.tracks = tracks /\ server.stable = pc.stable
    /\ pc.signaling = "stable" /\ server.expects = 0
EverythingIsNegotiated == <>[](Settled \/ Closed \/ fails > 0)

\* ... and a restart that was offered is completed, though the offer is rolled back.
OfferedRestartEnds ==
    pc.isRestartingIce ~> (ice = "connected" \/ Closed \/ fails > 0)
=============================================================================
