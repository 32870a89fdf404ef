------------------------ MODULE PeerConnectionProofs ------------------------
(***************************************************************************)
(* What holds of PeerConnection for any number of changes, offers of the   *)
(* server and failures of the connection: its types, that WebRTC accepts   *)
(* every call of a chain, who waits for an answer, and that an answer is   *)
(* applied to the offer it answers, whatever crosses or is rolled back.    *)
(***************************************************************************)
EXTENDS PeerConnection, SequenceTheorems, TLAPS

USE BoundAssumption

-----------------------------------------------------------------------------
(* Chains of calls.                                                        *)

Ends == {"drain", "drained", "maybeReoffer", "reoffer"}

\* What may come after a call: only setOffer and the ends may be the last one.
After(call) ==
    CASE call = "createOffer"    -> {"setOffer"}
      [] call = "rollback"       -> {"setRemoteOffer"}
      [] call = "setRemoteOffer" -> {"setAnswer"}
      [] OTHER                   -> Ends

Chain(todo) ==
    /\ todo \in Seq(Calls)
    /\ \A i \in 1..(Len(todo) - 1) : todo[i + 1] \in After(todo[i])
    /\ Len(todo) > 0 => todo[Len(todo)] \in Ends \cup {"setOffer"}

\* The chain may be put before the rest of another one.
Between(todo) == todo = <<>> \/ todo[1] \in Ends

Reoffers(todo) == \E i \in 1..Len(todo) : todo[i] \in {"maybeReoffer", "reoffer"}

LEMMA ChainTail ==
    ASSUME NEW todo, Chain(todo), todo # <<>>
    PROVE  /\ Head(todo) = todo[1] /\ todo[1] \in Calls
           /\ Chain(Tail(todo))
           /\ Tail(todo) # <<>> => Tail(todo)[1] \in After(todo[1])
           /\ Tail(todo) = <<>> => todo[1] \in Ends \cup {"setOffer"}
           /\ Reoffers(todo) /\ todo[1] \notin {"maybeReoffer", "reoffer"}
                 => Reoffers(Tail(todo))
  <1>1. /\ todo \in Seq(Calls) /\ Len(todo) \in Nat /\ Len(todo) > 0
        /\ Head(todo) = todo[1] /\ todo[1] \in Calls
    BY DEF Chain
  <1>2. /\ Tail(todo) \in Seq(Calls) /\ Len(Tail(todo)) = Len(todo) - 1
        /\ \A i \in 1..(Len(todo) - 1) : Tail(todo)[i] = todo[i + 1]
    BY <1>1, HeadTailProperties
  <1>3. \A i \in 1..(Len(Tail(todo)) - 1) : Tail(todo)[i + 1] \in After(Tail(todo)[i])
    <2> SUFFICES ASSUME NEW i \in 1..(Len(Tail(todo)) - 1)
        PROVE  Tail(todo)[i + 1] \in After(Tail(todo)[i])
      OBVIOUS
    <2>1. Tail(todo)[i] = todo[i + 1] /\ Tail(todo)[i + 1] = todo[(i + 1) + 1]
      BY <1>1, <1>2
    <2>2. i + 1 \in 1..(Len(todo) - 1)
      BY <1>1, <1>2
    <2> QED BY <2>1, <2>2 DEF Chain
  <1>4. Len(Tail(todo)) > 0 => Tail(todo)[Len(Tail(todo))] = todo[Len(todo)]
    BY <1>1, <1>2
  <1>5. Chain(Tail(todo))
    BY <1>1, <1>2, <1>3, <1>4 DEF Chain
  <1>6. Tail(todo) # <<>> => Tail(todo)[1] \in After(todo[1])
    <2>1. Tail(todo) # <<>> => Len(todo) - 1 >= 1
      BY <1>1, <1>2, EmptySeq
    <2> QED BY <2>1, <1>1, <1>2 DEF Chain
  <1>7. Tail(todo) = <<>> => todo[1] \in Ends \cup {"setOffer"}
    <2>1. Tail(todo) = <<>> => Len(Tail(todo)) = 0
      BY EmptySeq
    <2>2. Tail(todo) = <<>> => Len(todo) = 1
      BY <2>1, <1>1, <1>2
    <2> QED BY <2>2, <1>1 DEF Chain
  <1>8. ASSUME NEW i \in 1..Len(todo), todo[i] \in {"maybeReoffer", "reoffer"},
               todo[1] \notin {"maybeReoffer", "reoffer"}
        PROVE  Reoffers(Tail(todo))
    <2>1. i # 1 /\ i - 1 \in 1..Len(Tail(todo))
      BY <1>1, <1>2, <1>8
    <2>2. Tail(todo)[i - 1] = todo[i]
      <3>1. i - 1 \in 1..(Len(todo) - 1) /\ (i - 1) + 1 = i
        BY <2>1, <1>1, <1>2
      <3>2. Tail(todo)[i - 1] = todo[(i - 1) + 1]
        BY <3>1, <1>2
      <3> QED BY <3>1, <3>2
    <2> QED BY <2>1, <2>2, <1>8 DEF Reoffers
  <1> QED BY <1>1, <1>5, <1>6, <1>7, <1>8 DEF Reoffers

LEMMA ChainConcat ==
    ASSUME NEW calls, NEW rest, Chain(calls), calls # <<>>, Chain(rest), Between(rest)
    PROVE  /\ Chain(calls \o rest) /\ calls \o rest # <<>>
           /\ (calls \o rest)[1] = calls[1]
           /\ Reoffers(calls) \/ Reoffers(rest) => Reoffers(calls \o rest)
  <1> DEFINE all == calls \o rest
  <1>1. /\ calls \in Seq(Calls) /\ rest \in Seq(Calls) /\ Len(calls) \in Nat
        /\ Len(rest) \in Nat /\ Len(calls) > 0
    BY EmptySeq DEF Chain
  <1>2. /\ all \in Seq(Calls) /\ Len(all) = Len(calls) + Len(rest)
        /\ \A i \in 1..Len(calls) : all[i] = calls[i]
        /\ \A i \in 1..Len(rest) : all[Len(calls) + i] = rest[i]
    BY <1>1, ConcatProperties
  <1> HIDE DEF all
  <1>3. all # <<>> /\ all[1] = calls[1]
    BY <1>1, <1>2
  <1>4. ASSUME NEW i \in 1..(Len(all) - 1) PROVE all[i + 1] \in After(all[i])
    <2>1. CASE i < Len(calls)
      <3>1. all[i] = calls[i] /\ all[i + 1] = calls[i + 1] /\ i \in 1..(Len(calls) - 1)
        BY <2>1, <1>1, <1>2
      <3> QED BY <3>1 DEF Chain
    <2>2. CASE i = Len(calls)
      <3>1. all[i] = calls[Len(calls)] /\ all[i + 1] = rest[1] /\ Len(rest) > 0
        BY <2>2, <1>1, <1>2, <1>4
      <3>2. calls[Len(calls)] \in Ends \cup {"setOffer"} /\ rest[1] \in Ends
        BY <3>1, <1>1 DEF Chain, Between
      <3> QED BY <3>1, <3>2 DEF After, Ends
    <2>3. CASE i > Len(calls)
      <3> DEFINE j == i - Len(calls)
      <3>1. j \in 1..(Len(rest) - 1) /\ i = Len(calls) + j /\ i + 1 = Len(calls) + (j + 1)
        BY <2>3, <1>1, <1>2, <1>4
      <3>2. j \in 1..Len(rest) /\ j + 1 \in 1..Len(rest)
        BY <3>1, <1>1
      <3> HIDE DEF j
      <3>3. all[Len(calls) + j] = rest[j] /\ all[Len(calls) + (j + 1)] = rest[j + 1]
        BY <3>2, <1>2
      <3>4. all[i] = rest[j] /\ all[i + 1] = rest[j + 1]
        BY <3>1, <3>3
      <3> QED BY <3>1, <3>4 DEF Chain
    <2> QED BY <2>1, <2>2, <2>3, <1>1
  <1>5. all[Len(all)] \in Ends \cup {"setOffer"}
    <2>1. CASE Len(rest) = 0
      BY <2>1, <1>1, <1>2 DEF Chain
    <2>2. CASE Len(rest) > 0
      BY <2>2, <1>1, <1>2 DEF Chain
    <2> QED BY <2>1, <2>2, <1>1
  <1>6. Chain(all)
    BY <1>2, <1>4, <1>5 DEF Chain
  <1>7. ASSUME NEW i \in 1..Len(calls), calls[i] \in {"maybeReoffer", "reoffer"}
        PROVE  Reoffers(all)
    BY <1>1, <1>2, <1>7 DEF Reoffers
  <1>8. ASSUME NEW i \in 1..Len(rest), rest[i] \in {"maybeReoffer", "reoffer"}
        PROVE  Reoffers(all)
    <2>1. Len(calls) + i \in 1..Len(all) /\ all[Len(calls) + i] = rest[i]
      BY <1>1, <1>2
    <2> QED BY <2>1, <1>8 DEF Reoffers
  <1> QED BY <1>3, <1>6, <1>7, <1>8 DEF all, Reoffers

\* The chains that the methods start.
Offers   == <<"createOffer", "setOffer">>
Answers  == <<"setRemoteOffer", "setAnswer", "drain", "maybeReoffer">>
Glares   == <<"rollback", "setRemoteOffer", "setAnswer", "drain", "reoffer">>
Receives == <<"setRemoteAnswer", "drain", "maybeReoffer">>
Drains   == <<"drained">>

LEMMA OffersChain == Chain(Offers) /\ Offers # <<>> /\ Offers[1] = "createOffer"
  BY DEF Chain, Offers, After, Ends, Calls

LEMMA AnswersChain ==
    /\ Chain(Answers) /\ Answers # <<>> /\ Answers[1] = "setRemoteOffer"
    /\ Reoffers(Answers)
  <1>1. Reoffers(Answers)
    <2>1. 4 \in 1..Len(Answers) /\ Answers[4] = "maybeReoffer"
      BY DEF Answers
    <2> QED BY <2>1 DEF Reoffers
  <1> QED BY <1>1 DEF Chain, Answers, After, Ends, Calls

LEMMA GlaresChain ==
    Chain(Glares) /\ Glares # <<>> /\ Glares[1] = "rollback" /\ Reoffers(Glares)
  <1>1. Reoffers(Glares)
    <2>1. 5 \in 1..Len(Glares) /\ Glares[5] = "reoffer"
      BY DEF Glares
    <2> QED BY <2>1 DEF Reoffers
  <1> QED BY <1>1 DEF Chain, Glares, After, Ends, Calls

LEMMA ReceivesChain ==
    /\ Chain(Receives) /\ Receives # <<>> /\ Receives[1] = "setRemoteAnswer"
    /\ Reoffers(Receives)
  <1>1. Reoffers(Receives)
    <2>1. 3 \in 1..Len(Receives) /\ Receives[3] = "maybeReoffer"
      BY DEF Receives
    <2> QED BY <2>1 DEF Reoffers
  <1> QED BY <1>1 DEF Chain, Receives, After, Ends, Calls

LEMMA DrainsChain == Chain(Drains) /\ Drains # <<>> /\ Drains[1] = "drained"
  BY DEF Chain, Drains, After, Ends, Calls

-----------------------------------------------------------------------------
(* Types.                                                                  *)

Queues(queued) == queued = None \/ queued.type \in {"offer", "create-offer"}

TInv == TypeOK /\ Queues(pc.queued)

LEMMA InitTInv == Init => TInv
  <1> SUFFICES ASSUME Init PROVE TInv
    OBVIOUS
  <1>1. pc \in Connections /\ pc.queued = None
    BY DEF Init, Connections
  <1>2. server \in Servers
    BY DEF Init, Servers
  <1>3. waiting \in Seq(Messages \cup {None}) /\ toServer \in Seq(Messages)
        /\ toClient \in Seq(Messages)
    BY DEF Init
  <1> QED BY <1>1, <1>2, <1>3 DEF Init, TInv, TypeOK, Queues

LEMMA FirstType ==
    ASSUME NEW c \in Connections, NEW calls \in Seq(Calls)
    PROVE  /\ First(c, calls) \in Connections
           /\ First(c, calls).todo = calls \o c.todo
           /\ First(c, calls).signaling = c.signaling
           /\ First(c, calls).needsAnswer = c.needsAnswer
           /\ First(c, calls).queued = c.queued
           /\ First(c, calls).shouldOffer = c.shouldOffer
           /\ First(c, calls).isRestartingIce = c.isRestartingIce
  <1>1. calls \o c.todo \in Seq(Calls)
    BY ConcatProperties DEF Connections
  <1> QED BY <1>1 DEF First, Connections

LEMMA OfferingType ==
    ASSUME NEW c \in Connections
    PROVE  /\ Offering(c) \in Connections
           /\ Offering(c).todo = Offers \o c.todo
           /\ Offering(c).queued = c.queued
           /\ Offering(c).signaling = c.signaling
           /\ Offering(c).needsAnswer = TRUE
  <1> DEFINE d == [c EXCEPT !.needsAnswer = TRUE,
                            !.isRestartingIce = @ \/ c.shouldRestartIce,
                            !.shouldRestartIce = FALSE]
  <1>1. /\ d \in Connections /\ d.queued = c.queued /\ d.todo = c.todo
        /\ d.signaling = c.signaling /\ d.needsAnswer = TRUE
    BY DEF Connections
  <1>2. Offering(c) = First(d, Offers) /\ Offers \in Seq(Calls)
    BY OffersChain DEF Offering, Offers, Chain
  <1> HIDE DEF d
  <1>3. /\ First(d, Offers) \in Connections
        /\ First(d, Offers).todo = Offers \o d.todo
        /\ First(d, Offers).signaling = d.signaling
        /\ First(d, Offers).queued = d.queued
    BY <1>1, <1>2, FirstType
  <1>4. First(d, Offers).needsAnswer = d.needsAnswer
    BY <1>1, <1>2, FirstType
  <1>5. First(d, Offers).needsAnswer = TRUE
    BY <1>1, <1>4
  <1> QED BY <1>1, <1>2, <1>3, <1>5

LEMMA HandleType ==
    ASSUME NEW c \in Connections, Queues(c.queued), NEW m \in Messages, m.type # "close"
    PROVE  Handle(c, m) \in Connections /\ Queues(Handle(c, m).queued)
  <1>1. \A d \in Connections :
           Offering(d) \in Connections /\ Offering(d).queued = d.queued
    BY OfferingType
  <1>2. m.revision \in Nat /\ m.offer \in Nat
    BY DEF Messages
  <1>3. CASE m.type = "answer"
    <2> DEFINE e == [c EXCEPT !.current = m.offer]
    <2>1. e \in Connections /\ e.queued = c.queued
      BY <1>2 DEF Connections
    <2>2. Receives \in Seq(Calls)
      BY ReceivesChain DEF Chain
    <2> HIDE DEF e
    <2>3. First(e, Receives) \in Connections /\ First(e, Receives).queued = c.queued
      BY <2>1, <2>2, FirstType
    <2> QED BY <1>1, <1>3, <2>3 DEF Handle, HandleAnswer, Receives, e
  <1>4. CASE m.type = "create-offer"
    <2>1. /\ [c EXCEPT !.revision = m.revision] \in Connections
          /\ [c EXCEPT !.revision = m.revision].queued = c.queued
          /\ [c EXCEPT !.queued = m] \in Connections
          /\ [c EXCEPT !.queued = m].queued = m
      BY <1>2 DEF Connections
    <2> QED BY <1>1, <1>4, <2>1 DEF Handle, HandleCreateOffer, Queues
  <1>5. CASE m.type = "offer"
    <2> DEFINE e == [c EXCEPT !.revision = m.revision]
               g == [e EXCEPT !.isRestartingIce = FALSE,
                              !.shouldRestartIce = @ \/ e.isRestartingIce]
    <2>1. /\ e \in Connections /\ e.queued = c.queued
          /\ [c EXCEPT !.queued = m] \in Connections
          /\ [c EXCEPT !.queued = m].queued = m
      BY <1>2 DEF Connections
    <2>2. g \in Connections /\ g.queued = e.queued
      <3>1. ASSUME NEW d \in Connections, NEW b \in BOOLEAN
            PROVE  LET x == [d EXCEPT !.isRestartingIce = FALSE, !.shouldRestartIce = b]
                   IN x \in Connections /\ x.queued = d.queued
        BY DEF Connections
      <3>2. (e.shouldRestartIce \/ e.isRestartingIce) \in BOOLEAN
        OBVIOUS
      <3>3. g = [e EXCEPT !.isRestartingIce = FALSE,
                          !.shouldRestartIce = e.shouldRestartIce \/ e.isRestartingIce]
        BY <2>1 DEF Connections
      <3> HIDE DEF e, g
      <3> QED BY <2>1, <3>1, <3>2, <3>3
    <2>3. Answers \in Seq(Calls) /\ Glares \in Seq(Calls)
      BY AnswersChain, GlaresChain DEF Chain
    <2>4. Answering(e) = First(e, Answers) /\ HandleGlare(e) = First(g, Glares)
      BY DEF Answering, HandleGlare, Answers, Glares
    <2> HIDE DEF e, g
    <2>5. /\ First(e, Answers) \in Connections /\ First(e, Answers).queued = c.queued
          /\ First(g, Glares) \in Connections /\ First(g, Glares).queued = c.queued
      BY <2>1, <2>2, <2>3, FirstType
    <2> QED BY <1>1, <1>5, <2>1, <2>4, <2>5 DEF Handle, HandleOffer, Queues, e
  <1> QED BY <1>1, <1>3, <1>4, <1>5 DEF Messages

LEMMA RestType ==
    ASSUME TypeOK, Locked
    PROVE  /\ Rest \in Connections /\ Rest.todo = Tail(pc.todo)
           /\ Rest.queued = pc.queued
  <1>1. pc \in Connections /\ pc.todo \in Seq(Calls) /\ pc.todo # <<>>
    BY DEF TypeOK, Connections, Locked
  <1>2. Tail(pc.todo) \in Seq(Calls)
    BY <1>1, HeadTailProperties
  <1> QED BY <1>1, <1>2 DEF Rest, Connections

LEMMA SentType ==
    ASSUME pc' \in Connections, NEW type \in {"offer", "answer", "close"}
    PROVE  Sent(type) \in Messages
  BY DEF Sent, Messages, Connections

LEMMA AppendType ==
    ASSUME NEW S, NEW seq \in Seq(S), NEW e \in S
    PROVE  Append(seq, e) \in Seq(S)
  BY AppendProperties

LEMMA TailType ==
    ASSUME NEW S, NEW seq \in Seq(S), seq # <<>>
    PROVE  Tail(seq) \in Seq(S) /\ Head(seq) \in S
  BY HeadTailProperties

\* What CallOffer does to the connection that is passed to it.
LEMMA CallOfferType ==
    ASSUME TypeOK, NEW c \in Connections, CallOffer(c)
    PROVE  pc' \in Connections /\ pc'.queued = c.queued
           /\ waiting' \in Seq(Messages \cup {None})
  <1>1. CASE c.needsAnswer \/ c.isRestartingIce
    <2>1. pc' = [c EXCEPT !.shouldOffer = TRUE] /\ waiting' = waiting
      BY <1>1 DEF CallOffer
    <2>2. pc' \in Connections /\ pc'.queued = c.queued
      BY <2>1 DEF Connections
    <2> QED BY <2>1, <2>2 DEF TypeOK
  <1>2. CASE ~(c.needsAnswer \/ c.isRestartingIce)
    BY <1>2, AppendType DEF CallOffer, TypeOK
  <1> QED BY <1>1, <1>2

\* A chain that is given up.
LEMMA SkipType ==
    ASSUME TypeOK
    PROVE  /\ Rejected => pc' \in Connections /\ pc'.queued = pc.queued
           /\ Closing \in Connections /\ Closing.queued = pc.queued
  <1>1. pc \in Connections /\ <<>> \in Seq(Calls)
    BY EmptySeq DEF TypeOK
  <1>2. Rejected => pc' = [pc EXCEPT !.todo = <<>>]
    BY DEF Rejected
  <1>3. /\ [pc EXCEPT !.todo = <<>>] \in Connections
        /\ [pc EXCEPT !.todo = <<>>].queued = pc.queued
    BY <1>1 DEF Connections
  <1>4. Closing \in Connections /\ Closing.queued = pc.queued
    BY <1>1 DEF Closing, Connections
  <1> QED BY <1>2, <1>3, <1>4

\* The steps of the chain.
LEMMA ProceedType == ASSUME TInv, Proceed PROVE TInv'
  <1> USE DEF TInv
  <1>1. /\ pc \in Connections /\ Locked /\ Queues(pc.queued)
        /\ UNCHANGED <<waiting, tracks, server, toClient, limits>>
    BY DEF Proceed, CreateOffer, SetOffer, Rollback, SetRemoteOffer, SetAnswer,
           SetRemoteAnswer, Drain, Drained, MaybeReoffer, Reoffer, Refuse, Runs,
           TypeOK, network
  <1>2. Rest \in Connections /\ Rest.queued = pc.queued
    BY <1>1, RestType
  <1>3. pc' \in Connections /\ Queues(pc'.queued)
    <2>1. CASE CreateOffer
      <3>1. pc' = [Rest EXCEPT !.shouldOffer = FALSE, !.draft = tracks] /\ tracks \in Nat
        BY <2>1 DEF CreateOffer, TypeOK
      <3> QED BY <3>1, <1>1, <1>2 DEF Connections
    <2>2. CASE SetOffer
      <3>1. pc' = [Rest EXCEPT !.signaling = "have-local-offer", !.local = "offer",
                               !.revision = Rest.revision + 1, !.offer = Rest.offer + 1,
                               !.tracks = pc.draft]
        BY <2>2 DEF SetOffer
      <3>2. Rest.revision + 1 \in Nat /\ Rest.offer + 1 \in Nat /\ pc.draft \in Nat
        <4>1. Rest.revision \in Nat /\ Rest.offer \in Nat
          BY <1>2 DEF Connections
        <4>2. pc.draft \in Nat
          BY <1>1 DEF Connections
        <4> QED BY <4>1, <4>2
      <3> QED BY <3>1, <3>2, <1>1, <1>2 DEF Connections
    <2>3. CASE Rollback
      BY <2>3, <1>1, <1>2 DEF Rollback, Connections
    <2>4. CASE SetRemoteOffer
      BY <2>4, <1>1, <1>2 DEF SetRemoteOffer, Connections
    <2>5. CASE SetAnswer
      <3>1. PICK carried \in {pc.tracks, tracks} :
               pc' = [Rest EXCEPT !.signaling = "stable", !.local = "answer",
                                  !.stable = pc.revision, !.tracks = carried]
        BY <2>5 DEF SetAnswer
      <3>2. carried \in Nat /\ pc.revision \in Nat
        BY <1>1 DEF Connections, TypeOK
      <3> QED BY <3>1, <3>2, <1>1, <1>2 DEF Connections
    <2>6. CASE SetRemoteAnswer
      BY <2>6, <1>1, <1>2 DEF SetRemoteAnswer, Connections
    <2>7. CASE Drain
      <3>1. CASE pc.queued = None
        BY <2>7, <3>1, <1>1, <1>2 DEF Drain
      <3>2. CASE pc.queued # None
        <4>1. pc.queued \in Messages /\ pc.queued.type # "close"
          BY <3>2, <1>1 DEF Connections, Queues
        <4>2. First(Rest, Drains) \in Connections /\ First(Rest, Drains).queued = pc.queued
          BY <1>2, DrainsChain, FirstType DEF Chain
        <4>3. pc' = Handle(First(Rest, Drains), pc.queued)
          BY <2>7, <3>2 DEF Drain, Drains
        <4> QED BY <4>1, <4>2, <4>3, <1>1, HandleType
      <3> QED BY <3>1, <3>2
    <2>8. CASE Drained
      BY <2>8, <1>2 DEF Drained, Connections, Queues
    <2>9. CASE MaybeReoffer \/ Reoffer
      <3>1. pc' = Rest \/ pc' = Offering(Rest)
        BY <2>9 DEF MaybeReoffer, Reoffer
      <3> QED BY <3>1, <1>1, <1>2, OfferingType
    <2>10. CASE Refuse
      BY <2>10, <1>1, SkipType DEF Refuse
    <2> QED BY <2>1, <2>2, <2>3, <2>4, <2>5, <2>6, <2>7, <2>8, <2>9, <2>10 DEF Proceed
  <1>4. toServer' \in Seq(Messages)
    <2>1. CASE toServer' = toServer
      BY <2>1 DEF TypeOK
    <2>2. ASSUME NEW type \in {"offer", "answer"}, toServer' = Append(toServer, Sent(type))
          PROVE  toServer' \in Seq(Messages)
      BY <2>2, <1>3, SentType, AppendType DEF TypeOK
    <2> QED BY <2>1, <2>2
        DEF Proceed, CreateOffer, SetOffer, Rollback, SetRemoteOffer, SetAnswer,
            SetRemoteAnswer, Drain, Drained, MaybeReoffer, Reoffer, Refuse, network
  <1>5. ice' \in {"connected", "failed"}
    BY DEF Proceed, CreateOffer, SetOffer, Rollback, SetRemoteOffer, SetAnswer,
           SetRemoteAnswer, Drain, Drained, MaybeReoffer, Reoffer, Refuse, TypeOK
  <1> QED BY <1>1, <1>3, <1>4, <1>5 DEF TypeOK, limits

LEMMA TInvStep == ASSUME TInv, [Next]_vars PROVE TInv'
  <1> USE DEF TInv
  <1> DEFINE Waits == Seq(Messages \cup {None})
  <1>1. CASE Begin
    <2> DEFINE m == Head(waiting)
    <2>1. /\ m \in Messages \cup {None} /\ waiting' \in Waits
          /\ UNCHANGED <<tracks, ice, server, toServer, toClient, limits>>
      BY <1>1, TailType DEF Begin, TypeOK, network
    <2>2. pc' \in {pc, Offering(pc), Closing} \/ (m # None /\ m.type # "close" /\ pc' = Handle(pc, m))
      BY <1>1 DEF Begin
    <2>3. Offering(pc) \in Connections /\ Offering(pc).queued = pc.queued
      BY OfferingType DEF TypeOK
    <2>4. Closing \in Connections /\ Closing.queued = pc.queued
      BY SkipType
    <2>5. pc' \in Connections /\ Queues(pc'.queued)
      BY <2>1, <2>2, <2>3, <2>4, HandleType DEF TypeOK
    <2> QED BY <2>1, <2>5 DEF TypeOK, limits
  <1>2. CASE Reject
    <2>1. pc' \in Connections /\ pc'.queued = pc.queued
      BY <1>2, SkipType DEF Reject
    <2> QED BY <1>2, <2>1 DEF Reject, TypeOK, network
  <1>3. CASE Receive
    <2>1. Tail(toClient) \in Seq(Messages) /\ Head(toClient) \in Messages
      BY <1>3, TailType DEF Receive, TypeOK
    <2>2. Append(waiting, Head(toClient)) \in Waits
      BY <2>1, AppendType DEF TypeOK
    <2> QED BY <1>3, <2>1, <2>2 DEF Receive, TypeOK, limits
  <1>4. CASE ChangeTracks
    <2>1. pc' \in Connections /\ pc'.queued = pc.queued /\ waiting' \in Waits
      BY <1>4, CallOfferType DEF ChangeTracks, TypeOK
    <2> QED BY <1>4, <2>1 DEF ChangeTracks, TypeOK, network, limits
  <1>5. CASE Break
    <2> DEFINE c == [pc EXCEPT !.shouldRestartIce = TRUE]
    <2>1. c \in Connections /\ c.queued = pc.queued
      BY DEF Connections, TypeOK
    <2>2. UNCHANGED <<pc, waiting>> \/ CallOffer(c)
      BY <1>5 DEF Break
    <2> HIDE DEF c
    <2>3. pc' \in Connections /\ pc'.queued = pc.queued /\ waiting' \in Waits
      BY <2>1, <2>2, CallOfferType DEF TypeOK
    <2> QED BY <1>5, <2>3 DEF Break, TypeOK, network
  <1>6. CASE Close
    <2>1. pc' \in Connections /\ pc'.queued = pc.queued
      <3>1. Closing \in Connections /\ Closing.queued = pc.queued
        BY SkipType
      <3>2. pc' = [Closing EXCEPT !.revision = Closing.revision + 1, !.local = "close"]
        BY <1>6 DEF Close
      <3>3. Closing.revision + 1 \in Nat
        BY <3>1 DEF Connections
      <3> HIDE DEF Closing
      <3> QED BY <3>1, <3>2, <3>3 DEF Connections
    <2>2. toServer' \in Seq(Messages)
      BY <1>6, <2>1, SentType, AppendType DEF Close, TypeOK
    <2>3. waiting' \in Waits
      BY <1>6 DEF Close
    <2> QED BY <1>6, <2>1, <2>2, <2>3 DEF Close, TypeOK, limits
  <1>7. CASE ServerReceive
    <2> DEFINE m == Head(toServer)
    <2>1. Tail(toServer) \in Seq(Messages) /\ m \in Messages
      BY <1>7, TailType DEF ServerReceive, TypeOK
    <2> DEFINE seen == [server EXCEPT !.revision = Higher(@, m.revision)]
    <2>2. /\ m.revision \in Nat /\ m.tracks \in Nat /\ server \in Servers
      BY <2>1 DEF Messages, TypeOK
    <2>3. seen \in Servers
      BY <2>2 DEF Servers, Higher
    <2>4. server' \in {seen, [seen EXCEPT !.owes = m],
                       [seen EXCEPT !.expects = 0, !.stable = m.revision,
                                    !.tracks = m.tracks]}
      BY <1>7 DEF ServerReceive
    <2> HIDE DEF seen
    <2>5. server' \in Servers
      <3>1. [seen EXCEPT !.owes = m] \in Servers
        BY <2>1, <2>3 DEF Servers
      <3>2. [seen EXCEPT !.expects = 0, !.stable = m.revision, !.tracks = m.tracks] \in Servers
        BY <2>2, <2>3 DEF Servers
      <3> QED BY <2>3, <2>4, <3>1, <3>2
    <2> QED BY <1>7, <2>1, <2>5 DEF ServerReceive, TypeOK, limits
  <1>8. CASE ServerAnswer
    <2>1. server.owes \in Messages /\ server \in Servers
      BY <1>8 DEF ServerAnswer, TypeOK, Servers
    <2>2. server' \in Servers
      BY <1>8, <2>1 DEF ServerAnswer, Servers, Messages
    <2>3. [type |-> "answer", revision |-> server.owes.revision,
           offer |-> server.owes.offer, tracks |-> 0] \in Messages
      BY <2>1 DEF Messages
    <2>4. toClient' \in Seq(Messages)
      BY <1>8, <2>3, AppendType DEF ServerAnswer, Says, TypeOK
    <2> QED BY <1>8, <2>2, <2>4 DEF ServerAnswer, TypeOK, limits
  <1>9. CASE ServerAsk
    <2> DEFINE revision == server.revision + 1
    <2>1. server \in Servers /\ revision \in Nat
      BY DEF TypeOK, Servers
    <2>2. \A type \in {"offer", "create-offer", "close"} :
             [type |-> type, revision |-> revision, offer |-> 0, tracks |-> 0] \in Messages
      BY <2>1 DEF Messages
    <2>3. \A type \in {"offer", "create-offer", "close"} :
             Says(type, revision, 0) => toClient' \in Seq(Messages)
      BY <2>2, AppendType DEF Says, TypeOK
    <2>4. toClient' \in Seq(Messages)
      BY <1>9, <2>3 DEF ServerAsk
    <2>5. server' \in Servers
      BY <1>9, <2>1 DEF ServerAsk, Servers
    <2>6. asks' \in 0..MaxAsks
      BY <1>9 DEF ServerAsk, TypeOK
    <2> QED BY <1>9, <2>4, <2>5, <2>6 DEF ServerAsk, TypeOK
  <1>10. CASE UNCHANGED vars
    BY <1>10 DEF vars, network, limits, TypeOK
  <1> QED BY <1>1, <1>2, <1>3, <1>4, <1>5, <1>6, <1>7, <1>8, <1>9, <1>10, ProceedType
      DEF Next

\* Every field of the connection, every message and what the server knows keeps its
\* type: what is queued can be handled, and what is sent is a message.
THEOREM TypeCorrect == Spec => []TypeOK
  <1>1. TInv => TypeOK
    BY DEF TInv
  <1> QED BY <1>1, InitTInv, TInvStep, PTL DEF Spec

-----------------------------------------------------------------------------
(* The order of calls.                                                     *)

AtCall(c, calls) == c.todo # <<>> /\ c.todo[1] \in calls
Open(c) == c.signaling \in {"stable", "have-local-offer"}

\* What is true of a connection that is not closed, between two calls of a chain,
\* as long as WebRTC rejects nothing.
InOrder(c) ==
    /\ Chain(c.todo)
    /\ Between(c.todo) => Open(c) /\ (c.needsAnswer <=> c.signaling = "have-local-offer")
    /\ AtCall(c, {"createOffer", "setOffer"}) => Open(c) /\ c.needsAnswer
    /\ AtCall(c, {"rollback", "setRemoteAnswer"}) =>
          c.signaling = "have-local-offer" /\ Reoffers(c.todo)
    /\ AtCall(c, {"rollback"}) => ~c.isRestartingIce
    /\ AtCall(c, {"setRemoteOffer"}) => c.signaling = "stable" /\ ~c.needsAnswer
    /\ AtCall(c, {"setAnswer"}) => c.signaling = "have-remote-offer" /\ ~c.needsAnswer
    /\ c.isRestartingIce => c.needsAnswer
    /\ c.shouldOffer /\ ~c.needsAnswer => Reoffers(c.todo)

OrderInv == fails = 0 => InOrder(pc) \/ (Closed /\ ~Locked)

LEMMA InitOrder == Init => OrderInv
  BY EmptySeq DEF Init, OrderInv, InOrder, Chain, Between, Open, AtCall

\* A chain may be started: what is left of the last one comes after it.
LEMMA OfferingOrder ==
    ASSUME NEW c \in Connections, Chain(c.todo), Between(c.todo), Open(c)
    PROVE  InOrder(Offering(c))
  <1> DEFINE d == Offering(c)
  <1>1. d.todo = Offers \o c.todo /\ d.signaling = c.signaling /\ d.needsAnswer = TRUE
    BY OfferingType
  <1>2. Chain(d.todo) /\ d.todo # <<>> /\ d.todo[1] = "createOffer"
    BY <1>1, OffersChain, ChainConcat
  <1> HIDE DEF d
  <1>3. InOrder(d)
    BY <1>1, <1>2 DEF InOrder, Between, AtCall, Open, Ends
  <1> QED BY <1>3 DEF d

LEMMA QueuedOrder ==
    ASSUME NEW c \in Connections, InOrder(c), NEW m \in Messages
    PROVE  InOrder([c EXCEPT !.queued = m])
  <1> DEFINE d == [c EXCEPT !.queued = m]
  <1>1. /\ d.todo = c.todo /\ d.signaling = c.signaling
        /\ d.needsAnswer = c.needsAnswer /\ d.isRestartingIce = c.isRestartingIce
        /\ d.shouldOffer = c.shouldOffer
    BY DEF Connections
  <1> HIDE DEF d
  <1>2. InOrder(d)
    BY <1>1 DEF InOrder, AtCall, Open
  <1> QED BY <1>2 DEF d

LEMMA HandleOrder ==
    ASSUME NEW c \in Connections, InOrder(c), Between(c.todo),
           NEW m \in Messages, m.type # "close"
    PROVE  InOrder(Handle(c, m))
  <1>1. /\ Chain(c.todo) /\ Open(c) /\ m.revision \in Nat /\ m.offer \in Nat
        /\ c.needsAnswer <=> c.signaling = "have-local-offer"
        /\ c.isRestartingIce => c.needsAnswer
    BY DEF InOrder, Messages
  <1>2. CASE m.type = "answer" /\ Handle(c, m) # c
    <2> DEFINE e == [c EXCEPT !.current = m.offer]  d == First(e, Receives)
    <2>1. Handle(c, m) = d /\ c.signaling = "have-local-offer"
      BY <1>2 DEF Handle, HandleAnswer, Receives
    <2>2. /\ e \in Connections /\ e.todo = c.todo /\ e.signaling = c.signaling
          /\ (e.needsAnswer = c.needsAnswer) /\ e.isRestartingIce = c.isRestartingIce
      BY <1>1 DEF Connections
    <2> HIDE DEF e
    <2>3. /\ d.todo = Receives \o c.todo /\ d.signaling = "have-local-offer"
          /\ d.needsAnswer = c.needsAnswer /\ d.isRestartingIce = c.isRestartingIce
      <3>1. Receives \in Seq(Calls)
        BY ReceivesChain DEF Chain
      <3>2. d.todo = Receives \o e.todo /\ d.signaling = e.signaling
        BY <2>2, <3>1, FirstType
      <3>3. d.needsAnswer = e.needsAnswer
        BY <2>2, <3>1, FirstType
      <3>4. d.isRestartingIce = e.isRestartingIce
        BY <2>2, <3>1, FirstType
      <3> QED BY <2>2, <2>1, <3>2, <3>3, <3>4
    <2>4. Chain(d.todo) /\ d.todo # <<>> /\ d.todo[1] = "setRemoteAnswer" /\ Reoffers(d.todo)
      BY <1>1, <2>3, ReceivesChain, ChainConcat
    <2> HIDE DEF d
    <2>5. InOrder(d)
      BY <1>1, <2>3, <2>4 DEF InOrder, Between, AtCall, Open, Ends
    <2> QED BY <2>1, <2>5
  <1>3. CASE m.type = "create-offer" /\ Handle(c, m) # c
    <2>1. CASE c.needsAnswer
      <3>1. Handle(c, m) = [c EXCEPT !.queued = m]
        BY <1>3, <2>1 DEF Handle, HandleCreateOffer
      <3> QED BY <3>1, QueuedOrder
    <2>2. CASE ~c.needsAnswer
      <3> DEFINE e == [c EXCEPT !.revision = m.revision]
      <3>1. Handle(c, m) = Offering(e)
        BY <1>3, <2>2 DEF Handle, HandleCreateOffer
      <3>2. e \in Connections /\ e.todo = c.todo /\ Open(e)
        BY <1>1 DEF Connections, Open
      <3> HIDE DEF e
      <3> QED BY <1>1, <3>1, <3>2, OfferingOrder
    <2> QED BY <2>1, <2>2
  <1>4. CASE m.type = "offer" /\ Handle(c, m) # c
    <2> DEFINE e == [c EXCEPT !.revision = m.revision]
               g == [e EXCEPT !.isRestartingIce = FALSE,
                              !.shouldRestartIce = @ \/ e.isRestartingIce]
    <2>1. /\ e \in Connections /\ e.todo = c.todo /\ e.signaling = c.signaling
          /\ e.needsAnswer = c.needsAnswer /\ e.isRestartingIce = c.isRestartingIce
          /\ e.shouldOffer = c.shouldOffer
      BY <1>1 DEF Connections
    <2>2. /\ g \in Connections /\ g.todo = c.todo /\ g.signaling = c.signaling
          /\ g.needsAnswer = c.needsAnswer /\ g.isRestartingIce = FALSE
      <3>1. (e.shouldRestartIce \/ e.isRestartingIce) \in BOOLEAN
        OBVIOUS
      <3> HIDE DEF e
      <3> QED BY <2>1, <3>1 DEF Connections
    <2>3. CASE c.signaling # "have-local-offer"
      <3> DEFINE d == First(e, Answers)
      <3>1. Handle(c, m) = d
        BY <1>4, <2>3 DEF Handle, HandleOffer, Answering, Answers
      <3> HIDE DEF e
      <3>2. /\ d.todo = Answers \o c.todo /\ d.signaling = c.signaling
            /\ d.needsAnswer = c.needsAnswer /\ d.isRestartingIce = c.isRestartingIce
        <4>1. Answers \in Seq(Calls)
          BY AnswersChain DEF Chain
        <4>2. d.todo = Answers \o e.todo /\ d.signaling = e.signaling
          BY <2>1, <4>1, FirstType
        <4>3. d.needsAnswer = e.needsAnswer
          BY <2>1, <4>1, FirstType
        <4>4. d.isRestartingIce = e.isRestartingIce
          BY <2>1, <4>1, FirstType
        <4> QED BY <2>1, <4>2, <4>3, <4>4
      <3>3. Chain(d.todo) /\ d.todo # <<>> /\ d.todo[1] = "setRemoteOffer" /\ Reoffers(d.todo)
        BY <1>1, <3>2, AnswersChain, ChainConcat
      <3> HIDE DEF d
      <3>4. InOrder(d)
        BY <1>1, <2>3, <3>2, <3>3 DEF InOrder, Between, AtCall, Open, Ends
      <3> QED BY <3>1, <3>4
    <2>4. CASE c.signaling = "have-local-offer" /\ c.needsAnswer /\ c.revision = 1
      <3>1. Handle(c, m) = [c EXCEPT !.queued = m]
        BY <1>4, <2>4 DEF Handle, HandleOffer
      <3> QED BY <3>1, QueuedOrder
    <2>5. CASE c.signaling = "have-local-offer" /\ ~(c.needsAnswer /\ c.revision = 1)
      <3> DEFINE d == First(g, Glares)
      <3>1. Handle(c, m) = d
        BY <1>4, <2>5 DEF Handle, HandleOffer, HandleGlare, Glares
      <3> HIDE DEF e, g
      <3>2. /\ d.todo = Glares \o c.todo /\ d.signaling = c.signaling
            /\ d.needsAnswer = c.needsAnswer /\ d.isRestartingIce = FALSE
        <4>1. Glares \in Seq(Calls)
          BY GlaresChain DEF Chain
        <4>2. d.todo = Glares \o g.todo /\ d.signaling = g.signaling
          BY <2>2, <4>1, FirstType
        <4>3. d.needsAnswer = g.needsAnswer
          BY <2>2, <4>1, FirstType
        <4>4. d.isRestartingIce = g.isRestartingIce
          BY <2>2, <4>1, FirstType
        <4> QED BY <2>2, <4>2, <4>3, <4>4
      <3>3. Chain(d.todo) /\ d.todo # <<>> /\ d.todo[1] = "rollback" /\ Reoffers(d.todo)
        BY <1>1, <3>2, GlaresChain, ChainConcat
      <3> HIDE DEF d
      <3>4. InOrder(d)
        BY <1>1, <2>5, <3>2, <3>3 DEF InOrder, Between, AtCall, Open, Ends
      <3> QED BY <3>1, <3>4
    <2> QED BY <2>3, <2>4, <2>5
  <1> QED BY <1>2, <1>3, <1>4 DEF Messages

\* Connections that differ in nothing the order is about.
LEMMA SameOrder ==
    ASSUME NEW c, NEW d, InOrder(c), d.todo = c.todo, d.signaling = c.signaling,
           d.needsAnswer = c.needsAnswer, d.isRestartingIce = c.isRestartingIce,
           d.shouldOffer => c.shouldOffer \/ c.needsAnswer
    PROVE  InOrder(d)
  BY DEF InOrder, AtCall, Open

LEMMA RestFields ==
    ASSUME TypeOK, Locked
    PROVE  /\ Rest.todo = Tail(pc.todo) /\ Rest.signaling = pc.signaling
           /\ Rest.needsAnswer = pc.needsAnswer
           /\ Rest.isRestartingIce = pc.isRestartingIce
           /\ Rest.shouldOffer = pc.shouldOffer
  BY DEF Rest, TypeOK, Connections

\* After a call that has ended the chain nothing is under way any more.
LEMMA EndsOrder ==
    ASSUME TypeOK, InOrder(pc), Locked, Head(pc.todo) \in Ends
    PROVE  /\ Chain(Rest.todo) /\ Between(Rest.todo) /\ Open(Rest)
           /\ Head(pc.todo) \in {"drain", "drained"} \/ ~pc.shouldOffer
                 => InOrder(Rest)
  <1>1. /\ Chain(pc.todo) /\ pc.todo # <<>> /\ Head(pc.todo) = pc.todo[1]
        /\ Between(pc.todo)
    BY ChainTail DEF InOrder, Locked, Between
  <1>2. Chain(Rest.todo) /\ Between(Rest.todo)
    <2>1. After(pc.todo[1]) = Ends
      BY <1>1 DEF After, Ends
    <2> QED BY <1>1, <2>1, RestFields, ChainTail DEF Between
  <1>3. Open(Rest) /\ (pc.needsAnswer <=> pc.signaling = "have-local-offer")
    BY <1>1, RestFields DEF InOrder, Open
  <1>4. ASSUME Head(pc.todo) \in {"drain", "drained"} \/ ~pc.shouldOffer
        PROVE  InOrder(Rest)
    <2>1. pc.shouldOffer /\ ~pc.needsAnswer => Reoffers(Rest.todo)
      BY <1>1, <1>4, RestFields, ChainTail DEF InOrder
    <2>2. /\ ~AtCall(Rest, {"createOffer", "setOffer"})
          /\ ~AtCall(Rest, {"rollback", "setRemoteAnswer"}) /\ ~AtCall(Rest, {"rollback"})
          /\ ~AtCall(Rest, {"setRemoteOffer"}) /\ ~AtCall(Rest, {"setAnswer"})
      BY <1>2 DEF AtCall, Between, Ends
    <2>3. Rest.isRestartingIce => Rest.needsAnswer
      BY RestFields DEF InOrder
    <2>4. Rest.needsAnswer <=> Rest.signaling = "have-local-offer"
      BY <1>3, RestFields
    <2>5. Rest.shouldOffer /\ ~Rest.needsAnswer => Reoffers(Rest.todo)
      BY <2>1, RestFields
    <2> HIDE DEF Rest
    <2> QED BY <1>2, <1>3, <2>2, <2>3, <2>4, <2>5 DEF InOrder
  <1> QED BY <1>2, <1>3, <1>4

LEMMA OrderAccepts ==
    ASSUME InOrder(pc), Locked PROVE Accepted(Head(pc.todo))
  <1>1. Head(pc.todo) = pc.todo[1] /\ pc.todo # <<>>
    BY ChainTail DEF InOrder, Locked
  <1> QED BY <1>1 DEF InOrder, AtCall, Accepted, Open

\* A step of a chain keeps the order.
LEMMA ProceedOrder ==
    ASSUME TInv, InOrder(pc), Proceed
    PROVE  InOrder(pc')
  <1> USE DEF TInv
  <1>1. /\ pc \in Connections /\ Locked /\ pc.todo # <<>> /\ Chain(pc.todo)
        /\ Head(pc.todo) = pc.todo[1]
    <2>1. pc \in Connections /\ Locked
      BY DEF Proceed, CreateOffer, SetOffer, Rollback, SetRemoteOffer, SetAnswer,
             SetRemoteAnswer, Drain, Drained, MaybeReoffer, Reoffer, Refuse, Runs, TypeOK
    <2> QED BY <2>1, ChainTail DEF InOrder, Locked
  <1>2. /\ Rest \in Connections /\ Rest.todo = Tail(pc.todo)
        /\ Chain(Rest.todo)
        /\ Rest.todo # <<>> => Rest.todo[1] \in After(pc.todo[1])
        /\ Rest.todo = <<>> => pc.todo[1] \in Ends \cup {"setOffer"}
        /\ Reoffers(pc.todo) /\ pc.todo[1] \notin {"maybeReoffer", "reoffer"}
              => Reoffers(Rest.todo)
    BY <1>1, RestType, ChainTail
  <1>3. CASE CreateOffer
    <2>1. pc' = [Rest EXCEPT !.shouldOffer = FALSE, !.draft = tracks]
          /\ pc.todo[1] = "createOffer"
      BY <1>1, <1>3 DEF CreateOffer, Runs
    <2>2. /\ pc'.todo = Rest.todo /\ pc'.signaling = pc.signaling
          /\ pc'.shouldOffer = FALSE
      BY <1>1, <1>2, <2>1, RestFields DEF Connections
    <2>3. pc'.needsAnswer = pc.needsAnswer
      BY <1>1, <1>2, <2>1, RestFields DEF Connections
    <2>4. Open(pc) /\ pc.needsAnswer
      BY <1>1, <2>1 DEF InOrder, AtCall
    <2>5. pc'.todo # <<>> /\ pc'.todo[1] = "setOffer"
      BY <1>2, <2>1, <2>2 DEF After, Ends
    <2> QED BY <1>2, <2>2, <2>3, <2>4, <2>5 DEF InOrder, Between, AtCall, Open, Ends
  <1>4. CASE SetOffer
    <2>1. pc' = [Rest EXCEPT !.signaling = "have-local-offer", !.local = "offer",
                             !.revision = @ + 1, !.offer = @ + 1, !.tracks = pc.draft]
          /\ pc.todo[1] = "setOffer"
      BY <1>1, <1>4 DEF SetOffer, Runs
    <2>2. pc'.todo = Rest.todo /\ pc'.signaling = "have-local-offer"
      BY <1>1, <1>2, <2>1 DEF Connections
    <2>3. pc'.needsAnswer = pc.needsAnswer
      BY <1>1, <1>2, <2>1, RestFields DEF Connections
    <2>4. pc.needsAnswer
      BY <1>1, <2>1 DEF InOrder, AtCall
    <2>5. pc'.todo # <<>> => pc'.todo[1] \in Ends
      BY <1>2, <2>1, <2>2 DEF After
    <2> QED BY <1>2, <2>2, <2>3, <2>4, <2>5 DEF InOrder, Between, AtCall, Open, Ends
  <1>5. CASE Rollback
    <2>1. pc' = [Rest EXCEPT !.signaling = "stable", !.needsAnswer = FALSE]
          /\ pc.todo[1] = "rollback"
      BY <1>1, <1>5 DEF Rollback, Runs
    <2>2. /\ pc'.todo = Rest.todo /\ pc'.signaling = "stable"
          /\ pc'.needsAnswer = FALSE
      BY <1>1, <1>2, <2>1 DEF Connections
    <2>3. pc'.isRestartingIce = pc.isRestartingIce
      BY <1>1, <1>2, <2>1, RestFields DEF Connections
    <2>4. ~pc.isRestartingIce /\ Reoffers(pc.todo)
      BY <1>1, <2>1 DEF InOrder, AtCall
    <2>5. pc'.todo # <<>> /\ pc'.todo[1] = "setRemoteOffer" /\ Reoffers(pc'.todo)
      BY <1>2, <2>1, <2>2, <2>4 DEF After, Ends
    <2> QED BY <1>2, <2>2, <2>3, <2>4, <2>5 DEF InOrder, Between, AtCall, Open, Ends
  <1>6. CASE SetRemoteOffer
    <2>1. pc' = [Rest EXCEPT !.signaling = "have-remote-offer"]
          /\ pc.todo[1] = "setRemoteOffer"
      BY <1>1, <1>6 DEF SetRemoteOffer, Runs
    <2>2. pc'.todo = Rest.todo /\ pc'.signaling = "have-remote-offer"
      BY <1>1, <1>2, <2>1 DEF Connections
    <2>3. pc'.needsAnswer = pc.needsAnswer
      BY <1>1, <1>2, <2>1, RestFields DEF Connections
    <2>4. pc'.isRestartingIce = pc.isRestartingIce
      BY <1>1, <1>2, <2>1, RestFields DEF Connections
    <2>5. pc'.shouldOffer = pc.shouldOffer
      BY <1>1, <1>2, <2>1, RestFields DEF Connections
    <2>6. ~pc.needsAnswer /\ ~pc.isRestartingIce /\ (pc.shouldOffer => Reoffers(pc.todo))
      BY <1>1, <2>1 DEF InOrder, AtCall
    <2>7. /\ pc'.todo # <<>> /\ pc'.todo[1] = "setAnswer"
          /\ pc.shouldOffer => Reoffers(pc'.todo)
      BY <1>2, <2>1, <2>2, <2>6 DEF After, Ends
    <2> QED BY <1>2, <2>2, <2>3, <2>4, <2>5, <2>6, <2>7
            DEF InOrder, Between, AtCall, Open, Ends
  <1>7. CASE SetAnswer
    <2>1. PICK carried \in {pc.tracks, tracks} :
             pc' = [Rest EXCEPT !.signaling = "stable", !.local = "answer",
                                !.stable = pc.revision, !.tracks = carried]
      BY <1>7 DEF SetAnswer
    <2>2. pc.todo[1] = "setAnswer"
      BY <1>1, <1>7 DEF SetAnswer, Runs
    <2>3. pc'.todo = Rest.todo /\ pc'.signaling = "stable"
      BY <1>1, <1>2, <2>1 DEF Connections
    <2>4. pc'.needsAnswer = pc.needsAnswer
      BY <1>1, <1>2, <2>1, RestFields DEF Connections
    <2>5. pc'.isRestartingIce = pc.isRestartingIce
      BY <1>1, <1>2, <2>1, RestFields DEF Connections
    <2>6. pc'.shouldOffer = pc.shouldOffer
      BY <1>1, <1>2, <2>1, RestFields DEF Connections
    <2>7. ~pc.needsAnswer /\ ~pc.isRestartingIce /\ (pc.shouldOffer => Reoffers(pc.todo))
      BY <1>1, <2>2 DEF InOrder, AtCall
    <2>8. /\ pc'.todo # <<>> => pc'.todo[1] \in Ends
          /\ pc.shouldOffer => Reoffers(pc'.todo)
      BY <1>2, <2>2, <2>3, <2>7 DEF After
    <2> QED BY <1>2, <2>3, <2>4, <2>5, <2>6, <2>7, <2>8
            DEF InOrder, Between, AtCall, Open, Ends
  <1>8. CASE SetRemoteAnswer
    <2>1. pc' = [Rest EXCEPT !.signaling = "stable", !.stable = pc.revision,
                             !.needsAnswer = FALSE, !.isRestartingIce = FALSE]
          /\ pc.todo[1] = "setRemoteAnswer"
      BY <1>1, <1>8 DEF SetRemoteAnswer, Runs
    <2>2. /\ pc'.todo = Rest.todo /\ pc'.signaling = "stable"
          /\ pc'.needsAnswer = FALSE /\ pc'.isRestartingIce = FALSE
      BY <1>1, <1>2, <2>1 DEF Connections
    <2>3. Reoffers(pc.todo)
      BY <1>1, <2>1 DEF InOrder, AtCall
    <2>4. (pc'.todo # <<>> => pc'.todo[1] \in Ends) /\ Reoffers(pc'.todo)
      BY <1>2, <2>1, <2>2, <2>3 DEF After
    <2> QED BY <1>2, <2>2, <2>3, <2>4 DEF InOrder, Between, AtCall, Open, Ends
  <1>9. CASE Drain
    <2>1. Head(pc.todo) = "drain" /\ InOrder(Rest) /\ Between(Rest.todo)
      <3>1. Head(pc.todo) = "drain"
        BY <1>9 DEF Drain, Runs
      <3> QED BY <1>1, <3>1, EndsOrder DEF Ends
    <2>2. CASE pc.queued = None
      BY <1>9, <2>1, <2>2 DEF Drain
    <2>3. CASE pc.queued # None
      <3> DEFINE d == First(Rest, Drains)
      <3>1. pc' = Handle(d, pc.queued) /\ pc.queued \in Messages /\ pc.queued.type # "close"
        BY <1>1, <1>9, <2>3 DEF Drain, Drains, Connections, Queues
      <3>2. Drains \in Seq(Calls)
        BY DrainsChain DEF Chain
      <3>3. d \in Connections /\ d.todo = Drains \o Rest.todo /\ d.signaling = Rest.signaling
        BY <1>2, <3>2, FirstType
      <3>4. d.needsAnswer = Rest.needsAnswer
        BY <1>2, <3>2, FirstType
      <3>5. d.isRestartingIce = Rest.isRestartingIce
        BY <1>2, <3>2, FirstType
      <3>6. d.shouldOffer = Rest.shouldOffer
        BY <1>2, <3>2, FirstType
      <3>7. /\ Chain(d.todo) /\ d.todo # <<>> /\ d.todo[1] = "drained"
            /\ Reoffers(Rest.todo) => Reoffers(d.todo)
        BY <1>2, <2>1, <3>3, DrainsChain, ChainConcat
      <3> HIDE DEF d, Rest
      <3>8. InOrder(d) /\ Between(d.todo)
        BY <2>1, <3>3, <3>4, <3>5, <3>6, <3>7 DEF InOrder, Between, AtCall, Open, Ends
      <3> QED BY <3>1, <3>3, <3>8, HandleOrder
    <2> QED BY <2>2, <2>3
  <1>10. CASE Drained
    <2>1. Head(pc.todo) = "drained" /\ pc' = [Rest EXCEPT !.queued = None]
      BY <1>10 DEF Drained, Runs
    <2>2. InOrder(Rest)
      BY <1>1, <2>1, EndsOrder DEF Ends
    <2>3. pc'.todo = Rest.todo /\ pc'.signaling = Rest.signaling
      BY <1>2, <2>1 DEF Connections
    <2>4. pc'.needsAnswer = Rest.needsAnswer
      BY <1>2, <2>1 DEF Connections
    <2>5. pc'.isRestartingIce = Rest.isRestartingIce
      BY <1>2, <2>1 DEF Connections
    <2>6. pc'.shouldOffer = Rest.shouldOffer
      BY <1>2, <2>1 DEF Connections
    <2> QED BY <2>2, <2>3, <2>4, <2>5, <2>6, SameOrder
  <1>11. CASE MaybeReoffer \/ Reoffer
    <2>1. /\ Head(pc.todo) \in {"maybeReoffer", "reoffer"}
          /\ (pc' = Rest /\ ~pc.shouldOffer) \/ pc' = Offering(Rest)
      BY <1>11 DEF MaybeReoffer, Reoffer, Runs
    <2>2. /\ Chain(Rest.todo) /\ Between(Rest.todo) /\ Open(Rest)
          /\ ~pc.shouldOffer => InOrder(Rest)
      BY <1>1, <2>1, EndsOrder DEF Ends
    <2> QED BY <1>2, <2>1, <2>2, OfferingOrder
  <1>12. CASE Refuse
    BY <1>12, OrderAccepts DEF Refuse
  <1> QED BY <1>3, <1>4, <1>5, <1>6, <1>7, <1>8, <1>9, <1>10, <1>11, <1>12 DEF Proceed

LEMMA CallOfferOrder ==
    ASSUME NEW c \in Connections, InOrder(c), CallOffer(c)
    PROVE  InOrder(pc')
  <1>1. CASE c.needsAnswer \/ c.isRestartingIce
    <2>1. pc' = [c EXCEPT !.shouldOffer = TRUE] /\ c.needsAnswer
      BY <1>1 DEF CallOffer, InOrder
    <2>2. pc'.todo = c.todo /\ pc'.signaling = c.signaling
      BY <2>1 DEF Connections
    <2>3. pc'.needsAnswer = c.needsAnswer
      BY <2>1 DEF Connections
    <2>4. pc'.isRestartingIce = c.isRestartingIce
      BY <2>1 DEF Connections
    <2> QED BY <2>1, <2>2, <2>3, <2>4, SameOrder
  <1>2. CASE ~(c.needsAnswer \/ c.isRestartingIce)
    BY <1>2 DEF CallOffer
  <1> QED BY <1>1, <1>2

LEMMA OrderStep ==
    ASSUME TInv, OrderInv, [Next]_vars
    PROVE  OrderInv'
  <1> USE DEF TInv
  <1>1. pc \in Connections /\ fails \in Nat
    BY DEF TypeOK
  <1>2. CASE UNCHANGED <<pc, fails>>
    BY <1>2 DEF OrderInv, Closed, Locked
  <1>3. ASSUME ~Closed, fails' = fails, InOrder(pc) => InOrder(pc')
        PROVE  OrderInv'
    BY <1>3 DEF OrderInv
  <1>4. CASE Begin
    <2> DEFINE m == Head(waiting)
    <2>1. ~Closed /\ pc.todo = <<>> /\ fails' = fails /\ m \in Messages \cup {None}
      BY <1>4, TailType DEF Begin, Locked, limits, TypeOK
    <2>2. \/ pc' = pc \/ (pc' = Closing) \/ (pc' = Offering(pc))
          \/ m # None /\ m.type # "close" /\ pc' = Handle(pc, m)
      BY <1>4 DEF Begin
    <2>3. CASE pc' = Closing
      <3>1. pc'.signaling = "closed" /\ pc'.todo = <<>>
        BY <1>1, <2>3 DEF Closing, Connections
      <3> QED BY <3>1 DEF OrderInv, Closed, Locked
    <2>4. CASE pc' # Closing
      <3> SUFFICES ASSUME InOrder(pc) PROVE InOrder(pc')
        BY <1>3, <2>1, <2>4
      <3>1. Chain(pc.todo) /\ Between(pc.todo) /\ Open(pc)
        BY <2>1 DEF InOrder, Between
      <3>2. InOrder(Offering(pc))
        BY <1>1, <3>1, OfferingOrder
      <3>3. m # None /\ m.type # "close" => InOrder(Handle(pc, m))
        BY <1>1, <2>1, <3>1, HandleOrder
      <3> QED BY <2>2, <2>4, <3>2, <3>3
    <2> QED BY <2>3, <2>4
  <1>5. CASE Proceed
    <2>1. fails' = fails /\ ~Closed
      BY <1>5 DEF Proceed, CreateOffer, SetOffer, Rollback, SetRemoteOffer, SetAnswer,
             SetRemoteAnswer, Drain, Drained, MaybeReoffer, Reoffer, Refuse, Runs, limits
    <2> QED BY <1>3, <1>5, <2>1, ProceedOrder
  <1>6. CASE Reject
    <2>1. fails' # 0
      BY <1>1, <1>6 DEF Reject
    <2> QED BY <2>1 DEF OrderInv
  <1>7. CASE ChangeTracks
    <2>1. ~Closed /\ fails' = fails /\ CallOffer(pc)
      BY <1>7 DEF ChangeTracks, limits
    <2> QED BY <1>1, <1>3, <2>1, CallOfferOrder
  <1>8. CASE Break
    <2> DEFINE c == [pc EXCEPT !.shouldRestartIce = TRUE]
    <2>1. ~Closed /\ fails' = fails /\ (UNCHANGED pc \/ CallOffer(c))
      BY <1>8 DEF Break
    <2>2. /\ c \in Connections /\ c.todo = pc.todo /\ c.signaling = pc.signaling
          /\ c.shouldOffer = pc.shouldOffer
      BY <1>1 DEF Connections
    <2>3. c.needsAnswer = pc.needsAnswer
      BY <1>1 DEF Connections
    <2>4. c.isRestartingIce = pc.isRestartingIce
      BY <1>1 DEF Connections
    <2> HIDE DEF c
    <2>5. InOrder(pc) => InOrder(c)
      BY <2>2, <2>3, <2>4, SameOrder
    <2> QED BY <1>3, <2>1, <2>2, <2>5, CallOfferOrder
  <1>9. CASE Close
    <2>1. Closing \in Connections /\ Closing.signaling = "closed" /\ Closing.todo = <<>>
      <3>1. Closing.signaling = "closed" /\ Closing.todo = <<>>
        BY <1>1 DEF Closing, Connections
      <3> QED BY <3>1, SkipType
    <2>2. pc' = [Closing EXCEPT !.revision = @ + 1, !.local = "close"]
      BY <1>9 DEF Close
    <2> HIDE DEF Closing
    <2>3. pc'.signaling = "closed" /\ pc'.todo = <<>>
      BY <2>1, <2>2 DEF Connections
    <2> QED BY <2>3 DEF OrderInv, Closed, Locked
  <1>10. CASE Receive \/ ServerReceive \/ ServerAnswer \/ ServerAsk \/ UNCHANGED vars
    BY <1>10, <1>2 DEF Receive, ServerReceive, ServerAnswer, ServerAsk, vars, limits
  <1> QED BY <1>4, <1>5, <1>6, <1>7, <1>8, <1>9, <1>10 DEF Next

\* Whatever crosses, and however often, every call of a chain is made in a state
\* in which WebRTC accepts it, until WebRTC rejects one for another reason.
THEOREM ChainsAreAccepted == Spec => []CallsAreAccepted
  <1> DEFINE Inv == TInv /\ OrderInv
  <1>1. Init => Inv
    BY InitTInv, InitOrder
  <1>2. Inv /\ [Next]_vars => Inv'
    BY TInvStep, OrderStep
  <1>3. Inv => CallsAreAccepted
    <2> SUFFICES ASSUME TInv, OrderInv, Locked, fails = 0
        PROVE  Accepted(Head(pc.todo))
      BY DEF CallsAreAccepted
    <2>1. InOrder(pc)
      BY DEF OrderInv
    <2> QED BY <2>1, OrderAccepts
  <1> QED BY <1>1, <1>2, <1>3, PTL DEF Spec

\* Between chains, who waits for an answer has made an offer, and offers asked
\* for meanwhile have not been forgotten.
THEOREM OffersAreRemembered == Spec => []WaitsForAnswer
  <1> DEFINE Inv == TInv /\ OrderInv
  <1>1. Init => Inv
    BY InitTInv, InitOrder
  <1>2. Inv /\ [Next]_vars => Inv'
    BY TInvStep, OrderStep
  <1>3. Inv => WaitsForAnswer
    <2> SUFFICES ASSUME OrderInv, Idle, fails = 0
        PROVE  /\ pc.needsAnswer <=> pc.signaling = "have-local-offer"
               /\ pc.shouldOffer \/ pc.isRestartingIce => pc.needsAnswer
      BY DEF WaitsForAnswer
    <2>1. pc.todo = <<>> /\ InOrder(pc)
      BY DEF Idle, Locked, OrderInv
    <2>2. ~Reoffers(pc.todo)
      BY <2>1, EmptySeq DEF Reoffers
    <2> QED BY <2>1, <2>2 DEF InOrder, Between
  <1> QED BY <1>1, <1>2, <1>3, PTL DEF Spec

-----------------------------------------------------------------------------
(* An answer is applied to the offer it answers.  Revisions alone do not   *)
(* tell offers apart: the client's goes down when it yields to an offer of *)
(* the server, and two offers may carry the same one.  What tells them     *)
(* apart is that the server answers none of those that crossed its own.    *)

IsAsk(m) == m # None /\ m.type \in {"offer", "create-offer"}
IsAnswer(m) == m # None /\ m.type = "answer"

Elems(seq) == {seq[i] : i \in 1..Len(seq)}

\* What is on its way to the client, whether or not it awaits the lock.
Stream == Elems(waiting) \cup Elems(toClient)

Rising(seq) ==
    \A i, j \in 1..Len(seq) :
       i < j /\ IsAsk(seq[i]) /\ IsAsk(seq[j]) => seq[i].revision < seq[j].revision
Earlier(S, T) ==
    \A m \in S, n \in T : IsAsk(m) /\ IsAsk(n) => m.revision < n.revision

\* The server's offers and requests arrive in the order of their revisions.
InTurn ==
    /\ Rising(waiting) /\ Rising(toClient) /\ Earlier(Elems(waiting), Elems(toClient))
    /\ Earlier({pc.queued}, Stream)

\* The server has seen or sent all that it answers and the client acts on.
Seen ==
    /\ \A m \in Stream \cup {pc.queued} : IsAsk(m) \/ IsAnswer(m) =>
          m.revision <= server.revision
    /\ server.owes # None => server.owes.revision <= server.revision
    /\ \A m \in Elems(toServer) : m.type = "answer" => m.revision <= server.revision
    /\ server.expects <= server.revision
    /\ ~pc.needsAnswer => pc.revision <= server.revision

\* The server waits for the answer with this revision, which is not sent yet.
Unanswered(revision) ==
    /\ server.expects = revision /\ revision # 0
    /\ \A m \in Elems(toServer) : m.type = "answer" => m.revision # revision

\* An offer of the server that the client will not drop is one it waits for.
OffersOpen ==
    \A m \in Stream \cup {pc.queued} :
       IsAsk(m) /\ m.type = "offer" /\ m.revision > pc.stable => Unanswered(m.revision)

\* The offers under way that the server will answer: the first of all, and
\* those it finds when it waits for nothing.
Heard(i) ==
    /\ toServer[i].type = "offer"
    /\ \/ toServer[i].revision = 1
       \/ server.expects = 0
       \/ \E j \in 1..(i - 1) :
             toServer[j].type = "answer" /\ toServer[j].revision = server.expects
HeardOffers == {toServer[i] : i \in {j \in 1..Len(toServer) : Heard(j)}}

\* The offers to be answered, and the answers to come.
Live == HeardOffers \cup ({server.owes} \ {None}) \cup {m \in Stream : IsAnswer(m)}

\* None carries a higher revision than the client's, and only the last offer
\* made carries the same.
Fits(m) ==
    /\ m.revision <= pc.revision
    /\ m.revision = pc.revision /\ pc.signaling = "have-local-offer" => m.offer = pc.offer

\* What the server answers is older than the offer it waits for an answer to.
Crossing ==
    server.expects # 0 =>
       /\ server.expects > 1
       /\ \A m \in ({server.owes} \ {None}) \cup {n \in Stream : IsAnswer(n)} :
             m.revision < server.expects

\* Who waits for no answer gets requests only that go beyond what it has.
Fresh ==
    /\ pc.stable <= pc.revision
    /\ ~pc.needsAnswer =>
          \A m \in Stream : IsAsk(m) => m.revision <= pc.stable \/ m.revision > pc.revision

\* What is true when a call of a chain is next.
UnderWay ==
    /\ AtCall(pc, {"rollback", "setRemoteOffer", "setAnswer"}) => Unanswered(pc.revision)
    /\ AtCall(pc, {"rollback"}) => \A m \in Stream : IsAsk(m) => m.revision > pc.revision
    /\ AtCall(pc, {"rollback", "setRemoteAnswer"}) => pc.revision <= server.revision
    /\ AtCall(pc, {"setRemoteAnswer"}) => pc.current = pc.offer
    /\ AtCall(pc, {"drain"}) => pc.stable = pc.revision
    /\ AtCall(pc, {"createOffer", "setOffer"}) => pc.needsAnswer

\* What follows a call in a chain.  A queued description is looked at only
\* right after an answer, and what a chain is put before comes after it.
Tails == {"drained", "maybeReoffer", "reoffer"}
Follows(call) ==
    CASE call = "createOffer"    -> {"setOffer"}
      [] call = "rollback"       -> {"setRemoteOffer"}
      [] call = "setRemoteOffer" -> {"setAnswer"}
      [] call \in {"setAnswer", "setRemoteAnswer"} -> {"drain"}
      [] OTHER                   -> Tails
Linked(todo) == \A i \in 1..(Len(todo) - 1) : todo[i + 1] \in Follows(todo[i])
Ready(todo) == todo = <<>> \/ todo[1] \in Tails

Matching ==
    /\ Linked(pc.todo) /\ InTurn /\ Seen /\ OffersOpen
    /\ \A m \in Live : Fits(m)
    /\ Crossing /\ Fresh /\ UnderWay

MInv == TInv /\ (Closed => ~Locked) /\ (~Closed => Matching)

LEMMA ElemsOf ==
    ASSUME NEW S, NEW seq \in Seq(S)
    PROVE  /\ Elems(seq) \subseteq S
           /\ seq # <<>> => /\ Head(seq) \in Elems(seq)
                            /\ Elems(seq) = {Head(seq)} \cup Elems(Tail(seq))
           /\ \A e \in S : Elems(Append(seq, e)) = Elems(seq) \cup {e}
           /\ Elems(<<>>) = {}
  <1>0. Len(seq) \in Nat
    OBVIOUS
  <1>1. Elems(seq) \subseteq S
    BY DEF Elems
  <1>2. ASSUME seq # <<>>
        PROVE  Head(seq) \in Elems(seq) /\ Elems(seq) = {Head(seq)} \cup Elems(Tail(seq))
    <2>1. /\ Head(seq) = seq[1] /\ 1 \in 1..Len(seq)
          /\ Len(Tail(seq)) = Len(seq) - 1
          /\ \A i \in 1..(Len(seq) - 1) : Tail(seq)[i] = seq[i + 1]
      BY <1>2, HeadTailProperties
    <2>2. Elems(Tail(seq)) \subseteq Elems(seq)
      <3> SUFFICES ASSUME NEW i \in 1..Len(Tail(seq)) PROVE Tail(seq)[i] \in Elems(seq)
        BY DEF Elems
      <3>1. i + 1 \in 1..Len(seq) /\ Tail(seq)[i] = seq[i + 1]
        BY <1>0, <2>1
      <3> QED BY <3>1 DEF Elems
    <2>3. ASSUME NEW i \in 1..Len(seq) PROVE seq[i] \in {Head(seq)} \cup Elems(Tail(seq))
      <3>1. CASE i = 1
        BY <3>1, <2>1
      <3>2. CASE i # 1
        <4>1. i - 1 \in 1..Len(Tail(seq)) /\ Tail(seq)[i - 1] = seq[(i - 1) + 1]
          BY <1>0, <2>1, <3>2
        <4>2. (i - 1) + 1 = i
          OBVIOUS
        <4> QED BY <4>1, <4>2 DEF Elems
      <3> QED BY <3>1, <3>2
    <2>4. Elems(seq) \subseteq {Head(seq)} \cup Elems(Tail(seq))
      BY <2>3 DEF Elems
    <2>5. Head(seq) \in Elems(seq)
      BY <2>1 DEF Elems
    <2> QED BY <2>2, <2>4, <2>5
  <1>3. ASSUME NEW e \in S PROVE Elems(Append(seq, e)) = Elems(seq) \cup {e}
    <2>1. /\ Len(Append(seq, e)) = Len(seq) + 1
          /\ \A i \in 1..Len(seq) : Append(seq, e)[i] = seq[i]
          /\ Append(seq, e)[Len(seq) + 1] = e
      BY AppendProperties
    <2>2. 1..(Len(seq) + 1) = 1..Len(seq) \cup {Len(seq) + 1}
      BY <1>0
    <2> HIDE DEF Elems
    <2>3. Elems(Append(seq, e)) =
             {Append(seq, e)[i] : i \in 1..Len(seq)} \cup {Append(seq, e)[Len(seq) + 1]}
      BY <2>1, <2>2 DEF Elems
    <2>4. {Append(seq, e)[i] : i \in 1..Len(seq)} = Elems(seq)
      BY <2>1 DEF Elems
    <2> QED BY <2>1, <2>3, <2>4
  <1>4. Elems(<<>>) = {}
    BY DEF Elems
  <1> QED BY <1>1, <1>2, <1>3, <1>4

LEMMA RisingTail ==
    ASSUME NEW S, NEW seq \in Seq(S), seq # <<>>, Rising(seq)
    PROVE  Rising(Tail(seq)) /\ Earlier({Head(seq)}, Elems(Tail(seq)))
  <1>1. /\ Head(seq) = seq[1] /\ Len(seq) \in Nat /\ Len(seq) > 0
        /\ Len(Tail(seq)) = Len(seq) - 1
        /\ \A i \in 1..(Len(seq) - 1) : Tail(seq)[i] = seq[i + 1]
    BY HeadTailProperties
  <1>2. ASSUME NEW i \in 1..Len(Tail(seq)), NEW j \in 1..Len(Tail(seq)), i < j,
               IsAsk(Tail(seq)[i]), IsAsk(Tail(seq)[j])
        PROVE  Tail(seq)[i].revision < Tail(seq)[j].revision
    <2>1. i + 1 \in 1..Len(seq) /\ j + 1 \in 1..Len(seq) /\ i + 1 < j + 1
      BY <1>1, <1>2
    <2>2. Tail(seq)[i] = seq[i + 1] /\ Tail(seq)[j] = seq[j + 1]
      BY <1>1
    <2> QED BY <1>2, <2>1, <2>2 DEF Rising
  <1>3. ASSUME NEW i \in 1..Len(Tail(seq)), IsAsk(Head(seq)), IsAsk(Tail(seq)[i])
        PROVE  Head(seq).revision < Tail(seq)[i].revision
    <2>1. 1 \in 1..Len(seq) /\ i + 1 \in 1..Len(seq) /\ 1 < i + 1
      BY <1>1
    <2>2. Tail(seq)[i] = seq[i + 1]
      BY <1>1
    <2> QED BY <1>1, <1>3, <2>1, <2>2 DEF Rising
  <1> QED BY <1>2, <1>3 DEF Rising, Earlier, Elems

LEMMA RisingAppend ==
    ASSUME NEW S, NEW seq \in Seq(S), NEW e \in S, Rising(seq), Earlier(Elems(seq), {e})
    PROVE  Rising(Append(seq, e))
  <1> DEFINE all == Append(seq, e)
  <1>1. /\ Len(all) = Len(seq) + 1 /\ Len(seq) \in Nat
        /\ \A i \in 1..Len(seq) : all[i] = seq[i]
        /\ all[Len(seq) + 1] = e
    BY AppendProperties
  <1> HIDE DEF all
  <1>2. ASSUME NEW i \in 1..Len(all), NEW j \in 1..Len(all), i < j,
               IsAsk(all[i]), IsAsk(all[j])
        PROVE  all[i].revision < all[j].revision
    <2>1. i \in 1..Len(seq) /\ all[i] = seq[i]
      BY <1>1, <1>2
    <2>2. CASE j \in 1..Len(seq)
      BY <1>1, <1>2, <2>1, <2>2 DEF Rising
    <2>3. CASE j \notin 1..Len(seq)
      <3>1. all[j] = e
        BY <1>1, <1>2, <2>3
      <3>2. seq[i] \in Elems(seq)
        BY <2>1 DEF Elems
      <3> QED BY <1>2, <2>1, <3>1, <3>2 DEF Earlier
    <2> QED BY <2>2, <2>3
  <1>3. Rising(all)
    BY <1>2 DEF Rising
  <1> QED BY <1>3 DEF all

LEMMA LinkedTail ==
    ASSUME NEW todo \in Seq(Calls), Linked(todo), todo # <<>>
    PROVE  /\ Linked(Tail(todo)) /\ Head(todo) = todo[1] /\ todo[1] \in Calls
           /\ Tail(todo) # <<>> => Tail(todo)[1] \in Follows(todo[1])
  <1>1. /\ Len(todo) \in Nat /\ Len(todo) > 0 /\ Head(todo) = todo[1] /\ todo[1] \in Calls
        /\ Tail(todo) \in Seq(Calls) /\ Len(Tail(todo)) = Len(todo) - 1
        /\ \A i \in 1..(Len(todo) - 1) : Tail(todo)[i] = todo[i + 1]
    BY HeadTailProperties
  <1>2. ASSUME NEW i \in 1..(Len(Tail(todo)) - 1)
        PROVE  Tail(todo)[i + 1] \in Follows(Tail(todo)[i])
    <2>1. Tail(todo)[i] = todo[i + 1] /\ Tail(todo)[i + 1] = todo[(i + 1) + 1]
      BY <1>1
    <2>2. i + 1 \in 1..(Len(todo) - 1)
      BY <1>1
    <2> QED BY <2>1, <2>2 DEF Linked
  <1>3. Tail(todo) # <<>> => Tail(todo)[1] \in Follows(todo[1])
    <2>1. Tail(todo) # <<>> => Len(todo) - 1 >= 1
      BY <1>1, EmptySeq
    <2> QED BY <2>1, <1>1 DEF Linked
  <1> QED BY <1>1, <1>2, <1>3 DEF Linked

LEMMA LinkedConcat ==
    ASSUME NEW calls \in Seq(Calls), calls # <<>>, Linked(calls),
           calls[Len(calls)] \in Tails \cup {"setOffer"},
           NEW rest \in Seq(Calls), Linked(rest), Ready(rest)
    PROVE  /\ Linked(calls \o rest) /\ calls \o rest # <<>>
           /\ (calls \o rest)[1] = calls[1]
  <1> DEFINE all == calls \o rest
  <1>1. Len(calls) \in Nat /\ Len(rest) \in Nat /\ Len(calls) > 0
    BY EmptySeq
  <1>2. /\ all \in Seq(Calls) /\ Len(all) = Len(calls) + Len(rest)
        /\ \A i \in 1..Len(calls) : all[i] = calls[i]
        /\ \A i \in 1..Len(rest) : all[Len(calls) + i] = rest[i]
    BY <1>1, ConcatProperties
  <1> HIDE DEF all
  <1>3. ASSUME NEW i \in 1..(Len(all) - 1) PROVE all[i + 1] \in Follows(all[i])
    <2>1. CASE i < Len(calls)
      <3>1. all[i] = calls[i] /\ all[i + 1] = calls[i + 1] /\ i \in 1..(Len(calls) - 1)
        BY <2>1, <1>1, <1>2
      <3> QED BY <3>1 DEF Linked
    <2>2. CASE i = Len(calls)
      <3>1. all[i] = calls[Len(calls)] /\ all[i + 1] = rest[1] /\ Len(rest) > 0
        BY <2>2, <1>1, <1>2, <1>3
      <3>2. rest[1] \in Tails
        BY <3>1, <1>1 DEF Ready
      <3>3. Follows(calls[Len(calls)]) = Tails
        BY DEF Follows, Tails
      <3> QED BY <3>1, <3>2, <3>3
    <2>3. CASE i > Len(calls)
      <3> DEFINE j == i - Len(calls)
      <3>1. j \in 1..(Len(rest) - 1) /\ i = Len(calls) + j /\ i + 1 = Len(calls) + (j + 1)
        BY <2>3, <1>1, <1>2, <1>3
      <3>2. j \in 1..Len(rest) /\ j + 1 \in 1..Len(rest)
        BY <3>1, <1>1
      <3> HIDE DEF j
      <3>3. all[Len(calls) + j] = rest[j] /\ all[Len(calls) + (j + 1)] = rest[j + 1]
        BY <3>2, <1>2
      <3>4. all[i] = rest[j] /\ all[i + 1] = rest[j + 1]
        BY <3>1, <3>3
      <3> QED BY <3>1, <3>4 DEF Linked
    <2> QED BY <2>1, <2>2, <2>3, <1>1
  <1>4. all # <<>> /\ all[1] = calls[1]
    BY <1>1, <1>2
  <1> QED BY <1>3, <1>4 DEF Linked, all

\* Every chain that a method starts is one that may be put before such a rest.
LEMMA ChainsLinked ==
    ASSUME NEW rest \in Seq(Calls), Linked(rest), Ready(rest)
    PROVE  /\ Linked(Offers \o rest) /\ Offers \o rest # <<>>
           /\ (Offers \o rest)[1] = "createOffer"
           /\ Linked(Answers \o rest) /\ Answers \o rest # <<>>
           /\ (Answers \o rest)[1] = "setRemoteOffer"
           /\ Linked(Glares \o rest) /\ Glares \o rest # <<>>
           /\ (Glares \o rest)[1] = "rollback"
           /\ Linked(Receives \o rest) /\ Receives \o rest # <<>>
           /\ (Receives \o rest)[1] = "setRemoteAnswer"
           /\ Linked(Drains \o rest) /\ Drains \o rest # <<>>
           /\ (Drains \o rest)[1] = "drained"
  <1>1. /\ Offers \in Seq(Calls) /\ Offers # <<>> /\ Linked(Offers)
        /\ Offers[Len(Offers)] = "setOffer" /\ Offers[1] = "createOffer"
    BY OffersChain DEF Chain, Offers, Linked, Follows, Tails
  <1>2. /\ Answers \in Seq(Calls) /\ Answers # <<>> /\ Linked(Answers)
        /\ Answers[Len(Answers)] = "maybeReoffer" /\ Answers[1] = "setRemoteOffer"
    BY AnswersChain DEF Chain, Answers, Linked, Follows, Tails
  <1>3. /\ Glares \in Seq(Calls) /\ Glares # <<>> /\ Linked(Glares)
        /\ Glares[Len(Glares)] = "reoffer" /\ Glares[1] = "rollback"
    BY GlaresChain DEF Chain, Glares, Linked, Follows, Tails
  <1>4. /\ Receives \in Seq(Calls) /\ Receives # <<>> /\ Linked(Receives)
        /\ Receives[Len(Receives)] = "maybeReoffer" /\ Receives[1] = "setRemoteAnswer"
    BY ReceivesChain DEF Chain, Receives, Linked, Follows, Tails
  <1>5. /\ Drains \in Seq(Calls) /\ Drains # <<>> /\ Linked(Drains)
        /\ Drains[Len(Drains)] = "drained" /\ Drains[1] = "drained"
    BY DrainsChain DEF Chain, Drains, Linked, Follows, Tails
  <1>6. "setOffer" \in Tails \cup {"setOffer"} /\ "maybeReoffer" \in Tails
        /\ "reoffer" \in Tails /\ "drained" \in Tails
    BY DEF Tails
  <1>7. Linked(Offers \o rest) /\ Offers \o rest # <<>> /\ (Offers \o rest)[1] = "createOffer"
    BY <1>1, <1>6, LinkedConcat
  <1>8. Linked(Answers \o rest) /\ Answers \o rest # <<>>
        /\ (Answers \o rest)[1] = "setRemoteOffer"
    BY <1>2, <1>6, LinkedConcat
  <1>9. Linked(Glares \o rest) /\ Glares \o rest # <<>> /\ (Glares \o rest)[1] = "rollback"
    BY <1>3, <1>6, LinkedConcat
  <1>10. Linked(Receives \o rest) /\ Receives \o rest # <<>>
         /\ (Receives \o rest)[1] = "setRemoteAnswer"
    BY <1>4, <1>6, LinkedConcat
  <1>11. Linked(Drains \o rest) /\ Drains \o rest # <<>> /\ (Drains \o rest)[1] = "drained"
    BY <1>5, <1>6, LinkedConcat
  <1> QED BY <1>7, <1>8, <1>9, <1>10, <1>11

Starts(d, calls) == Linked(d.todo) /\ d.todo # <<>> /\ d.todo[1] \in calls
Keeps(d, c) == d.stable = c.stable /\ d.offer = c.offer /\ d.signaling = c.signaling

\* What handling a description comes to: it is dropped, ...
Dropped(c, m, d) ==
    /\ d.revision = c.revision /\ d.needsAnswer = c.needsAnswer
    /\ d.queued = c.queued /\ d.todo = c.todo /\ d.current = c.current
\* ... put aside, ...
PutAside(c, m, d) ==
    /\ IsAsk(m) /\ m.revision > c.stable
    /\ d.revision = c.revision /\ d.needsAnswer = c.needsAnswer
    /\ d.queued = m /\ d.todo = c.todo /\ d.current = c.current
\* ... an offer is made, ...
OfferStarts(c, m, d) ==
    /\ m.type = "create-offer" /\ m.revision > c.stable /\ ~c.needsAnswer
    /\ d.revision = m.revision /\ d.needsAnswer = TRUE /\ d.queued = c.queued
    /\ Starts(d, {"createOffer"})
\* ... the offer is answered, ...
AnswerStarts(c, m, d) ==
    /\ m.type = "offer" /\ m.revision > c.stable
    /\ d.revision = m.revision /\ d.needsAnswer = c.needsAnswer /\ d.queued = c.queued
    /\ Starts(d, {"setRemoteOffer", "rollback"})
\* ... or the answer is applied.
ApplyStarts(c, m, d) ==
    /\ m.type = "answer" /\ m.revision = c.revision /\ c.signaling = "have-local-offer"
    /\ d.revision = c.revision /\ d.needsAnswer = c.needsAnswer /\ d.queued = c.queued
    /\ d.current = m.offer
    /\ Starts(d, {"setRemoteAnswer"})

LEMMA FirstKeeps ==
    ASSUME NEW c \in Connections, NEW calls \in Seq(Calls)
    PROVE  /\ Keeps(First(c, calls), c)
           /\ First(c, calls).revision = c.revision
           /\ First(c, calls).current = c.current
           /\ First(c, calls).todo = calls \o c.todo
           /\ First(c, calls).queued = c.queued
           /\ First(c, calls).needsAnswer = c.needsAnswer
  <1>1. /\ Keeps(First(c, calls), c)
        /\ First(c, calls).revision = c.revision
        /\ First(c, calls).current = c.current
    BY DEF First, Connections, Keeps
  <1> QED BY <1>1, FirstType

LEMMA OfferingKeeps ==
    ASSUME NEW c \in Connections, Linked(c.todo), Ready(c.todo)
    PROVE  /\ Keeps(Offering(c), c) /\ Offering(c).revision = c.revision
           /\ Offering(c).queued = c.queued /\ Offering(c).needsAnswer = TRUE
           /\ Starts(Offering(c), {"createOffer"})
  <1> DEFINE d == [c EXCEPT !.needsAnswer = TRUE,
                            !.isRestartingIce = @ \/ c.shouldRestartIce,
                            !.shouldRestartIce = FALSE]
  <1>1. Keeps(d, c) /\ d.revision = c.revision /\ d.todo = c.todo /\ d \in Connections
    BY DEF Connections, Keeps
  <1>2. Offering(c) = First(d, Offers) /\ Offers \in Seq(Calls)
    BY OffersChain DEF Offering, Offers, Chain
  <1> HIDE DEF d
  <1>3. /\ Keeps(First(d, Offers), d) /\ First(d, Offers).revision = d.revision
        /\ First(d, Offers).todo = Offers \o d.todo
    BY <1>1, <1>2, FirstKeeps
  <1>4. Starts(First(d, Offers), {"createOffer"})
    <2>1. c.todo \in Seq(Calls)
      BY DEF Connections
    <2> QED BY <1>1, <1>3, <2>1, ChainsLinked DEF Starts
  <1>5. Offering(c).queued = c.queued
    BY OfferingType
  <1>6. Offering(c).needsAnswer = TRUE
    BY OfferingType
  <1> QED BY <1>1, <1>2, <1>3, <1>4, <1>5, <1>6 DEF Keeps

LEMMA HandleCases ==
    ASSUME NEW c \in Connections, Linked(c.todo), Ready(c.todo),
           NEW m \in Messages, m.type # "close", m # None
    PROVE  LET d == Handle(c, m) IN
           /\ Keeps(d, c)
           /\ \/ Dropped(c, m, d) \/ PutAside(c, m, d)
              \/ OfferStarts(c, m, d) \/ AnswerStarts(c, m, d) \/ ApplyStarts(c, m, d)
  <1> DEFINE d == Handle(c, m)
  <1> SUFFICES /\ Keeps(d, c)
               /\ \/ Dropped(c, m, d) \/ PutAside(c, m, d)
                  \/ OfferStarts(c, m, d) \/ AnswerStarts(c, m, d) \/ ApplyStarts(c, m, d)
    OBVIOUS
  <1>0. m.revision \in Nat /\ m.offer \in Nat /\ c.todo \in Seq(Calls)
        /\ c.revision \in Nat /\ c.stable \in Nat
    BY DEF Messages, Connections
  <1>1. Keeps(c, c) /\ Dropped(c, m, c)
    BY DEF Keeps, Dropped
  <1>2. m.revision > c.stable /\ IsAsk(m) =>
           Keeps([c EXCEPT !.queued = m], c) /\ PutAside(c, m, [c EXCEPT !.queued = m])
    BY DEF Keeps, PutAside, Connections
  <1> DEFINE e == [c EXCEPT !.revision = m.revision]
  <1>3. /\ e \in Connections /\ Keeps(e, c) /\ e.revision = m.revision
        /\ e.todo = c.todo /\ e.queued = c.queued
    BY <1>0 DEF Keeps, Connections
  <1>4. e.needsAnswer = c.needsAnswer
    BY <1>0 DEF Connections
  <1>5. CASE m.type = "answer"
    <2> DEFINE f == [c EXCEPT !.current = m.offer]
    <2>1. f \in Connections /\ Keeps(f, c) /\ f.revision = c.revision
          /\ f.todo = c.todo /\ f.queued = c.queued /\ f.current = m.offer
      BY <1>0 DEF Keeps, Connections
    <2>2. f.needsAnswer = c.needsAnswer
      BY <1>0 DEF Connections
    <2>3. \/ d = c
          \/ /\ m.revision = c.revision /\ c.signaling = "have-local-offer"
             /\ d = First(f, Receives)
      BY <1>5 DEF Handle, HandleAnswer, Receives
    <2>4. Receives \in Seq(Calls)
      BY ReceivesChain DEF Chain
    <2> HIDE DEF f
    <2>5. /\ Keeps(First(f, Receives), f) /\ First(f, Receives).revision = f.revision
          /\ First(f, Receives).queued = f.queued /\ First(f, Receives).current = f.current
          /\ First(f, Receives).todo = Receives \o c.todo
      BY <2>1, <2>4, FirstKeeps
    <2>6. First(f, Receives).needsAnswer = f.needsAnswer
      BY <2>1, <2>4, FirstKeeps
    <2>7. Starts(First(f, Receives), {"setRemoteAnswer"})
      BY <1>0, <2>5, ChainsLinked DEF Starts
    <2>8. Keeps(First(f, Receives), c)
      BY <2>1, <2>5 DEF Keeps
    <2>9. CASE d = c
      BY <1>1, <2>9
    <2>10. CASE m.revision = c.revision /\ c.signaling = "have-local-offer" /\ d = First(f, Receives)
      <3> HIDE DEF d
      <3>1. ApplyStarts(c, m, d)
        BY <1>5, <2>1, <2>2, <2>5, <2>6, <2>7, <2>10 DEF ApplyStarts
      <3> QED BY <2>8, <2>10, <3>1
    <2> QED BY <2>3, <2>9, <2>10
  <1>6. CASE m.type = "create-offer"
    <2>1. IsAsk(m)
      BY <1>6 DEF IsAsk
    <2>2. \/ d = c
          \/ m.revision > c.stable /\ c.needsAnswer /\ d = [c EXCEPT !.queued = m]
          \/ m.revision > c.stable /\ ~c.needsAnswer /\ d = Offering(e)
      BY <1>0, <1>6 DEF Handle, HandleCreateOffer
    <2>3. ~c.needsAnswer /\ m.revision > c.stable
             => Keeps(Offering(e), c) /\ OfferStarts(c, m, Offering(e))
      <3> HIDE DEF e
      <3>1. /\ Keeps(Offering(e), e) /\ Offering(e).revision = e.revision
            /\ Offering(e).queued = e.queued /\ Starts(Offering(e), {"createOffer"})
        BY <1>3, OfferingKeeps
      <3>2. Offering(e).needsAnswer = TRUE
        BY <1>3, OfferingType
      <3>3. Keeps(Offering(e), c)
        BY <1>3, <3>1 DEF Keeps
      <3> QED BY <1>3, <1>6, <3>1, <3>2, <3>3 DEF OfferStarts
    <2> HIDE DEF d, e
    <2>4. CASE d = c
      BY <1>1, <2>4
    <2>5. CASE m.revision > c.stable /\ c.needsAnswer /\ d = [c EXCEPT !.queued = m]
      BY <1>2, <2>1, <2>5
    <2>6. CASE m.revision > c.stable /\ ~c.needsAnswer /\ d = Offering(e)
      BY <2>3, <2>6
    <2> QED BY <2>2, <2>4, <2>5, <2>6
  <1>7. CASE m.type = "offer"
    <2> DEFINE g == [e EXCEPT !.isRestartingIce = FALSE,
                              !.shouldRestartIce = @ \/ e.isRestartingIce]
    <2>1. IsAsk(m)
      BY <1>7 DEF IsAsk
    <2>2. \/ d = c
          \/ m.revision > c.stable /\ d = [c EXCEPT !.queued = m]
          \/ m.revision > c.stable /\ d = First(e, Answers)
          \/ m.revision > c.stable /\ d = First(g, Glares)
      <3>1. Answering(e) = First(e, Answers) /\ HandleGlare(e) = First(g, Glares)
        BY DEF Answering, HandleGlare, Answers, Glares
      <3>2. d = HandleOffer(c, m)
        BY <1>7 DEF Handle
      <3>3. \/ HandleOffer(c, m) = c
            \/ m.revision > c.stable
               /\ HandleOffer(c, m) \in {[c EXCEPT !.queued = m], Answering(e), HandleGlare(e)}
        BY <1>0 DEF HandleOffer
      <3> HIDE DEF d, e, g
      <3> QED BY <3>1, <3>2, <3>3
    <2>3. Answers \in Seq(Calls) /\ Glares \in Seq(Calls)
      BY AnswersChain, GlaresChain DEF Chain
    <2>4. /\ g \in Connections /\ Keeps(g, c) /\ g.revision = m.revision
          /\ g.todo = c.todo /\ g.queued = c.queued
      <3>1. (e.shouldRestartIce \/ e.isRestartingIce) \in BOOLEAN
        OBVIOUS
      <3> HIDE DEF e
      <3> QED BY <1>3, <3>1 DEF Connections, Keeps
    <2>5. g.needsAnswer = c.needsAnswer
      <3> HIDE DEF e
      <3> QED BY <1>3, <1>4 DEF Connections
    <2> HIDE DEF e, g, d
    <2>6. ASSUME NEW h \in Connections, Keeps(h, c), h.revision = m.revision, h.todo = c.todo,
                 h.queued = c.queued, h.needsAnswer = c.needsAnswer,
                 NEW calls \in {Answers, Glares}, m.revision > c.stable
          PROVE  Keeps(First(h, calls), c) /\ AnswerStarts(c, m, First(h, calls))
      <3>0. calls \in Seq(Calls)
        BY <2>3
      <3>1. /\ Keeps(First(h, calls), h) /\ First(h, calls).revision = h.revision
            /\ First(h, calls).queued = h.queued /\ First(h, calls).todo = calls \o c.todo
        BY <2>6, <3>0, FirstKeeps
      <3>2. First(h, calls).needsAnswer = h.needsAnswer
        BY <3>0, FirstKeeps
      <3>3. Starts(First(h, calls), {"setRemoteOffer", "rollback"})
        <4>1. /\ Linked(calls \o c.todo) /\ calls \o c.todo # <<>>
              /\ (calls \o c.todo)[1] \in {"setRemoteOffer", "rollback"}
          BY <1>0, ChainsLinked
        <4> QED BY <3>1, <4>1 DEF Starts
      <3>4. Keeps(First(h, calls), c)
        BY <2>6, <3>1 DEF Keeps
      <3> QED BY <1>7, <2>6, <3>1, <3>2, <3>3, <3>4 DEF AnswerStarts
    <2>7. m.revision > c.stable =>
             /\ Keeps(First(e, Answers), c) /\ AnswerStarts(c, m, First(e, Answers))
             /\ Keeps(First(g, Glares), c) /\ AnswerStarts(c, m, First(g, Glares))
      BY <1>3, <1>4, <2>4, <2>5, <2>6
    <2> QED BY <1>1, <1>2, <2>1, <2>2, <2>7
  <1> QED BY <1>5, <1>6, <1>7 DEF Messages

LEMMA Numbers ==
    ASSUME TInv
    PROVE  /\ pc.revision \in Nat /\ pc.stable \in Nat /\ pc.offer \in Nat
           /\ server.revision \in Nat /\ server.expects \in Nat
           /\ Stream \subseteq Messages \cup {None}
           /\ \A m \in Messages : m.revision \in Nat /\ m.offer \in Nat
           /\ pc.queued # None => pc.queued \in Messages /\ IsAsk(pc.queued)
           /\ server.owes # None => server.owes \in Messages
           /\ Elems(toServer) \subseteq Messages /\ HeardOffers \subseteq Elems(toServer)
           /\ Live \subseteq Messages
  <1>1. /\ pc.revision \in Nat /\ pc.stable \in Nat /\ pc.offer \in Nat
        /\ server.revision \in Nat /\ server.expects \in Nat
        /\ pc.queued # None => pc.queued \in Messages
        /\ server.owes # None => server.owes \in Messages
    BY DEF TInv, TypeOK, Connections, Servers
  <1>2. /\ Elems(waiting) \subseteq Messages \cup {None} /\ Elems(toClient) \subseteq Messages
        /\ Elems(toServer) \subseteq Messages
    BY ElemsOf DEF TInv, TypeOK
  <1>3. HeardOffers \subseteq Elems(toServer)
    BY DEF HeardOffers, Elems
  <1>4. \A m \in Messages : m.revision \in Nat /\ m.offer \in Nat
    BY DEF Messages
  <1>5. Stream \subseteq Messages \cup {None}
    BY <1>2 DEF Stream
  <1>6. Live \subseteq Messages
    BY <1>1, <1>2, <1>3, <1>5 DEF Live, IsAnswer
  <1>7. pc.queued # None => IsAsk(pc.queued)
    BY DEF TInv, Queues, IsAsk
  <1> QED BY <1>1, <1>2, <1>3, <1>4, <1>5, <1>6, <1>7

\* What is to be answered depends on the network alone.
LEMMA LiveKept ==
    ASSUME UNCHANGED <<server, toServer>>, Stream' \subseteq Stream \cup {None}
    PROVE  Live' \subseteq Live /\ HeardOffers' = HeardOffers
  <1>1. HeardOffers' = HeardOffers
    BY DEF HeardOffers, Heard
  <1> QED BY <1>1 DEF Live, IsAnswer

\* All that will be answered is older than an offer the server waits for.
LEMMA LiveBelow ==
    ASSUME TInv, Seen, Crossing, NEW r \in Nat, r # 0, Unanswered(r)
    PROVE  (\A n \in Live : n.revision < r) /\ r > 1 /\ r <= server.revision
  <1>1. /\ server.expects = r /\ r > 1 /\ r <= server.revision
        /\ \A m \in ({server.owes} \ {None}) \cup {n \in Stream : IsAnswer(n)} : m.revision < r
    BY DEF Crossing, Unanswered, Seen
  <1>2. ASSUME NEW i \in 1..Len(toServer), Heard(i) PROVE toServer[i].revision < r
    <2>1. ASSUME NEW j \in 1..(i - 1) PROVE toServer[j] \in Elems(toServer)
      <3>1. j \in 1..Len(toServer)
        BY DEF TInv, TypeOK
      <3> QED BY <3>1 DEF Elems
    <2>2. toServer[i].revision = 1
      BY <1>1, <1>2, <2>1 DEF Heard, Unanswered
    <2> QED BY <1>1, <2>2
  <1> QED BY <1>1, <1>2 DEF Live, HeardOffers

\* The calls that await the lock change at their ends only.
LEMMA StreamStep ==
    ASSUME TInv, InTurn, UNCHANGED toClient,
           \/ waiting' = waiting \/ waiting' = Append(waiting, None)
           \/ waiting # <<>> /\ waiting' = Tail(waiting)
    PROVE  /\ Stream' \subseteq Stream \cup {None}
           /\ Rising(waiting)' /\ Rising(toClient)'
           /\ Earlier(Elems(waiting), Elems(toClient))'
           /\ waiting # <<>> /\ waiting' = Tail(waiting) =>
                 /\ Stream' \subseteq Stream /\ Head(waiting) \in Stream
                 /\ Earlier({Head(waiting)}, Stream')
  <1>1. waiting \in Seq(Messages \cup {None}) /\ None \in Messages \cup {None}
    BY DEF TInv, TypeOK
  <1>2. CASE waiting' = waiting
    <2>1. Stream' = Stream
      BY <1>2 DEF Stream
    <2>2. Rising(waiting)' /\ Rising(toClient)'
      BY <1>2 DEF InTurn, Rising
    <2>3. Earlier(Elems(waiting), Elems(toClient))'
      BY <1>2 DEF InTurn, Earlier, Elems
    <2>4. ~(waiting # <<>> /\ waiting' = Tail(waiting))
      BY <1>1, <1>2, HeadTailProperties
    <2> QED BY <2>1, <2>2, <2>3, <2>4
  <1>3. CASE waiting' = Append(waiting, None)
    <2>1. Elems(waiting') = Elems(waiting) \cup {None} /\ ~IsAsk(None)
      BY <1>1, <1>3, ElemsOf DEF IsAsk
    <2>2. Elems(toClient') = Elems(toClient)
      BY DEF Elems
    <2>3. Stream' \subseteq Stream \cup {None}
      BY <2>1, <2>2 DEF Stream
    <2>4. Rising(waiting')
      <3>1. Earlier(Elems(waiting), {None})
        BY <2>1 DEF Earlier
      <3> QED BY <1>1, <1>3, <3>1, RisingAppend DEF InTurn
    <2>5. Earlier(Elems(waiting'), Elems(toClient'))
      BY <2>1, <2>2 DEF InTurn, Earlier
    <2>6. ~(waiting # <<>> /\ waiting' = Tail(waiting))
      <3>1. Len(Append(waiting, None)) = Len(waiting) + 1 /\ Len(waiting) \in Nat
        BY <1>1, AppendProperties
      <3>2. waiting # <<>> => Len(Tail(waiting)) = Len(waiting) - 1
        BY <1>1, HeadTailProperties
      <3> QED BY <1>3, <3>1, <3>2
    <2>7. Rising(toClient')
      BY DEF InTurn
    <2> QED BY <2>3, <2>4, <2>5, <2>6, <2>7
  <1>4. CASE waiting # <<>> /\ waiting' = Tail(waiting)
    <2>1. Elems(waiting) = {Head(waiting)} \cup Elems(waiting') /\ Head(waiting) \in Elems(waiting)
      BY <1>1, <1>4, ElemsOf
    <2>2. Elems(toClient') = Elems(toClient)
      BY DEF Elems
    <2>3. Rising(waiting') /\ Earlier({Head(waiting)}, Elems(waiting'))
      BY <1>1, <1>4, RisingTail DEF InTurn
    <2>4. Earlier({Head(waiting)}, Elems(toClient)) /\ Earlier(Elems(waiting'), Elems(toClient'))
      BY <2>1, <2>2 DEF InTurn, Earlier
    <2>5. Stream' \subseteq Stream /\ Head(waiting) \in Stream
      BY <2>1, <2>2 DEF Stream
    <2>6. Earlier({Head(waiting)}, Stream')
      BY <2>2, <2>3, <2>4 DEF Earlier, Stream
    <2>7. Rising(toClient')
      BY DEF InTurn
    <2> QED BY <2>3, <2>4, <2>5, <2>6, <2>7
  <1> QED BY <1>2, <1>3, <1>4

\* A step of the client that leaves its revision alone.
LEMMA StayStep ==
    ASSUME TInv, TInv', Matching, UNCHANGED <<server, toServer>>,
           Stream' \subseteq Stream \cup {None},
           pc'.offer = pc.offer, pc'.revision = pc.revision,
           pc'.signaling = "have-local-offer" => pc.signaling = "have-local-offer",
           pc'.stable \in {pc.stable, pc.revision},
           pc'.queued \in {pc.queued, None} \cup Stream,
           \/ pc'.needsAnswer \/ ~pc.needsAnswer
           \/ pc'.stable = pc.revision /\ pc.revision <= server.revision
           \/ /\ pc.revision <= server.revision
              /\ \A m \in Stream : IsAsk(m) => m.revision > pc.revision
    PROVE  Seen' /\ OffersOpen' /\ (\A m \in Live : Fits(m))' /\ Crossing' /\ Fresh'
  <1>1. /\ pc.revision \in Nat /\ pc.stable \in Nat /\ pc.offer \in Nat
        /\ \A m \in Stream : m # None => m.revision \in Nat
        /\ pc.queued # None => pc.queued.revision \in Nat
    BY Numbers
  <1>2. ~IsAsk(None) /\ ~IsAnswer(None)
    BY DEF IsAsk, IsAnswer
  <1>3. Live' \subseteq Live
    BY LiveKept
  <1>4. pc.stable <= pc'.stable /\ pc'.stable <= pc'.revision /\ pc'.stable \in Nat
    BY <1>1 DEF Matching, Fresh
  <1>5. Seen'
    <2>1. ~pc'.needsAnswer => pc'.revision <= server.revision
      BY DEF Matching, Seen
    <2> QED BY <1>2, <2>1 DEF Matching, Seen, Elems, IsAsk, IsAnswer
  <1>6. OffersOpen'
    <2> SUFFICES ASSUME NEW m \in Stream' \cup {pc'.queued}, IsAsk(m), m.type = "offer",
                        m.revision > pc'.stable
        PROVE  Unanswered(m.revision)'
      BY DEF OffersOpen, IsAsk
    <2>1. m \in Stream \cup {pc.queued}
      BY <1>2
    <2>2. m.revision \in Nat
      BY <1>1, <2>1 DEF IsAsk
    <2>3. m.revision > pc.stable
      BY <1>1, <1>4, <2>2
    <2> QED BY <2>1, <2>3 DEF Matching, OffersOpen, Unanswered, Elems
  <1>7. (\A m \in Live : Fits(m))'
    BY <1>3 DEF Matching, Fits
  <1>8. Crossing'
    BY <1>2 DEF Matching, Crossing, IsAnswer
  <1>9. Fresh'
    <2> SUFFICES ASSUME ~pc'.needsAnswer, NEW m \in Stream', IsAsk(m)
        PROVE  m.revision <= pc'.stable \/ m.revision > pc'.revision
      BY <1>4 DEF Fresh, IsAsk
    <2>1. m \in Stream /\ m.revision \in Nat
      BY <1>1, <1>2 DEF IsAsk
    <2> QED BY <1>1, <1>4, <2>1 DEF Matching, Fresh
  <1> QED BY <1>5, <1>6, <1>7, <1>8, <1>9

\* A step of the client that takes over the revision of a message.
LEMMA MoveStep ==
    ASSUME TInv, TInv', Matching, UNCHANGED <<server, toServer>>,
           Stream' \subseteq Stream \cup {None}, NEW r \in Nat,
           pc'.offer = pc.offer, pc'.revision = r, pc'.signaling = pc.signaling,
           pc'.stable = pc.stable, pc'.queued = pc.queued,
           r > pc.stable, r <= server.revision,
           \A m \in Live : m.revision < r,
           \A m \in Stream' : IsAsk(m) => m.revision > r
    PROVE  Seen' /\ OffersOpen' /\ (\A m \in Live : Fits(m))' /\ Crossing' /\ Fresh'
  <1>1. pc.revision \in Nat /\ pc.stable \in Nat /\ Live \subseteq Messages
        /\ \A m \in Messages : m.revision \in Nat
    BY Numbers
  <1>2. ~IsAsk(None) /\ ~IsAnswer(None)
    BY DEF IsAsk, IsAnswer
  <1>3. Live' \subseteq Live
    BY LiveKept
  <1>4. Seen'
    BY <1>2 DEF Matching, Seen, Elems, IsAsk, IsAnswer
  <1>5. OffersOpen'
    BY <1>2 DEF Matching, OffersOpen, Unanswered, Elems, IsAsk
  <1>6. (\A m \in Live : Fits(m))'
    <2> SUFFICES ASSUME NEW m \in Live' PROVE Fits(m)'
      OBVIOUS
    <2>1. m \in Live /\ m.revision \in Nat /\ m.revision < r
      BY <1>1, <1>3
    <2> QED BY <2>1 DEF Fits
  <1>7. Crossing'
    BY <1>2 DEF Matching, Crossing, IsAnswer
  <1>8. Fresh'
    BY <1>1, <1>2 DEF Fresh, IsAsk
  <1> QED BY <1>4, <1>5, <1>6, <1>7, <1>8

\* A description that arrives, or was put aside, is handled.
LEMMA HandleStep ==
    ASSUME TInv, TInv', Matching, UNCHANGED <<server, toServer>>,
           Stream' \subseteq Stream \cup {None},
           NEW c \in Connections, Linked(c.todo), Ready(c.todo),
           Keeps(c, pc), c.revision = pc.revision, c.queued = pc.queued,
           c.needsAnswer = pc.needsAnswer,
           NEW m \in Messages, m # None, m.type # "close",
           \/ m \in Stream
           \/ m = pc.queued /\ pc.stable = pc.revision,
           Earlier({m}, Stream'), pc' = Handle(c, m)
    PROVE  /\ Linked(pc'.todo) /\ Earlier({pc'.queued}, Stream')
           /\ Seen' /\ OffersOpen' /\ (\A n \in Live : Fits(n))' /\ Crossing' /\ Fresh'
           /\ UnderWay'
  <1>1. /\ pc.revision \in Nat /\ pc.stable \in Nat /\ m.revision \in Nat
        /\ pc.queued # None => IsAsk(pc.queued)
        /\ Live \subseteq Messages /\ \A n \in Messages : n.revision \in Nat
    BY Numbers
  <1>2. Keeps(pc', c)
    BY HandleCases
  <1>3. pc'.stable = pc.stable /\ pc'.offer = pc.offer /\ pc'.signaling = pc.signaling
    BY <1>2 DEF Keeps
  <1>4. Earlier({pc.queued}, Stream')
    <2>1. ~IsAsk(None)
      BY DEF IsAsk
    <2> QED BY <2>1 DEF Matching, InTurn, Earlier
  <1>5. m \in Stream \cup {pc.queued}
    OBVIOUS
  <1>6. CASE Dropped(c, m, pc')
    <2>1. pc'.revision = pc.revision /\ pc'.queued = pc.queued /\ pc'.todo = c.todo
      BY <1>6 DEF Dropped
    <2>2. pc'.needsAnswer = pc.needsAnswer
      BY <1>6 DEF Dropped
    <2>3. Seen' /\ OffersOpen' /\ (\A n \in Live : Fits(n))' /\ Crossing' /\ Fresh'
      BY <1>3, <2>1, <2>2, StayStep
    <2>4. UnderWay'
      BY <2>1 DEF Ready, Tails, UnderWay, AtCall
    <2> QED BY <1>4, <2>1, <2>3, <2>4
  <1>7. CASE PutAside(c, m, pc')
    <2>1. pc'.revision = pc.revision /\ pc'.queued = m /\ pc'.todo = c.todo
      BY <1>7 DEF PutAside
    <2>2. pc'.needsAnswer = pc.needsAnswer
      BY <1>7 DEF PutAside
    <2>3. Seen' /\ OffersOpen' /\ (\A n \in Live : Fits(n))' /\ Crossing' /\ Fresh'
      BY <1>3, <1>5, <2>1, <2>2, StayStep
    <2>4. UnderWay'
      BY <2>1 DEF Ready, Tails, UnderWay, AtCall
    <2> QED BY <2>1, <2>3, <2>4
  <1>8. ASSUME m.revision > pc.stable, pc'.revision = m.revision, pc'.queued = pc.queued,
               IsAsk(m), \A n \in Live : n.revision < m.revision
        PROVE  Seen' /\ OffersOpen' /\ (\A n \in Live : Fits(n))' /\ Crossing' /\ Fresh'
    <2>1. m.revision <= server.revision
      BY <1>5, <1>8 DEF Matching, Seen
    <2>2. \A n \in Stream' : IsAsk(n) => n.revision > m.revision
      <3> SUFFICES ASSUME NEW n \in Stream', IsAsk(n) PROVE n.revision > m.revision
        OBVIOUS
      <3>1. m.revision < n.revision
        BY <1>8 DEF Earlier
      <3>2. n.revision \in Nat
        BY <1>1, Numbers DEF IsAsk
      <3> QED BY <1>1, <3>1, <3>2
    <2> QED BY <1>1, <1>3, <1>8, <2>1, <2>2, MoveStep
  <1>9. CASE OfferStarts(c, m, pc')
    <2>1. /\ IsAsk(m) /\ m.revision > pc.stable /\ ~pc.needsAnswer
          /\ pc'.revision = m.revision /\ pc'.queued = pc.queued
          /\ Starts(pc', {"createOffer"})
      BY <1>9 DEF OfferStarts, IsAsk, Keeps
    <2>2. m.revision > pc.revision
      BY <1>1, <2>1 DEF Matching, Fresh
    <2>3. \A n \in Live : n.revision < m.revision
      <3> SUFFICES ASSUME NEW n \in Live PROVE n.revision < m.revision
        OBVIOUS
      <3>1. n.revision \in Nat /\ n.revision <= pc.revision
        BY <1>1 DEF Matching, Fits
      <3> QED BY <1>1, <2>2, <3>1
    <2>4. pc'.needsAnswer
      BY <1>9 DEF OfferStarts
    <2>5. UnderWay'
      BY <2>1, <2>4 DEF UnderWay, AtCall, Starts
    <2> QED BY <1>4, <1>8, <2>1, <2>3, <2>5 DEF Starts
  <1>10. CASE AnswerStarts(c, m, pc')
    <2>1. /\ IsAsk(m) /\ m.type = "offer" /\ m.revision > pc.stable
          /\ pc'.revision = m.revision /\ pc'.queued = pc.queued
          /\ Starts(pc', {"setRemoteOffer", "rollback"})
      BY <1>10 DEF AnswerStarts, IsAsk, Keeps
    <2>2. Unanswered(m.revision) /\ m.revision # 0
      BY <1>1, <1>5, <2>1 DEF Matching, OffersOpen
    <2>3. (\A n \in Live : n.revision < m.revision) /\ m.revision <= server.revision
      BY <1>1, <2>2, LiveBelow DEF Matching
    <2>4. UnderWay'
      <3>1. Unanswered(pc.revision)'
        BY <2>1, <2>2 DEF Unanswered, Elems
      <3>2. \A n \in Stream' : IsAsk(n) => n.revision > pc'.revision
        <4> SUFFICES ASSUME NEW n \in Stream', IsAsk(n) PROVE n.revision > m.revision
          BY <2>1
        <4>1. m.revision < n.revision
          BY <2>1 DEF Earlier
        <4>2. n.revision \in Nat
          BY <1>1, Numbers DEF IsAsk
        <4> QED BY <1>1, <4>1, <4>2
      <3> QED BY <2>1, <2>3, <3>1, <3>2 DEF UnderWay, AtCall, Starts, IsAsk
    <2> QED BY <1>4, <1>8, <2>1, <2>3, <2>4 DEF Starts
  <1>11. CASE ApplyStarts(c, m, pc')
    <2>1. /\ IsAnswer(m) /\ m.revision = pc.revision /\ pc.signaling = "have-local-offer"
          /\ pc'.revision = pc.revision /\ pc'.queued = pc.queued /\ pc'.current = m.offer
          /\ Starts(pc', {"setRemoteAnswer"})
      BY <1>11 DEF ApplyStarts, IsAnswer, Keeps
    <2>2. pc'.needsAnswer = pc.needsAnswer
      BY <1>11 DEF ApplyStarts
    <2>3. m \in Stream
      BY <1>1, <2>1 DEF IsAsk, IsAnswer
    <2>4. Fits(m) /\ m.revision <= server.revision
      BY <2>1, <2>3 DEF Matching, Seen, Live
    <2>5. Seen' /\ OffersOpen' /\ (\A n \in Live : Fits(n))' /\ Crossing' /\ Fresh'
      BY <1>3, <2>1, <2>2, StayStep
    <2>6. UnderWay'
      BY <1>3, <2>1, <2>4 DEF UnderWay, AtCall, Starts, Fits
    <2> QED BY <1>4, <2>1, <2>5, <2>6 DEF Starts
  <1> QED BY <1>6, <1>7, <1>9, <1>10, <1>11, HandleCases

LEMMA RestKeeps ==
    ASSUME TInv, Locked, Linked(pc.todo)
    PROVE  /\ Rest \in Connections /\ Keeps(Rest, pc) /\ Rest.revision = pc.revision
           /\ Rest.current = pc.current /\ Rest.queued = pc.queued
           /\ Rest.needsAnswer = pc.needsAnswer
           /\ Linked(Rest.todo) /\ Head(pc.todo) = pc.todo[1] /\ pc.todo # <<>>
           /\ Rest.todo # <<>> => Rest.todo[1] \in Follows(pc.todo[1])
  <1>1. pc.todo \in Seq(Calls) /\ pc.todo # <<>> /\ pc \in Connections
    BY DEF TInv, TypeOK, Connections, Locked
  <1>2. /\ Rest \in Connections /\ Rest.todo = Tail(pc.todo) /\ Rest.queued = pc.queued
    BY RestType DEF TInv
  <1>3. Keeps(Rest, pc) /\ Rest.revision = pc.revision /\ Rest.current = pc.current
    BY <1>1 DEF Rest, Connections, Keeps
  <1>4. Rest.needsAnswer = pc.needsAnswer
    BY RestFields DEF TInv
  <1> QED BY <1>1, <1>2, <1>3, <1>4, LinkedTail

LEMMA SameInTurn ==
    ASSUME Matching, UNCHANGED <<waiting, toClient>>, pc'.queued \in {pc.queued, None}
    PROVE  InTurn' /\ Stream' = Stream
  <1>1. Stream' = Stream
    BY DEF Stream
  <1>2. Rising(waiting') /\ Rising(toClient') /\ Earlier(Elems(waiting'), Elems(toClient'))
    BY DEF Matching, InTurn, Rising, Earlier, Elems
  <1>3. Earlier({pc'.queued}, Stream)
    BY DEF Matching, InTurn, Earlier, IsAsk
  <1> QED BY <1>1, <1>2, <1>3 DEF InTurn

\* A call of a chain that leaves the network and the revision alone.
LEMMA ChainStep ==
    ASSUME TInv, TInv', Matching, UNCHANGED <<waiting, toClient, server, toServer>>,
           pc'.offer = pc.offer, pc'.revision = pc.revision,
           pc'.signaling = "have-local-offer" => pc.signaling = "have-local-offer",
           pc'.stable \in {pc.stable, pc.revision}, pc'.queued \in {pc.queued, None},
           \/ pc'.needsAnswer \/ ~pc.needsAnswer
           \/ pc'.stable = pc.revision /\ pc.revision <= server.revision
           \/ /\ pc.revision <= server.revision
              /\ \A m \in Stream : IsAsk(m) => m.revision > pc.revision,
           Linked(pc'.todo), UnderWay'
    PROVE  Matching'
  <1>1. InTurn' /\ Stream' = Stream
    BY SameInTurn
  <1>2. Seen' /\ OffersOpen' /\ (\A m \in Live : Fits(m))' /\ Crossing' /\ Fresh'
    BY <1>1, StayStep
  <1> QED BY <1>1, <1>2 DEF Matching

LEMMA EmptyReady ==
    ASSUME NEW todo, todo = <<>> PROVE Linked(todo) /\ Ready(todo)
  BY DEF Linked, Ready

LEMMA BeginMatching ==
    ASSUME TInv, TInv', Matching, Begin
    PROVE  Closed' \/ Matching'
  <1> DEFINE m == Head(waiting)
  <1>1. /\ pc \in Connections /\ pc.todo = <<>> /\ waiting # <<>>
        /\ waiting' = Tail(waiting) /\ UNCHANGED <<toClient, server, toServer>>
    BY DEF Begin, Locked, network, TInv, TypeOK
  <1>2. /\ Stream' \subseteq Stream /\ m \in Stream /\ Earlier({m}, Stream')
        /\ Rising(waiting)' /\ Rising(toClient)'
        /\ Earlier(Elems(waiting), Elems(toClient))'
    BY <1>1, StreamStep DEF Matching
  <1>3. Linked(pc.todo) /\ Ready(pc.todo)
    BY <1>1, EmptyReady
  <1>4. \/ pc' = pc \/ pc' = Offering(pc) \/ pc' = Closing
        \/ m # None /\ m.type # "close" /\ pc' = Handle(pc, m)
    BY DEF Begin
  <1> HIDE DEF m
  <1>5. Earlier({pc.queued}, Stream')
    BY <1>2 DEF Matching, InTurn, Earlier
  <1>6. CASE pc' = Closing
    <2>1. Closing.signaling = "closed"
      BY <1>1 DEF Closing, Connections
    <2> QED BY <1>6, <2>1 DEF Closed
  <1>7. CASE pc' = pc
    <2>1. Seen' /\ OffersOpen' /\ (\A n \in Live : Fits(n))' /\ Crossing' /\ Fresh'
      BY <1>1, <1>2, <1>7, StayStep
    <2>2. UnderWay'
      BY <1>1, <1>7 DEF UnderWay, AtCall
    <2>3. Linked(pc.todo)' /\ Earlier({pc.queued}, Stream)'
      BY <1>3, <1>5, <1>7
    <2> QED BY <1>2, <2>1, <2>2, <2>3 DEF Matching, InTurn
  <1>8. CASE pc' = Offering(pc)
    <2>1. /\ Keeps(pc', pc) /\ pc'.revision = pc.revision /\ pc'.queued = pc.queued
          /\ Starts(pc', {"createOffer"})
      BY <1>1, <1>3, <1>8, OfferingKeeps
    <2>2. pc'.needsAnswer
      BY <1>1, <1>8, OfferingType
    <2>3. Seen' /\ OffersOpen' /\ (\A n \in Live : Fits(n))' /\ Crossing' /\ Fresh'
      BY <1>1, <1>2, <2>1, <2>2, StayStep DEF Keeps
    <2>4. UnderWay'
      BY <2>1, <2>2 DEF UnderWay, AtCall, Starts
    <2>5. Linked(pc.todo)' /\ Earlier({pc.queued}, Stream)'
      BY <1>5, <2>1 DEF Starts
    <2> QED BY <1>2, <2>3, <2>4, <2>5 DEF Matching, InTurn
  <1>9. CASE m # None /\ m.type # "close" /\ pc' = Handle(pc, m)
    <2>1. m \in Messages
      BY <1>2, <1>9, Numbers
    <2>2. Keeps(pc, pc)
      BY DEF Keeps
    <2>3. /\ Linked(pc.todo)' /\ Earlier({pc.queued}, Stream)'
          /\ Seen' /\ OffersOpen' /\ (\A n \in Live : Fits(n))' /\ Crossing' /\ Fresh'
          /\ UnderWay'
      BY <1>1, <1>2, <1>3, <1>9, <2>1, <2>2, HandleStep
    <2> QED BY <1>2, <2>3 DEF Matching, InTurn
  <1> QED BY <1>4, <1>6, <1>7, <1>8, <1>9

\* An offer is sent: it goes beyond all that is to be answered.
LEMMA SetOfferMatching ==
    ASSUME TInv, TInv', Matching, SetOffer
    PROVE  Matching'
  <1> DEFINE sent == Sent("offer")
  <1>1. /\ Locked /\ Head(pc.todo) = "setOffer"
        /\ UNCHANGED <<waiting, toClient, server>>
        /\ toServer' = Append(toServer, sent)
        /\ pc' = [Rest EXCEPT !.signaling = "have-local-offer", !.local = "offer",
                              !.revision = @ + 1, !.offer = @ + 1, !.tracks = pc.draft]
    BY DEF SetOffer, Runs
  <1>2. /\ pc.revision \in Nat /\ pc.stable \in Nat /\ pc.offer \in Nat
        /\ Live \subseteq Messages /\ \A m \in Messages : m.revision \in Nat
    BY Numbers
  <1>3. /\ Rest \in Connections /\ Keeps(Rest, pc) /\ Rest.revision = pc.revision
        /\ Rest.queued = pc.queued /\ Linked(Rest.todo) /\ pc.todo # <<>>
        /\ pc.todo[1] = "setOffer"
        /\ Rest.todo # <<>> => Rest.todo[1] \in Follows("setOffer")
    BY <1>1, RestKeeps DEF Matching
  <1>4. /\ pc'.revision = pc.revision + 1 /\ pc'.offer = pc.offer + 1
        /\ pc'.stable = pc.stable /\ pc'.queued = pc.queued /\ pc'.todo = Rest.todo
    BY <1>1, <1>3 DEF Connections, Keeps
  <1>5. pc'.needsAnswer
    <2>1. pc.needsAnswer
      BY <1>3 DEF Matching, UnderWay, AtCall
    <2>2. Rest.needsAnswer = pc.needsAnswer
      BY <1>1, RestKeeps DEF Matching
    <2>3. pc'.needsAnswer = Rest.needsAnswer
      BY <1>1, <1>3 DEF Connections
    <2> QED BY <2>1, <2>2, <2>3
  <1>6. InTurn' /\ Stream' = Stream
    BY <1>1, <1>4, SameInTurn
  <1>7. sent.type = "offer" /\ sent.revision = pc'.revision /\ sent.offer = pc'.offer
        /\ sent \in Messages
    <2>1. pc' \in Connections
      BY DEF TInv, TypeOK
    <2> QED BY <2>1, SentType DEF Sent
  <1> HIDE DEF sent
  <1>8. /\ Len(toServer') = Len(toServer) + 1 /\ Len(toServer) \in Nat
        /\ \A i \in 1..Len(toServer) : toServer'[i] = toServer[i]
        /\ toServer'[Len(toServer) + 1] = sent
        /\ Elems(toServer') = Elems(toServer) \cup {sent}
    <2>1. toServer \in Seq(Messages) /\ sent \in Messages
      BY <1>7 DEF TInv, TypeOK
    <2>2. toServer' = Append(toServer, sent)
      BY <1>1, <1>7
    <2>3. Elems(toServer') = Elems(toServer) \cup {sent}
      BY <2>1, <2>2, ElemsOf
    <2> QED BY <2>1, <2>2, <2>3, AppendProperties
  <1>9. \A r : Unanswered(r) => Unanswered(r)'
    BY <1>1, <1>7, <1>8 DEF Unanswered
  <1>10. Seen' /\ OffersOpen' /\ Crossing'
    <2>1. Seen'
      BY <1>1, <1>4, <1>5, <1>6, <1>7, <1>8 DEF Matching, Seen
    <2>2. OffersOpen'
      BY <1>4, <1>6, <1>9 DEF Matching, OffersOpen
    <2>3. Crossing'
      BY <1>1, <1>6 DEF Matching, Crossing
    <2> QED BY <2>1, <2>2, <2>3
  <1>11. (\A m \in Live : Fits(m))'
    <2>1. HeardOffers' \subseteq HeardOffers \cup {sent}
      <3> SUFFICES ASSUME NEW i \in 1..Len(toServer'), Heard(i)', i # Len(toServer) + 1
          PROVE  toServer'[i] \in HeardOffers
        BY <1>8 DEF HeardOffers
      <3>1. i \in 1..Len(toServer) /\ toServer'[i] = toServer[i]
        BY <1>8
      <3>2. \A j \in 1..(i - 1) : toServer'[j] = toServer[j]
        BY <1>8, <3>1
      <3>3. Heard(i)
        BY <1>1, <3>1, <3>2 DEF Heard
      <3> QED BY <3>1, <3>3 DEF HeardOffers
    <2>2. Live' \subseteq Live \cup {sent}
      BY <1>1, <1>6, <2>1 DEF Live
    <2> SUFFICES ASSUME NEW m \in Live' PROVE Fits(m)'
      OBVIOUS
    <2>3. CASE m = sent
      <3>1. sent.revision <= pc'.revision
        BY <1>2, <1>4, <1>7
      <3> QED BY <1>7, <2>3, <3>1 DEF Fits
    <2>4. CASE m \in Live
      <3>1. m.revision \in Nat /\ m.revision <= pc.revision
        BY <1>2, <2>4 DEF Matching, Fits
      <3>2. m.revision < pc'.revision
        BY <1>2, <1>4, <3>1
      <3> QED BY <1>2, <1>4, <3>1, <3>2 DEF Fits
    <2> QED BY <2>2, <2>3, <2>4
  <1>12. Fresh'
    BY <1>2, <1>4, <1>5 DEF Matching, Fresh
  <1>13. UnderWay'
    <2>1. Ready(pc'.todo)
      BY <1>3, <1>4 DEF Ready, Follows
    <2> QED BY <2>1 DEF Ready, Tails, UnderWay, AtCall
  <1> QED BY <1>3, <1>4, <1>6, <1>10, <1>11, <1>12, <1>13 DEF Matching

\* An answer is sent: what the server will answer after it comes after it.
LEMMA SetAnswerMatching ==
    ASSUME TInv, TInv', Matching, SetAnswer
    PROVE  Matching'
  <1> DEFINE sent == Sent("answer")
  <1>1. /\ Locked /\ Head(pc.todo) = "setAnswer"
        /\ UNCHANGED <<waiting, toClient, server>>
        /\ toServer' = Append(toServer, sent)
    BY DEF SetAnswer, Runs
  <1>2. /\ pc.revision \in Nat /\ pc.stable \in Nat
        /\ Live \subseteq Messages /\ \A m \in Messages : m.revision \in Nat
        /\ Stream \subseteq Messages \cup {None} /\ server.revision \in Nat
        /\ pc.queued # None => pc.queued \in Messages
    BY Numbers
  <1>3. /\ Rest \in Connections /\ Keeps(Rest, pc) /\ Rest.revision = pc.revision
        /\ Rest.queued = pc.queued /\ Linked(Rest.todo) /\ pc.todo # <<>>
        /\ pc.todo[1] = "setAnswer"
        /\ Rest.todo # <<>> => Rest.todo[1] \in Follows("setAnswer")
    BY <1>1, RestKeeps DEF Matching
  <1>4. PICK carried \in {pc.tracks, tracks} :
           pc' = [Rest EXCEPT !.signaling = "stable", !.local = "answer",
                              !.stable = pc.revision, !.tracks = carried]
    BY DEF SetAnswer
  <1>5. /\ pc'.revision = pc.revision /\ pc'.offer = pc.offer /\ pc'.signaling = "stable"
        /\ pc'.stable = pc.revision /\ pc'.queued = pc.queued /\ pc'.todo = Rest.todo
    BY <1>3, <1>4 DEF Connections, Keeps
  <1>6. pc'.needsAnswer = pc.needsAnswer
    <2>1. Rest.needsAnswer = pc.needsAnswer
      BY <1>1, RestKeeps DEF Matching
    <2>2. pc'.needsAnswer = Rest.needsAnswer
      BY <1>3, <1>4 DEF Connections
    <2> QED BY <2>1, <2>2
  <1>7. Unanswered(pc.revision)
    BY <1>3 DEF Matching, UnderWay, AtCall
  <1>8. InTurn' /\ Stream' = Stream
    BY <1>1, <1>5, SameInTurn
  <1>9. sent.type = "answer" /\ sent.revision = pc.revision /\ sent \in Messages
    <2>1. pc' \in Connections
      BY DEF TInv, TypeOK
    <2> QED BY <1>5, <2>1, SentType DEF Sent
  <1> HIDE DEF sent
  <1>10. /\ Len(toServer') = Len(toServer) + 1 /\ Len(toServer) \in Nat
         /\ \A i \in 1..Len(toServer) : toServer'[i] = toServer[i]
         /\ toServer'[Len(toServer) + 1] = sent
         /\ Elems(toServer') = Elems(toServer) \cup {sent}
    BY <1>1, <1>9, AppendProperties, ElemsOf DEF TInv, TypeOK
  <1>11. Seen'
    <2>1. sent.revision <= server.revision
      BY <1>7, <1>9 DEF Matching, Seen, Unanswered
    <2> QED BY <1>1, <1>5, <1>6, <1>8, <1>10, <2>1 DEF Matching, Seen
  <1>12. OffersOpen'
    <2> SUFFICES ASSUME NEW m \in Stream \cup {pc.queued}, IsAsk(m), m.type = "offer",
                        m.revision > pc.revision
        PROVE  FALSE
      BY <1>5, <1>8 DEF OffersOpen
    <2>1. m.revision \in Nat
      BY <1>2 DEF IsAsk
    <2>2. m.revision > pc.stable
      BY <1>2, <2>1 DEF Matching, Fresh
    <2>3. server.expects = m.revision /\ server.expects = pc.revision
      BY <1>7, <2>2 DEF Matching, OffersOpen, Unanswered
    <2> QED BY <1>2, <2>1, <2>3
  <1>13. Crossing'
    BY <1>1, <1>8 DEF Matching, Crossing
  <1>14. (\A m \in Live : Fits(m))'
    <2>1. HeardOffers' \subseteq HeardOffers
      <3> SUFFICES ASSUME NEW i \in 1..Len(toServer'), Heard(i)'
          PROVE  toServer'[i] \in HeardOffers
        BY DEF HeardOffers
      <3>1. i # Len(toServer) + 1
        BY <1>9, <1>10 DEF Heard
      <3>2. i \in 1..Len(toServer) /\ toServer'[i] = toServer[i]
        BY <1>10, <3>1
      <3>3. \A j \in 1..(i - 1) : toServer'[j] = toServer[j]
        BY <1>10, <3>2
      <3>4. Heard(i)
        BY <1>1, <3>2, <3>3 DEF Heard
      <3> QED BY <3>2, <3>4 DEF HeardOffers
    <2>2. Live' \subseteq Live
      BY <1>1, <1>8, <2>1 DEF Live
    <2> QED BY <1>5, <2>2 DEF Matching, Fits
  <1>15. Fresh'
    BY <1>2, <1>5, <1>8 DEF Fresh, IsAsk
  <1>16. UnderWay'
    BY <1>3, <1>5 DEF Follows, UnderWay, AtCall
  <1> QED BY <1>3, <1>5, <1>8, <1>11, <1>12, <1>13, <1>14, <1>15, <1>16 DEF Matching

LEMMA ProceedMatching ==
    ASSUME TInv, TInv', Matching, Proceed
    PROVE  Matching'
  <1>1. CASE SetOffer
    BY <1>1, SetOfferMatching
  <1>2. CASE SetAnswer
    BY <1>2, SetAnswerMatching
  <1> SUFFICES ASSUME CreateOffer \/ Rollback \/ SetRemoteOffer \/ SetRemoteAnswer
                      \/ Drain \/ Drained \/ MaybeReoffer \/ Reoffer \/ Refuse
      PROVE  Matching'
    BY <1>1, <1>2 DEF Proceed
  <1>3. Locked /\ UNCHANGED <<waiting, toClient, server, toServer>>
    BY DEF CreateOffer, Rollback, SetRemoteOffer, SetRemoteAnswer, Drain, Drained,
           MaybeReoffer, Reoffer, Refuse, Runs, network
  <1>4. /\ Rest \in Connections /\ Keeps(Rest, pc) /\ Rest.revision = pc.revision
        /\ Rest.current = pc.current /\ Rest.queued = pc.queued
        /\ Linked(Rest.todo) /\ Head(pc.todo) = pc.todo[1] /\ pc.todo # <<>>
        /\ Rest.todo # <<>> => Rest.todo[1] \in Follows(pc.todo[1])
    BY <1>3, RestKeeps DEF Matching
  <1>5. Rest.needsAnswer = pc.needsAnswer
    BY <1>3, RestKeeps DEF Matching
  <1>6. Rest.stable = pc.stable /\ Rest.offer = pc.offer /\ Rest.signaling = pc.signaling
    BY <1>4 DEF Keeps
  <1>7. pc.todo[1] \in {"drain", "drained", "maybeReoffer", "reoffer"} =>
           Ready(Rest.todo)
    BY <1>4 DEF Ready, Follows
  <1>8. pc \in Connections /\ pc.revision \in Nat
    BY DEF TInv, TypeOK, Connections
  <1>9. CASE CreateOffer
    <2>1. pc.todo[1] = "createOffer"
          /\ pc' = [Rest EXCEPT !.shouldOffer = FALSE, !.draft = tracks]
      BY <1>4, <1>9 DEF CreateOffer, Runs
    <2>2. /\ pc'.revision = pc.revision /\ pc'.stable = pc.stable /\ pc'.offer = pc.offer
          /\ pc'.queued = pc.queued /\ pc'.signaling = pc.signaling /\ pc'.todo = Rest.todo
      BY <1>4, <1>6, <2>1 DEF Connections
    <2>3. pc'.needsAnswer = Rest.needsAnswer
      BY <1>4, <2>1 DEF Connections
    <2>4. pc'.needsAnswer
      BY <1>4, <1>5, <2>1, <2>3 DEF Matching, UnderWay, AtCall
    <2>5. UnderWay'
      BY <1>4, <2>1, <2>2, <2>4 DEF UnderWay, AtCall, Follows
    <2> QED BY <1>3, <1>4, <2>2, <2>4, <2>5, ChainStep
  <1>10. CASE Rollback
    <2>1. pc.todo[1] = "rollback"
          /\ pc' = [Rest EXCEPT !.signaling = "stable", !.needsAnswer = FALSE]
      BY <1>4, <1>10 DEF Rollback, Runs
    <2>2. /\ pc'.revision = pc.revision /\ pc'.stable = pc.stable /\ pc'.offer = pc.offer
          /\ pc'.queued = pc.queued /\ pc'.signaling = "stable" /\ pc'.todo = Rest.todo
      BY <1>4, <1>6, <2>1 DEF Connections
    <2>3. /\ Unanswered(pc.revision) /\ pc.revision <= server.revision
          /\ \A m \in Stream : IsAsk(m) => m.revision > pc.revision
      BY <1>4, <2>1 DEF Matching, UnderWay, AtCall
    <2>4. Unanswered(pc.revision)'
      BY <1>3, <2>2, <2>3 DEF Unanswered, Elems
    <2>5. UnderWay'
      BY <1>4, <2>1, <2>2, <2>4 DEF UnderWay, AtCall, Follows
    <2> QED BY <1>3, <1>4, <2>2, <2>3, <2>5, ChainStep
  <1>11. CASE SetRemoteOffer
    <2>1. pc.todo[1] = "setRemoteOffer"
          /\ pc' = [Rest EXCEPT !.signaling = "have-remote-offer"]
      BY <1>4, <1>11 DEF SetRemoteOffer, Runs
    <2>2. /\ pc'.revision = pc.revision /\ pc'.stable = pc.stable /\ pc'.offer = pc.offer
          /\ pc'.queued = pc.queued /\ pc'.signaling = "have-remote-offer"
          /\ pc'.todo = Rest.todo
      BY <1>4, <1>6, <2>1 DEF Connections
    <2>3. pc'.needsAnswer = pc.needsAnswer
      BY <1>4, <1>5, <2>1 DEF Connections
    <2>4. Unanswered(pc.revision)
      BY <1>4, <2>1 DEF Matching, UnderWay, AtCall
    <2>5. Unanswered(pc.revision)'
      BY <1>3, <2>2, <2>4 DEF Unanswered, Elems
    <2>6. UnderWay'
      BY <1>4, <2>1, <2>2, <2>5 DEF UnderWay, AtCall, Follows
    <2> QED BY <1>3, <1>4, <2>2, <2>3, <2>6, ChainStep
  <1>12. CASE SetRemoteAnswer
    <2>1. pc.todo[1] = "setRemoteAnswer"
          /\ pc' = [Rest EXCEPT !.signaling = "stable", !.stable = pc.revision,
                                !.needsAnswer = FALSE, !.isRestartingIce = FALSE]
      BY <1>4, <1>12 DEF SetRemoteAnswer, Runs
    <2>2. /\ pc'.revision = pc.revision /\ pc'.stable = pc.revision /\ pc'.offer = pc.offer
          /\ pc'.queued = pc.queued /\ pc'.signaling = "stable" /\ pc'.todo = Rest.todo
      BY <1>4, <1>6, <2>1 DEF Connections
    <2>3. pc.revision <= server.revision
      BY <1>4, <2>1 DEF Matching, UnderWay, AtCall
    <2>4. UnderWay'
      BY <1>4, <2>1, <2>2 DEF UnderWay, AtCall, Follows
    <2> QED BY <1>3, <1>4, <2>2, <2>3, <2>4, ChainStep
  <1>13. CASE Drain
    <2>1. pc.todo[1] = "drain" /\ Ready(Rest.todo)
      BY <1>4, <1>7, <1>13 DEF Drain, Runs
    <2>2. CASE pc.queued = None
      <3>1. pc' = Rest
        BY <1>13, <2>2 DEF Drain
      <3>2. UnderWay'
        BY <2>1, <3>1 DEF Ready, Tails, UnderWay, AtCall
      <3> QED BY <1>3, <1>4, <1>5, <1>6, <3>1, <3>2, ChainStep
    <2>3. CASE pc.queued # None
      <3> DEFINE d == First(Rest, Drains)
      <3>1. pc' = Handle(d, pc.queued) /\ pc.queued \in Messages /\ pc.queued.type # "close"
        BY <1>8, <1>13, <2>3 DEF Drain, Drains, Connections, TInv, Queues
      <3>2. Drains \in Seq(Calls) /\ Rest.todo \in Seq(Calls)
        BY <1>4, DrainsChain DEF Chain, Connections
      <3>3. /\ d \in Connections /\ Keeps(d, Rest) /\ d.revision = pc.revision
            /\ d.queued = pc.queued /\ d.todo = Drains \o Rest.todo
        BY <1>4, <3>2, FirstType, FirstKeeps
      <3>4. d.needsAnswer = pc.needsAnswer
        BY <1>4, <1>5, <3>2, FirstType
      <3>5. Linked(d.todo) /\ Ready(d.todo)
        BY <1>4, <2>1, <3>2, <3>3, ChainsLinked DEF Ready, Tails
      <3>6. Keeps(d, pc)
        BY <1>4, <3>3 DEF Keeps
      <3> HIDE DEF d
      <3>7. pc.stable = pc.revision
        BY <1>4, <2>1 DEF Matching, UnderWay, AtCall
      <3>8. Stream' = Stream /\ Rising(waiting)' /\ Rising(toClient)'
            /\ Earlier(Elems(waiting), Elems(toClient))' /\ Earlier({pc.queued}, Stream)
        BY <1>3 DEF Matching, InTurn, Stream, Rising, Earlier, Elems
      <3>9. /\ Linked(pc'.todo) /\ Earlier({pc'.queued}, Stream')
            /\ Seen' /\ OffersOpen' /\ (\A n \in Live : Fits(n))' /\ Crossing' /\ Fresh'
            /\ UnderWay'
        BY <1>3, <2>3, <3>1, <3>3, <3>4, <3>5, <3>6, <3>7, <3>8, HandleStep
      <3> QED BY <3>8, <3>9 DEF Matching, InTurn
    <2> QED BY <2>2, <2>3
  <1>14. CASE Drained
    <2>1. pc.todo[1] = "drained" /\ Ready(Rest.todo) /\ pc' = [Rest EXCEPT !.queued = None]
      BY <1>4, <1>7, <1>14 DEF Drained, Runs
    <2>2. /\ pc'.revision = pc.revision /\ pc'.stable = pc.stable /\ pc'.offer = pc.offer
          /\ pc'.queued = None /\ pc'.signaling = pc.signaling /\ pc'.todo = Rest.todo
      BY <1>4, <1>6, <2>1 DEF Connections
    <2>3. pc'.needsAnswer = pc.needsAnswer
      BY <1>4, <1>5, <2>1 DEF Connections
    <2>4. UnderWay'
      BY <2>1, <2>2 DEF Ready, Tails, UnderWay, AtCall
    <2> QED BY <1>3, <1>4, <2>2, <2>3, <2>4, ChainStep
  <1>15. CASE MaybeReoffer \/ Reoffer
    <2>1. /\ pc.todo[1] \in {"maybeReoffer", "reoffer"} /\ Ready(Rest.todo)
          /\ pc' = Rest \/ pc' = Offering(Rest)
      BY <1>4, <1>7, <1>15 DEF MaybeReoffer, Reoffer, Runs
    <2>2. CASE pc' = Rest
      <3>1. UnderWay'
        BY <2>1, <2>2 DEF Ready, Tails, UnderWay, AtCall
      <3> QED BY <1>3, <1>4, <1>5, <1>6, <2>2, <3>1, ChainStep
    <2>3. CASE pc' = Offering(Rest)
      <3>1. /\ Keeps(pc', Rest) /\ pc'.revision = pc.revision /\ pc'.queued = pc.queued
            /\ Starts(pc', {"createOffer"})
        BY <1>4, <2>1, <2>3, OfferingKeeps
      <3>2. pc'.needsAnswer
        BY <1>4, <2>3, OfferingType
      <3>3. UnderWay'
        BY <3>1, <3>2 DEF UnderWay, AtCall, Starts
      <3> QED BY <1>3, <1>6, <3>1, <3>2, <3>3, ChainStep DEF Keeps, Starts
    <2> QED BY <2>1, <2>2, <2>3
  <1>16. CASE Refuse
    <2>1. pc' = [pc EXCEPT !.todo = <<>>]
      BY <1>16 DEF Refuse, Rejected
    <2>2. /\ pc'.revision = pc.revision /\ pc'.stable = pc.stable /\ pc'.offer = pc.offer
          /\ pc'.queued = pc.queued /\ pc'.signaling = pc.signaling /\ pc'.todo = <<>>
      BY <1>8, <2>1 DEF Connections
    <2>3. pc'.needsAnswer = pc.needsAnswer
      BY <1>8, <2>1 DEF Connections
    <2>4. Linked(pc'.todo) /\ UnderWay'
      BY <2>2, EmptyReady DEF UnderWay, AtCall
    <2> QED BY <1>3, <2>2, <2>3, <2>4, ChainStep
  <1> QED BY <1>9, <1>10, <1>11, <1>12, <1>13, <1>14, <1>15, <1>16

\* Calls that are added to those that await the lock.
LEMMA CallOfferMatching ==
    ASSUME TInv, TInv', Matching, UNCHANGED <<toClient, server, toServer>>,
           NEW c \in Connections, Keeps(c, pc), c.revision = pc.revision,
           c.current = pc.current, c.queued = pc.queued, c.todo = pc.todo,
           c.needsAnswer = pc.needsAnswer, CallOffer(c)
    PROVE  Matching'
  <1>1. waiting' = waiting \/ waiting' = Append(waiting, None)
    BY DEF CallOffer
  <1>2. \/ pc' = c
        \/ pc' = [c EXCEPT !.shouldOffer = TRUE]
    BY DEF CallOffer
  <1>3. /\ pc'.stable = pc.stable /\ pc'.offer = pc.offer /\ pc'.signaling = pc.signaling
        /\ pc'.revision = pc.revision /\ pc'.current = pc.current
        /\ pc'.queued = pc.queued /\ pc'.todo = pc.todo
    BY <1>2 DEF Keeps, Connections
  <1>4. pc'.needsAnswer = pc.needsAnswer
    BY <1>2 DEF Connections
  <1>5. /\ Stream' \subseteq Stream \cup {None}
        /\ Rising(waiting)' /\ Rising(toClient)'
        /\ Earlier(Elems(waiting), Elems(toClient))'
    BY <1>1, StreamStep DEF Matching
  <1>6. Seen' /\ OffersOpen' /\ (\A n \in Live : Fits(n))' /\ Crossing' /\ Fresh'
    BY <1>3, <1>4, <1>5, StayStep
  <1>7. UnderWay'
    <2>1. Unanswered(pc.revision) => Unanswered(pc.revision)'
      BY <1>3 DEF Unanswered, Elems
    <2>2. \A m \in Stream' : IsAsk(m) => m \in Stream
      BY <1>5 DEF IsAsk
    <2>3. AtCall(pc, {"createOffer", "setOffer"})' => pc'.needsAnswer
      BY <1>3, <1>4 DEF Matching, UnderWay, AtCall
    <2> QED BY <1>3, <2>1, <2>2, <2>3 DEF Matching, UnderWay, AtCall, IsAsk
  <1>8. Earlier({pc.queued}, Stream)'
    BY <1>3, <1>5 DEF Matching, InTurn, Earlier, IsAsk
  <1>9. Linked(pc.todo)'
    BY <1>3 DEF Matching
  <1> QED BY <1>5, <1>6, <1>7, <1>8, <1>9 DEF Matching, InTurn

LEMMA ReceiveMatching ==
    ASSUME TInv, TInv', Matching, Receive, ~Closed
    PROVE  Matching'
  <1> DEFINE m == Head(toClient)
  <1>1. /\ toClient # <<>> /\ toClient' = Tail(toClient) /\ waiting' = Append(waiting, m)
        /\ UNCHANGED <<pc, server, toServer>>
    BY DEF Receive
  <1>2. toClient \in Seq(Messages) /\ waiting \in Seq(Messages \cup {None})
    BY DEF TInv, TypeOK
  <1>3. m \in Messages /\ m \in Elems(toClient)
        /\ Elems(toClient) = {m} \cup Elems(toClient')
    BY <1>1, <1>2, HeadTailProperties, ElemsOf
  <1>4. Elems(waiting') = Elems(waiting) \cup {m}
    BY <1>1, <1>2, <1>3, ElemsOf
  <1>5. Rising(toClient') /\ Earlier({m}, Elems(toClient'))
    BY <1>1, <1>2, RisingTail DEF Matching, InTurn
  <1>6. Rising(waiting')
    <2>1. Earlier(Elems(waiting), {m}) /\ m \in Messages \cup {None}
      BY <1>3 DEF Matching, InTurn, Earlier
    <2> QED BY <1>1, <1>2, <2>1, RisingAppend DEF Matching, InTurn
  <1>7. Earlier(Elems(waiting'), Elems(toClient'))
    BY <1>3, <1>4, <1>5 DEF Matching, InTurn, Earlier
  <1>8. Stream' = Stream
    BY <1>3, <1>4 DEF Stream
  <1> HIDE DEF m
  <1>9. Seen' /\ OffersOpen' /\ (\A n \in Live : Fits(n))' /\ Crossing' /\ Fresh'
    BY <1>1, <1>8, StayStep
  <1>10. UnderWay'
    BY <1>1, <1>8 DEF Matching, UnderWay, AtCall, Unanswered, Elems
  <1>11. Earlier({pc.queued}, Stream)'
    BY <1>1, <1>8 DEF Matching, InTurn
  <1>12. Linked(pc.todo)'
    BY <1>1 DEF Matching
  <1> QED BY <1>5, <1>6, <1>7, <1>9, <1>10, <1>11, <1>12 DEF Matching, InTurn

\* The server takes a message: what it will answer it would have answered.
LEMMA ServerReceiveMatching ==
    ASSUME TInv, TInv', Matching, ServerReceive
    PROVE  Matching'
  <1> DEFINE m == Head(toServer)
  <1>1. toServer # <<>> /\ toServer' = Tail(toServer) /\ UNCHANGED <<pc, waiting, toClient>>
    BY DEF ServerReceive
  <1>2. toServer \in Seq(Messages) /\ m \in Messages
    BY <1>1, HeadTailProperties DEF TInv, TypeOK
  <1>3. m \in Elems(toServer) /\ Elems(toServer') \subseteq Elems(toServer)
    BY <1>1, <1>2, ElemsOf
  <1>4. /\ m = toServer[1] /\ Len(toServer) \in Nat /\ 1 \in 1..Len(toServer)
        /\ Len(toServer') = Len(toServer) - 1
        /\ \A i \in 1..(Len(toServer) - 1) : toServer'[i] = toServer[i + 1]
    BY <1>1, <1>2, HeadTailProperties
  <1>5. server \in Servers /\ m.revision \in Nat /\ m.tracks \in Nat
        /\ server.revision \in Nat
    BY <1>2 DEF TInv, TypeOK, Messages, Servers
  <1> DEFINE seen == [server EXCEPT !.revision = Higher(@, m.revision)]
             Owed == m.type = "offer" /\ (m.revision = 1 \/ server.expects = 0)
             Expected == m.type = "answer" /\ m.revision = server.expects
  <1>6. /\ Owed => server' = [seen EXCEPT !.owes = m]
        /\ ~Owed /\ Expected => server' = [seen EXCEPT !.expects = 0, !.stable = m.revision,
                                                       !.tracks = m.tracks]
        /\ ~Owed /\ ~Expected => server' = seen
    BY DEF ServerReceive
  <1>7. seen \in Servers /\ seen.expects = server.expects /\ seen.owes = server.owes
        /\ server.revision <= seen.revision /\ m.revision <= seen.revision
    BY <1>5 DEF Higher, Servers
  <1> HIDE DEF m, seen
  <1>8. /\ server'.revision = seen.revision
        /\ ~Expected => server'.expects = server.expects
        /\ Expected => server'.expects = 0
        /\ Owed => server'.owes = m
        /\ ~Owed => server'.owes = server.owes
    BY <1>2, <1>6, <1>7 DEF Servers
  <1>9. Stream' = Stream
    BY <1>1 DEF Stream
  <1>10. Owed => m \in HeardOffers
    <2>1. Owed => Heard(1)
      BY <1>4 DEF Heard
    <2> QED BY <1>4, <2>1 DEF HeardOffers
  <1>11. HeardOffers' \subseteq HeardOffers
    <2> SUFFICES ASSUME NEW i \in 1..Len(toServer'), Heard(i)'
        PROVE  toServer'[i] \in HeardOffers
      BY DEF HeardOffers
    <2>1. i + 1 \in 1..Len(toServer) /\ toServer'[i] = toServer[i + 1]
      BY <1>4
    <2>2. Heard(i + 1)
      <3>1. CASE Expected
        <4>1. 1 \in 1..((i + 1) - 1)
          OBVIOUS
        <4> QED BY <1>4, <2>1, <3>1, <4>1 DEF Heard
      <3>2. ASSUME ~Expected, NEW j \in 1..(i - 1), toServer'[j].type = "answer",
                   toServer'[j].revision = server'.expects
            PROVE  Heard(i + 1)
        <4>1. j \in 1..(Len(toServer) - 1) /\ j + 1 \in 1..((i + 1) - 1)
          BY <1>4, <2>1
        <4>2. toServer'[j] = toServer[j + 1]
          BY <1>4, <4>1
        <4> QED BY <1>8, <2>1, <3>2, <4>1, <4>2 DEF Heard
      <3>3. CASE ~Expected
        BY <1>8, <2>1, <3>2, <3>3 DEF Heard
      <3> QED BY <3>1, <3>3
    <2> QED BY <2>1, <2>2 DEF HeardOffers
  <1>12. Live' \subseteq Live
    BY <1>8, <1>9, <1>10, <1>11 DEF Live
  <1>13. \A r : Unanswered(r) => Unanswered(r)'
    BY <1>3, <1>8 DEF Unanswered
  <1>14. Seen'
    <2>1. server.revision <= server'.revision /\ server'.revision \in Nat
          /\ server'.expects \in Nat /\ server.expects \in Nat
      BY <1>5, <1>7, <1>8 DEF TInv, TypeOK, Servers
    <2>2. \A n \in Messages : n.revision <= server.revision => n.revision <= server'.revision
      BY <1>5, <2>1, Numbers
    <2>3. \A n \in Stream \cup {pc.queued} : IsAsk(n) \/ IsAnswer(n) =>
             n.revision <= server'.revision
      BY <2>2, Numbers DEF Matching, Seen, IsAsk, IsAnswer
    <2>4. server'.owes # None => server'.owes.revision <= server'.revision
      BY <1>7, <1>8, <2>2, Numbers DEF Matching, Seen
    <2>5. \A n \in Elems(toServer') : n.type = "answer" => n.revision <= server'.revision
      BY <1>3, <2>2, Numbers DEF Matching, Seen
    <2>6. server'.expects <= server'.revision
      BY <1>5, <1>8, <2>1 DEF Matching, Seen
    <2>7. ~pc.needsAnswer => pc.revision <= server'.revision
      BY <1>5, <2>1, Numbers DEF Matching, Seen
    <2> QED BY <1>1, <1>9, <2>3, <2>4, <2>5, <2>6, <2>7 DEF Seen
  <1>15. OffersOpen'
    BY <1>1, <1>9, <1>13 DEF Matching, OffersOpen
  <1>16. (\A n \in Live : Fits(n))'
    BY <1>1, <1>12 DEF Matching, Fits
  <1>17. Crossing'
    <2> SUFFICES ASSUME server'.expects # 0
        PROVE  /\ server'.expects > 1
               /\ \A n \in ({server'.owes} \ {None}) \cup {k \in Stream : IsAnswer(k)} :
                     n.revision < server'.expects
      BY <1>9 DEF Crossing
    <2>1. server'.expects = server.expects
      BY <1>8
    <2>2. Owed => m.revision < server.expects
      BY <2>1 DEF Matching, Crossing
    <2> QED BY <1>8, <2>1, <2>2 DEF Matching, Crossing
  <1>18. InTurn' /\ Fresh'
    BY <1>1, <1>9 DEF Matching, InTurn, Fresh, Rising, Earlier, Elems
  <1>19. UnderWay'
    <2>1. pc.revision <= server.revision => pc.revision <= server'.revision
      <3>1. server'.revision \in Nat /\ pc.revision \in Nat
        BY Numbers DEF TInv, TypeOK, Servers
      <3> QED BY <1>5, <1>7, <1>8, <3>1
    <2> QED BY <1>1, <1>9, <1>13, <2>1 DEF Matching, UnderWay, AtCall
  <1> QED BY <1>1, <1>14, <1>15, <1>16, <1>17, <1>18, <1>19 DEF Matching

\* A message of the server comes after all that are under way.
LEMMA SaysInTurn ==
    ASSUME TInv, InTurn, UNCHANGED <<pc, waiting>>, NEW e \in Messages,
           toClient' = Append(toClient, e),
           IsAsk(e) => \A m \in Stream \cup {pc.queued} : IsAsk(m) => m.revision < e.revision
    PROVE  InTurn' /\ Stream' = Stream \cup {e}
  <1>1. toClient \in Seq(Messages)
    BY DEF TInv, TypeOK
  <1>2. Elems(toClient') = Elems(toClient) \cup {e} /\ Elems(waiting') = Elems(waiting)
    BY <1>1, ElemsOf DEF Elems
  <1>3. Stream' = Stream \cup {e}
    BY <1>2 DEF Stream
  <1>4. Earlier(Stream \cup {pc.queued}, {e})
    BY DEF Earlier
  <1>5. Rising(toClient')
    <2>1. Earlier(Elems(toClient), {e})
      BY <1>4 DEF Earlier, Stream
    <2> QED BY <1>1, <2>1, RisingAppend DEF InTurn
  <1>6. Earlier(Elems(waiting), Elems(toClient'))
    BY <1>2, <1>4 DEF InTurn, Earlier, Stream
  <1>7. Earlier({pc.queued}, Stream')
    BY <1>3, <1>4 DEF InTurn, Earlier
  <1>8. Rising(waiting')
    BY DEF InTurn, Rising
  <1> QED BY <1>2, <1>3, <1>5, <1>6, <1>7, <1>8 DEF InTurn

LEMMA ServerAnswerMatching ==
    ASSUME TInv, TInv', Matching, ServerAnswer
    PROVE  Matching'
  <1>1. PICK e : /\ e = [type |-> "answer", revision |-> server.owes.revision,
                         offer |-> server.owes.offer, tracks |-> 0]
    OBVIOUS
  <1>2. /\ server.owes # None /\ server.owes \in Messages
        /\ toClient' = Append(toClient, e) /\ UNCHANGED <<pc, waiting, toServer>>
    BY <1>1, Numbers DEF ServerAnswer, Says
  <1>3. /\ e \in Messages /\ e.type = "answer" /\ e.revision = server.owes.revision
        /\ e.offer = server.owes.offer
    BY <1>1, <1>2 DEF Messages
  <1>4. ~IsAsk(e)
    BY <1>3 DEF IsAsk
  <1>5. /\ server'.revision = server.revision /\ server'.expects = server.expects
        /\ server'.owes = None
    BY DEF ServerAnswer, TInv, TypeOK, Servers
  <1>6. InTurn' /\ Stream' = Stream \cup {e}
    BY <1>2, <1>3, <1>4, SaysInTurn DEF Matching
  <1>7. HeardOffers' = HeardOffers
    BY <1>2, <1>5 DEF HeardOffers, Heard
  <1>8. Live' \subseteq Live \cup {e} /\ server.owes \in Live
    BY <1>2, <1>5, <1>6, <1>7 DEF Live
  <1>9. \A r : Unanswered(r) => Unanswered(r)'
    BY <1>2, <1>5 DEF Unanswered
  <1>10. Seen'
    BY <1>2, <1>3, <1>4, <1>5, <1>6 DEF Matching, Seen
  <1>11. OffersOpen'
    BY <1>2, <1>4, <1>6, <1>9 DEF Matching, OffersOpen
  <1>12. (\A m \in Live : Fits(m))'
    <2>1. Fits(server.owes)
      BY <1>8 DEF Matching
    <2>2. Fits(e)'
      BY <1>2, <1>3, <2>1 DEF Fits
    <2>3. \A m \in Live : Fits(m)'
      BY <1>2 DEF Matching, Fits
    <2> QED BY <1>8, <2>2, <2>3
  <1>13. Crossing'
    BY <1>2, <1>3, <1>5, <1>6 DEF Matching, Crossing
  <1>14. Fresh'
    BY <1>2, <1>4, <1>6 DEF Matching, Fresh
  <1>15. UnderWay'
    BY <1>2, <1>4, <1>5, <1>6, <1>9 DEF Matching, UnderWay, AtCall
  <1> QED BY <1>2, <1>6, <1>10, <1>11, <1>12, <1>13, <1>14, <1>15 DEF Matching

\* The server asks only when it waits for nothing: no offer of its own is open.
LEMMA ServerAskMatching ==
    ASSUME TInv, TInv', Matching, ServerAsk
    PROVE  Matching'
  <1> DEFINE r == server.revision + 1
  <1>1. PICK type, e :
           /\ type \in {"offer", "create-offer", "close"}
           /\ e = [type |-> type, revision |-> r, offer |-> 0, tracks |-> 0]
           /\ toClient' = Append(toClient, e)
           /\ type = "offer" => server' = [server EXCEPT !.revision = r, !.expects = r]
           /\ type = "create-offer" => server' = [server EXCEPT !.revision = r]
           /\ type = "close" => server' = server
    BY DEF ServerAsk, Says
  <1>2. /\ UNCHANGED <<pc, waiting, toServer>> /\ server.revision > 0 /\ server.expects = 0
        /\ server.owes # None => server.owes.revision = 1
    BY DEF ServerAsk
  <1>3. /\ server \in Servers /\ server.revision \in Nat /\ r \in Nat
        /\ pc.revision \in Nat /\ pc.stable \in Nat
        /\ \A m \in Messages : m.revision \in Nat
        /\ Stream \subseteq Messages \cup {None} /\ Elems(toServer) \subseteq Messages
        /\ pc.queued # None => pc.queued \in Messages
    <2>1. server \in Servers
      BY DEF TInv, TypeOK
    <2>2. server.revision \in Nat /\ r \in Nat
      BY Numbers
    <2>3. /\ pc.revision \in Nat /\ pc.stable \in Nat
          /\ \A m \in Messages : m.revision \in Nat
          /\ Stream \subseteq Messages \cup {None} /\ Elems(toServer) \subseteq Messages
          /\ pc.queued # None => pc.queued \in Messages
      BY Numbers
    <2> QED BY <2>1, <2>2, <2>3
  <1>4. e \in Messages /\ e.type = type /\ e.revision = r
    BY <1>1, <1>3 DEF Messages
  <1>5. /\ server'.owes = server.owes
        /\ type = "offer" => server'.revision = r /\ server'.expects = r
        /\ type = "create-offer" => server'.revision = r /\ server'.expects = 0
        /\ type = "close" => server'.revision = server.revision /\ server'.expects = 0
    <2>1. server \in Servers /\ r \in Nat /\ server.expects = 0
      BY <1>2, <1>3
    <2> HIDE DEF r
    <2>2. CASE type = "offer"
      BY <1>1, <2>1, <2>2 DEF Servers
    <2>3. CASE type = "create-offer"
      BY <1>1, <2>1, <2>3 DEF Servers
    <2>4. CASE type = "close"
      BY <1>1, <2>1, <2>4
    <2> QED BY <1>1, <2>2, <2>3, <2>4
  <1>6. /\ ~IsAnswer(e) /\ (IsAsk(e) => type # "close")
        /\ server.revision < r /\ r > 1
    <2>1. ~IsAnswer(e) /\ (IsAsk(e) => type # "close")
      BY <1>1, <1>4 DEF IsAnswer, IsAsk
    <2>2. server.revision < r /\ r > 1
      BY <1>2, <1>3
    <2> QED BY <2>1, <2>2
  <1> HIDE DEF r
  <1>7. \A m \in Stream \cup {pc.queued} : IsAsk(m) => m.revision < r /\ m.revision \in Nat
    <2> SUFFICES ASSUME NEW m \in Stream \cup {pc.queued}, IsAsk(m)
        PROVE  m.revision < r /\ m.revision \in Nat
      OBVIOUS
    <2>1. m.revision \in Nat /\ m.revision <= server.revision
      BY <1>3 DEF Matching, Seen, IsAsk
    <2> QED BY <1>3, <1>6, <2>1
  <1>8. InTurn' /\ Stream' = Stream \cup {e}
    BY <1>1, <1>2, <1>4, <1>7, SaysInTurn DEF Matching
  <1>9. HeardOffers' \subseteq HeardOffers
    BY <1>2 DEF HeardOffers, Heard
  <1>10. Live' \subseteq Live
    BY <1>5, <1>6, <1>8, <1>9 DEF Live
  <1>11. \A k : ~Unanswered(k)
    BY <1>2 DEF Unanswered
  <1>12. Seen'
    <2>1. server.revision <= server'.revision
      BY <1>1, <1>3, <1>5, <1>6
    <2>2. server'.revision \in Nat /\ server'.expects <= server'.revision
      BY <1>1, <1>3, <1>5
    <2>3. \A m \in Messages : m.revision <= server.revision => m.revision <= server'.revision
      BY <1>3, <2>1, <2>2
    <2>4. \A m \in Stream \cup {pc.queued} : IsAsk(m) \/ IsAnswer(m) =>
             m.revision <= server'.revision
      BY <1>3, <2>3 DEF Matching, Seen, IsAsk, IsAnswer
    <2>5. IsAsk(e) \/ IsAnswer(e) => e.revision <= server'.revision
      BY <1>1, <1>3, <1>4, <1>5, <1>6
    <2>6. server'.owes # None => server'.owes.revision <= server'.revision
      BY <1>2, <1>3, <1>5, <2>1, <2>2
    <2>7. \A m \in Elems(toServer') : m.type = "answer" => m.revision <= server'.revision
      BY <1>2, <1>3, <2>3 DEF Matching, Seen
    <2>8. ~pc.needsAnswer => pc.revision <= server'.revision
      BY <1>3, <2>1, <2>2 DEF Matching, Seen
    <2> QED BY <1>2, <1>8, <2>2, <2>4, <2>5, <2>6, <2>7, <2>8 DEF Seen
  <1>13. OffersOpen'
    <2> SUFFICES ASSUME NEW m \in Stream' \cup {pc.queued}, IsAsk(m), m.type = "offer",
                        m.revision > pc.stable
        PROVE  Unanswered(m.revision)'
      BY <1>2 DEF OffersOpen
    <2>1. m = e
      BY <1>8, <1>11 DEF Matching, OffersOpen
    <2>2. server'.expects = r /\ r # 0
      BY <1>3, <1>4, <1>5, <1>6, <2>1
    <2>3. \A n \in Elems(toServer') : n.type = "answer" => n.revision # r
      BY <1>2, <1>3, <1>6 DEF Matching, Seen
    <2> QED BY <1>4, <2>1, <2>2, <2>3 DEF Unanswered
  <1>14. (\A m \in Live : Fits(m))'
    BY <1>2, <1>10 DEF Matching, Fits
  <1>15. Crossing'
    <2> SUFFICES ASSUME server'.expects # 0
        PROVE  /\ server'.expects > 1
               /\ \A m \in ({server'.owes} \ {None}) \cup {n \in Stream' : IsAnswer(n)} :
                     m.revision < server'.expects
      BY DEF Crossing
    <2>1. server'.expects = r
      BY <1>1, <1>5
    <2>2. \A n \in Stream' : IsAnswer(n) => n \in Stream /\ n \in Messages
      BY <1>3, <1>6, <1>8 DEF IsAnswer
    <2>3. \A n \in Stream' : IsAnswer(n) => n.revision < r
      <3> SUFFICES ASSUME NEW n \in Stream', IsAnswer(n) PROVE n.revision < r
        OBVIOUS
      <3>1. n.revision <= server.revision /\ n.revision \in Nat
        BY <1>3, <2>2 DEF Matching, Seen
      <3> QED BY <1>3, <1>6, <3>1
    <2>4. server'.owes # None => server'.owes.revision < r
      BY <1>2, <1>5, <1>6
    <2> QED BY <1>6, <2>1, <2>3, <2>4
  <1>16. Fresh'
    <2>1. ~pc.needsAnswer /\ IsAsk(e) => e.revision > pc.revision
      BY <1>3, <1>4, <1>6 DEF Matching, Seen
    <2> QED BY <1>2, <1>8, <2>1 DEF Matching, Fresh
  <1>17. UnderWay'
    <2>1. ~AtCall(pc, {"rollback", "setRemoteOffer", "setAnswer"})
      BY <1>11 DEF Matching, UnderWay
    <2>2. ~AtCall(pc, {"rollback"})
      BY <2>1 DEF AtCall
    <2>3. AtCall(pc, {"rollback", "setRemoteAnswer"}) => pc.revision <= server'.revision
      <3>1. AtCall(pc, {"rollback", "setRemoteAnswer"}) => pc.revision <= server.revision
        BY DEF Matching, UnderWay
      <3>2. server.revision <= server'.revision /\ server'.revision \in Nat
        BY <1>1, <1>3, <1>5, <1>6
      <3> QED BY <1>3, <3>1, <3>2
    <2> QED BY <1>2, <2>1, <2>2, <2>3 DEF Matching, UnderWay, AtCall
  <1> QED BY <1>2, <1>8, <1>12, <1>13, <1>14, <1>15, <1>16, <1>17 DEF Matching

LEMMA InitMatching == Init => Matching
  <1> SUFFICES ASSUME Init PROVE Matching
    OBVIOUS
  <1>1. /\ pc.todo = <<>> /\ pc.queued = None /\ pc.revision = 0 /\ pc.stable = 0
        /\ waiting = <<None>> /\ toServer = <<>> /\ toClient = <<>>
        /\ server.expects = 0 /\ server.owes = None /\ server.revision = 0
    BY DEF Init
  <1>2. Elems(toServer) = {} /\ Elems(toClient) = {} /\ Elems(waiting) = {None}
    <2>1. Len(waiting) = 1 /\ waiting[1] = None /\ 1..1 = {1}
      BY <1>1
    <2>2. Elems(waiting) = {None}
      BY <2>1 DEF Elems
    <2>3. Elems(toServer) = {} /\ Elems(toClient) = {}
      BY <1>1 DEF Elems
    <2> QED BY <2>2, <2>3
  <1>3. ~IsAsk(None) /\ ~IsAnswer(None)
    BY DEF IsAsk, IsAnswer
  <1>4. Stream = {None}
    BY <1>2 DEF Stream
  <1>5. InTurn
    <2>1. Rising(waiting) /\ Rising(toClient)
      BY <1>1, <1>3 DEF Rising
    <2> QED BY <1>1, <1>2, <1>3, <1>4, <2>1 DEF InTurn, Earlier
  <1>6. HeardOffers = {}
    BY <1>1 DEF HeardOffers
  <1>7. Live = {}
    BY <1>1, <1>3, <1>4, <1>6 DEF Live
  <1>8. Seen /\ OffersOpen /\ Crossing /\ Fresh
    BY <1>1, <1>2, <1>3, <1>4 DEF Seen, OffersOpen, Crossing, Fresh
  <1>9. UnderWay /\ Linked(pc.todo)
    BY <1>1, EmptyReady DEF UnderWay, AtCall
  <1> QED BY <1>5, <1>7, <1>8, <1>9 DEF Matching

\* What is closed stays as it is.
LEMMA StaysClosed ==
    ASSUME [Next]_vars, Closed PROVE pc' = pc
  BY DEF Next, vars, Begin, Proceed, Reject, Receive, ChangeTracks, Break, Close,
         ServerReceive, ServerAnswer, ServerAsk, CreateOffer, SetOffer, Rollback,
         SetRemoteOffer, SetAnswer, SetRemoteAnswer, Drain, Drained, MaybeReoffer,
         Reoffer, Refuse, Runs

LEMMA MatchingStep ==
    ASSUME TInv, TInv', ~Closed => Matching, [Next]_vars, ~Closed'
    PROVE  Matching'
  <1>0. pc \in Connections
    BY DEF TInv, TypeOK
  <1>1. ~Closed
    BY StaysClosed DEF Closed
  <1>2. Matching
    BY <1>1
  <1>3. CASE Begin
    BY <1>2, <1>3, BeginMatching
  <1>4. CASE Proceed
    BY <1>2, <1>4, ProceedMatching
  <1>5. CASE Reject
    <2>1. pc' = [pc EXCEPT !.todo = <<>>]
          /\ UNCHANGED <<waiting, toClient, server, toServer>>
      BY <1>5 DEF Reject, Rejected, network
    <2>2. /\ pc'.revision = pc.revision /\ pc'.stable = pc.stable /\ pc'.offer = pc.offer
          /\ pc'.queued = pc.queued /\ pc'.signaling = pc.signaling /\ pc'.todo = <<>>
      BY <1>0, <2>1 DEF Connections
    <2>3. pc'.needsAnswer = pc.needsAnswer
      BY <1>0, <2>1 DEF Connections
    <2>4. Linked(pc'.todo) /\ UnderWay'
      BY <2>2, EmptyReady DEF UnderWay, AtCall
    <2> QED BY <1>2, <2>1, <2>2, <2>3, <2>4, ChainStep
  <1>6. CASE Receive
    BY <1>1, <1>2, <1>6, ReceiveMatching
  <1>7. CASE ChangeTracks
    <2>1. CallOffer(pc) /\ UNCHANGED <<toClient, server, toServer>>
      BY <1>7 DEF ChangeTracks, network
    <2>2. Keeps(pc, pc)
      BY DEF Keeps
    <2> QED BY <1>0, <1>2, <2>1, <2>2, CallOfferMatching
  <1>8. CASE Break
    <2> DEFINE c == [pc EXCEPT !.shouldRestartIce = TRUE]
    <2>1. UNCHANGED <<toClient, server, toServer>>
          /\ (UNCHANGED <<pc, waiting>> \/ CallOffer(c))
      BY <1>8 DEF Break, network
    <2>2. /\ c \in Connections /\ Keeps(c, pc) /\ c.revision = pc.revision
          /\ c.current = pc.current /\ c.queued = pc.queued /\ c.todo = pc.todo
      BY <1>0 DEF Connections, Keeps
    <2>3. c.needsAnswer = pc.needsAnswer
      BY <1>0 DEF Connections
    <2> HIDE DEF c
    <2>4. CASE CallOffer(c)
      BY <1>2, <2>1, <2>2, <2>3, <2>4, CallOfferMatching
    <2>5. CASE UNCHANGED <<pc, waiting>>
      <3>1. UnderWay'
        BY <1>2, <2>1, <2>5 DEF Matching, UnderWay, AtCall, Unanswered, Elems, Stream
      <3> QED BY <1>2, <2>1, <2>5, <3>1, ChainStep DEF Matching
    <2> QED BY <2>1, <2>4, <2>5
  <1>9. CASE Close
    <2>1. Closing \in Connections /\ Closing.signaling = "closed"
      BY <1>0, SkipType DEF Closing, Connections, TInv
    <2>2. pc' = [Closing EXCEPT !.revision = @ + 1, !.local = "close"]
      BY <1>9 DEF Close
    <2> HIDE DEF Closing
    <2>3. pc'.signaling = "closed"
      BY <2>1, <2>2 DEF Connections
    <2> QED BY <2>3 DEF Closed
  <1>10. CASE ServerReceive
    BY <1>2, <1>10, ServerReceiveMatching
  <1>11. CASE ServerAnswer
    BY <1>2, <1>11, ServerAnswerMatching
  <1>12. CASE ServerAsk
    BY <1>2, <1>12, ServerAskMatching
  <1>13. CASE UNCHANGED vars
    <2>1. UNCHANGED <<pc, waiting, toClient, server, toServer>>
      BY <1>13 DEF vars, network
    <2>2. UnderWay'
      BY <1>2, <2>1 DEF Matching, UnderWay, AtCall, Unanswered, Elems, Stream
    <2> QED BY <1>2, <2>1, <2>2, ChainStep DEF Matching
  <1> QED BY <1>3, <1>4, <1>5, <1>6, <1>7, <1>8, <1>9, <1>10, <1>11, <1>12, <1>13 DEF Next

\* A description never closes the connection: only close() does, or a message to.
LEMMA HandleKeepsOpen ==
    ASSUME NEW c \in Connections, NEW m \in Messages, m.type # "close"
    PROVE  Handle(c, m).signaling = c.signaling
  <1>0. m.type \in {"offer", "answer", "create-offer"} /\ m.revision \in Nat /\ m.offer \in Nat
    BY DEF Messages
  <1>1. /\ [c EXCEPT !.revision = m.revision] \in Connections
        /\ [c EXCEPT !.revision = m.revision].signaling = c.signaling
    BY <1>0 DEF Connections
  <1>2. CASE m.type = "answer"
    BY <1>2 DEF Handle, HandleAnswer, First, Connections
  <1>3. CASE m.type = "create-offer"
    <2>1. Offering([c EXCEPT !.revision = m.revision]).signaling = c.signaling
      BY <1>1, OfferingType
    <2> QED BY <1>3, <2>1 DEF Handle, HandleCreateOffer, Connections
  <1>4. CASE m.type = "offer"
    <2> DEFINE e == [c EXCEPT !.revision = m.revision]
    <2>1. Answering(e).signaling = c.signaling
      BY <1>1 DEF Answering, First, Connections
    <2>2. HandleGlare(e).signaling = c.signaling
      BY <1>1 DEF HandleGlare, First, Connections
    <2> QED BY <1>4, <2>1, <2>2 DEF Handle, HandleOffer, Connections
  <1> QED BY <1>0, <1>2, <1>3, <1>4

\* The chain of a connection that closes is given up.
LEMMA ClosedEnds ==
    ASSUME TInv, ~Closed, [Next]_vars, Closed'
    PROVE  ~Locked'
  <1> SUFFICES pc'.todo = <<>> \/ pc'.signaling = pc.signaling
                  \/ pc'.signaling \in {"stable", "have-local-offer", "have-remote-offer"}
    BY DEF Closed, Locked
  <1>0. pc \in Connections /\ Queues(pc.queued)
    BY DEF TInv, TypeOK
  <1>1. Closing \in Connections /\ Closing.todo = <<>>
    BY <1>0, SkipType DEF Closing, Connections, TInv
  <1>2. Locked => Rest \in Connections /\ Rest.signaling = pc.signaling /\ Rest.queued = pc.queued
    BY <1>0, RestType DEF TInv, Rest, Connections
  <1>3. \A c \in Connections : Offering(c).signaling = c.signaling
    BY OfferingType
  <1>4. \A c \in Connections : CallOffer(c) => pc'.signaling = c.signaling
    BY DEF CallOffer, Connections
  <1>5. CASE Begin
    <2> DEFINE m == Head(waiting)
    <2>1. m \in Messages \cup {None}
      BY <1>5, TailType DEF Begin, TInv, TypeOK
    <2>2. \/ pc' \in {pc, Offering(pc), Closing}
          \/ m # None /\ m.type # "close" /\ pc' = Handle(pc, m)
      BY <1>5 DEF Begin
    <2> QED BY <1>0, <1>1, <1>3, <2>1, <2>2, HandleKeepsOpen
  <1>6. CASE Proceed
    <2>1. Locked
      BY <1>6 DEF Proceed, CreateOffer, SetOffer, Rollback, SetRemoteOffer, SetAnswer,
             SetRemoteAnswer, Drain, Drained, MaybeReoffer, Reoffer, Refuse, Runs
    <2>2. Rest \in Connections /\ Rest.signaling = pc.signaling
      BY <1>2, <2>1
    <2>3. CASE CreateOffer \/ Drained
      BY <2>2, <2>3 DEF CreateOffer, Drained, Connections
    <2>4. CASE SetOffer \/ Rollback
      BY <2>2, <2>4 DEF SetOffer, Rollback, Connections
    <2>5. CASE SetRemoteOffer \/ SetAnswer
      BY <2>2, <2>5 DEF SetRemoteOffer, SetAnswer, Connections
    <2>6. CASE SetRemoteAnswer
      BY <2>2, <2>6 DEF SetRemoteAnswer, Connections
    <2>7. CASE MaybeReoffer \/ Reoffer
      BY <1>3, <2>2, <2>7 DEF MaybeReoffer, Reoffer
    <2>8. CASE Refuse
      BY <1>0, <2>8 DEF Refuse, Rejected, Connections
    <2>9. CASE Drain
      <3> DEFINE c == First(Rest, <<"drained">>)
      <3>1. c \in Connections /\ c.signaling = pc.signaling
        BY <2>2, DrainsChain, FirstType DEF Drains, Chain
      <3>2. pc' = Rest \/ (pc.queued # None /\ pc' = Handle(c, pc.queued))
        BY <2>9 DEF Drain
      <3>3. pc.queued # None => pc.queued \in Messages /\ pc.queued.type # "close"
        BY <1>0 DEF Connections, Queues
      <3> HIDE DEF c
      <3> QED BY <2>2, <3>1, <3>2, <3>3, HandleKeepsOpen
    <2> QED BY <1>6, <2>3, <2>4, <2>5, <2>6, <2>7, <2>8, <2>9 DEF Proceed
  <1>7. CASE Reject
    BY <1>0, <1>7 DEF Reject, Rejected, Connections
  <1>8. CASE ChangeTracks
    BY <1>0, <1>4, <1>8 DEF ChangeTracks
  <1>9. CASE Break
    <2>1. [pc EXCEPT !.shouldRestartIce = TRUE] \in Connections
          /\ [pc EXCEPT !.shouldRestartIce = TRUE].signaling = pc.signaling
      BY <1>0 DEF Connections
    <2> QED BY <1>4, <1>9, <2>1 DEF Break
  <1>10. CASE Close
    <2>1. pc' = [Closing EXCEPT !.revision = @ + 1, !.local = "close"]
      BY <1>10 DEF Close
    <2> HIDE DEF Closing
    <2> QED BY <1>1, <2>1 DEF Connections
  <1>11. CASE Receive \/ ServerReceive \/ ServerAnswer \/ ServerAsk \/ UNCHANGED vars
    BY <1>11 DEF Receive, ServerReceive, ServerAnswer, ServerAsk, vars
  <1> QED BY <1>5, <1>6, <1>7, <1>8, <1>9, <1>10, <1>11 DEF Next

\* Whatever offers cross, are rolled back or are made anew, and whatever WebRTC
\* rejects, an answer is applied to the offer it answers.
THEOREM AnswersFit == Spec => []AnswersOwnOffer
  <1>1. Init => MInv
    BY InitTInv, InitMatching DEF MInv, Init, Closed
  <1>2. MInv /\ [Next]_vars => MInv'
    <2> SUFFICES ASSUME MInv, [Next]_vars PROVE MInv'
      OBVIOUS
    <2>1. TInv /\ TInv'
      BY TInvStep DEF MInv
    <2>2. ~Closed' => Matching'
      BY <2>1, MatchingStep DEF MInv
    <2>3. Closed' => ~Locked'
      <3>1. CASE Closed
        BY <3>1, StaysClosed DEF MInv, Locked
      <3>2. CASE ~Closed
        BY <2>1, <3>2, ClosedEnds
      <3> QED BY <3>1, <3>2
    <2> QED BY <2>1, <2>2, <2>3 DEF MInv
  <1>3. MInv => AnswersOwnOffer
    <2> SUFFICES ASSUME MInv, Locked, Head(pc.todo) = "setRemoteAnswer"
        PROVE  pc.current = pc.offer
      BY DEF AnswersOwnOffer
    <2>1. pc.todo[1] = "setRemoteAnswer" /\ pc.todo # <<>>
      BY DEF Locked, MInv, TInv, TypeOK, Connections
    <2> QED BY <2>1 DEF MInv, Matching, UnderWay, AtCall
  <1> QED BY <1>1, <1>2, <1>3, PTL DEF Spec
=============================================================================
