-------------------- MODULE TrackLifecycleSafety_proofs --------------------
(***************************************************************************)
(* Safety of TrackLifecycle, for any requests, publishers and number of     *)
(* Tracks: its types, no waiting subscriber is forgotten, and no upstream   *)
(* request is left running on a track without subscribers.                  *)
(*                                                                         *)
(* As long as subscribers and sessions stay and publishers send nothing     *)
(* that is turned down for its properties, also: a SUBSCRIBE gets one       *)
(* response, a refusal is unanimous, and a publisher that serves the track  *)
(* is reachable over its alias.  Each of the four breaks all three.         *)
(***************************************************************************)
EXTENDS TrackLifecycleUpstream_proofs, TrackLifecycleAnswers_proofs

(***************************************************************************)
(* Answers: every step keeps the invariant while nobody leaves.             *)
(***************************************************************************)

\* While everybody stays, nothing is cancelled, closed or swept.
LEMMA NobodyLeaves ==
    ASSUME SteadyInv, Steady
    PROVE  /\ \A r \in Requests :
                 ~(Cancel(r) \/ Disconnect(r) \/ Leave(r) \/ LeaveCleansUp(r))
           /\ \A x \in Exchanges : ~(Cancelled(x) \/ CleanUpCancelled(x))
           /\ \A p \in Publishers : ~(Close(p) \/ CloseStep(p))
           /\ ~Sweep
<1>a. /\ "cancel" \notin Behaviours /\ "disconnect" \notin Behaviours
      /\ "close" \notin Behaviours
  BY Zenon DEF Steady
<1>1. \A r \in Requests : ~(Cancel(r) \/ Disconnect(r) \/ Leave(r) \/ LeaveCleansUp(r))
  BY <1>a, ZenonT(60) DEF SteadyInv, Calm, Cancel, Disconnect, Leave, LeaveCleansUp
<1>2. \A x \in Exchanges : ~(Cancelled(x) \/ CleanUpCancelled(x))
  BY Zenon DEF SteadyInv, Calm, Cancelled, CleanUpCancelled, At
<1>3. \A p \in Publishers : ~(Close(p) \/ CloseStep(p))
  BY <1>a, ZenonT(60) DEF SteadyInv, Calm, Close, CloseStep, CloseRetires, CloseCleansUp, Forget
<1>4. ~Sweep
  BY DEF SteadyInv, Calm, Sweep, TypeOK, TrackRef
<1> QED
  BY <1>1, <1>2, <1>3, <1>4, Zenon

\* No SUBSCRIBE has arrived.
LEMMA SteadyInit == Init => SteadyInv
<1> SUFFICES ASSUME Init PROVE SteadyInv
  OBVIOUS
<1>1. TypeOK
  BY InitTypes, Zenon
<1>2. \A r \in Requests :
        /\ req[r].pc = "start" /\ req[r].track = NoTrack /\ ~req[r].creator
        /\ ~req[r].gone /\ req[r].responses = <<>>
  BY SMTT(60) DEF Init
<1>3. \A x \in Exchanges :
        /\ exch[x].pc = "idle" /\ ~exch[x].accepted /\ ~exch[x].answered
        /\ ~exch[x].cancel /\ ~exch[x].unsupported
  BY Zenon DEF Init
<1>4. \A t \in TrackIds :
        /\ tracks[t].status = "Pending" /\ tracks[t].origin = "Subscribe"
        /\ tracks[t].pubs = {} /\ tracks[t].waiting = {} /\ ~tracks[t].cached
  BY Zenon DEF Init, NewTrack
<1>5. /\ current = NoTrack /\ made = 0 /\ aliases = {} /\ connected = Publishers
      /\ \A p \in Publishers : closing[p].pc = "idle"
  BY Zenon DEF Init
<1>6. Calm
  BY <1>2, <1>3, <1>4, <1>5, ZenonT(60) DEF Calm
<1>7. Creating
  BY <1>2, <1>4, <1>5, SMTT(60) DEF Creating, NoTrack
<1>8. AtHome /\ Agreed
  BY <1>2, <1>3, Pairs, ZenonT(60)
     DEF AtHome, Agreed, Found, Asking, Early, Serving, Failing, Refusing
<1>9. Counting
  BY <1>2, Zenon DEF Counting
<1>10. Answering
  <2>1. Len(<<>>) <= 1
    BY SMTT(60)
  <2> QED
    BY <1>2, <1>3, <1>4, <2>1, ZenonT(60) DEF Answering
<1>11. Reached
  BY <1>3, <1>4, <1>5, Zenon DEF Reached, AliasServes
<1> QED
  BY <1>1, <1>6, <1>7, <1>8, <1>9, <1>10, <1>11, ZenonT(60) DEF SteadyInv

\* Every step keeps the invariant.
LEMMA SteadyNext ==
    ASSUME Countable, Steady, SteadyInv, [Next]_vars
    PROVE  SteadyInv'
<1>a. TypeOK'
  BY NextTypes DEF SteadyInv
<1>1. ASSUME NEW r \in Requests, RequestStep(r) \/ Refused(r) \/ Cancel(r) \/ Disconnect(r)
      PROVE  SteadyInv'
  <2>1. ~(Cancel(r) \/ Disconnect(r) \/ Leave(r) \/ LeaveCleansUp(r))
    BY NobodyLeaves
  <2>2. CASE \E p \in Publishers : Forward(r, p)
    BY <1>a, <2>2, ForwardKeeps, Zenon
  <2>3. CASE SubscribeMiss(r) \/ Subscribe(r) \/ Join(r) \/ Refused(r)
    BY <1>a, <2>3, SubscribeKeeps, JoinKeeps, RefusedKeeps, ZenonT(60)
  <2>4. CASE Count(r) \/ ReadStatus(r) \/ AnswerJoiner(r)
    BY <1>a, <2>4, CountKeeps, JoinerKeeps, ZenonT(60)
  <2> QED
    BY <1>1, <2>1, <2>2, <2>3, <2>4, ZenonT(60) DEF RequestStep
<1>2. ASSUME NEW x \in Exchanges,
             \/ ExchangeStep(x) \/ AnswerDeadline(x) \/ Fails(x)
             \/ UpstreamDone(x) \/ Accepts(x)
      PROVE  SteadyInv'
  <2>1. ~(Cancelled(x) \/ CleanUpCancelled(x))
    BY NobodyLeaves, Zenon
  <2>2. CASE Send(x) \/ FindTrack(x) \/ Accepts(x) \/ AnswerDeadline(x) \/ Fails(x)
    BY <1>a, <2>2, AskingKeeps, ZenonT(60)
  <2>3. CASE Register(x) \/ UpstreamDone(x) \/ DropPublisher(x) \/ NotifyDone(x)
    BY <1>a, <2>3, RegisterKeeps, UpstreamDoneKeeps, DropPublisherKeeps, NotifyKeeps, ZenonT(60)
  <2>4. CASE OkAlias(x) \/ Confirm(x) \/ TellCreator(x) \/ TellWaiting(x)
    BY <1>a, <2>4, OkAliasKeeps, ConfirmKeeps, TellCreatorKeeps, TellWaitingKeeps, ZenonT(60)
  <2>5. CASE EndUpstream(x) \/ FindRejected(x) \/ Retire(x) \/ CleanUp(x)
    BY <1>a, <2>5, EndUpstreamKeeps, FailingKeeps, CleanUpKeeps, ZenonT(60)
  <2>6. CASE Reject(x) \/ TellErrorCreator(x) \/ TellErrorWaiting(x)
    BY <1>a, <2>6, RejectKeeps, TellErrorCreatorKeeps, TellErrorWaitingKeeps, ZenonT(60)
  <2> QED
    BY <1>2, <2>1, <2>2, <2>3, <2>4, <2>5, <2>6, ZenonT(60) DEF ExchangeStep
<1>3. ASSUME NEW p \in Publishers, Close(p) \/ CloseStep(p) \/ CacheObject(p)
      PROVE  SteadyInv'
  BY <1>a, <1>3, NobodyLeaves, CacheKeeps, ZenonT(60)
<1>4. CASE Expire \/ Sweep
  BY <1>a, <1>4, NobodyLeaves, CacheKeeps, ZenonT(60)
<1>5. CASE UNCHANGED vars
  <2>1. \A r \in Requests : Owed(r)' = Owed(r)
    BY <1>5, SMTT(60) DEF vars, Owed
  <2>2. Served' <=> Served
    BY <1>5 DEF vars, Served
  <2>3. Calm' /\ Creating' /\ AtHome' /\ Agreed'
    <3>1. Calm' = Calm /\ Creating' = Creating
      BY <1>5, SMTT(60) DEF vars, Calm, Creating
    <3>2. AtHome' = AtHome /\ Agreed' = Agreed
      BY <1>5, SMTT(60) DEF vars, AtHome, Agreed
    <3> QED
      BY <3>1, <3>2, ZenonT(60) DEF SteadyInv
  <2>4. Counting'
    BY <1>5, <2>1, ZenonT(60) DEF vars, SteadyInv, Counting
  <2>5. Answering'
    BY <1>5, SMTT(60) DEF vars, SteadyInv, Answering
  <2>6. Reached'
    BY <1>5, <2>2, ZenonT(60) DEF vars, SteadyInv, Reached, AliasServes
  <2> QED
    BY <1>a, <2>3, <2>4, <2>5, <2>6, ZenonT(60) DEF SteadyInv
<1> QED
  BY <1>1, <1>2, <1>3, <1>4, <1>5, ZenonT(60) DEF Next

(***************************************************************************)
(* The library's theorems on finite sets, and what they say of publishers.  *)
(***************************************************************************)
INSTANCE FiniteSetTheorems

\* Publishers are finitely many.
LEMMA PublishersCount == Countable
<1>a. IsFiniteSet(Publishers)
  BY LifecycleAssumption, Zenon
<1>b. ASSUME NEW S \in SUBSET Publishers
      PROVE  /\ Cardinality(S) \in Nat
             /\ Cardinality(S) = 0 => S = {}
             /\ \A p \in S : Cardinality(S \ {p}) = Cardinality(S) - 1
             /\ \A T \in SUBSET S : Cardinality(T) <= Cardinality(S)
  <2>1. IsFiniteSet(S)
    BY <1>a, <1>b, FS_Subset, ZenonT(60)
  <2>2. Cardinality(S) \in Nat
    BY <2>1, FS_CardinalityType, ZenonT(60)
  <2>3. Cardinality(S) = 0 => S = {}
    BY <2>1, FS_EmptySet, ZenonT(60)
  <2>4. \A p \in S : Cardinality(S \ {p}) = Cardinality(S) - 1
    BY <2>1, FS_RemoveElement, ZenonT(60)
  <2>5. \A T \in SUBSET S : Cardinality(T) <= Cardinality(S)
    BY <2>1, FS_Subset, ZenonT(60)
  <2> QED
    BY <2>2, <2>3, <2>4, <2>5, ZenonT(60)
<1> QED
  BY <1>b, ZenonT(60) DEF Countable

\* Type correctness: whatever the peers do and however the tasks interleave, the
\* count of unanswered requests never passes zero, and a task that uses a Track
\* has one, though it looked it up by name and the name may lead nowhere.
THEOREM TypeCorrect == Spec => []TypeOK
<1>1. TypeOK /\ [Next]_vars => TypeOK'
  BY NextTypes, PublishersCount, ZenonT(60)
<1> QED
  BY <1>1, InitTypes, PTL DEF Spec

\* A subscriber that waits for the track's answer is never forgotten: when the
\* track is Confirmed and somebody waits, the publisher that confirmed it has yet
\* to answer the waiting list.
THEOREM WaitersAnswered == Spec => []NoWaiterForgotten
<1>1. WaitersInv /\ [Next]_vars => WaitersInv'
  BY WaitersNext, PublishersCount, ZenonT(60)
<1>2. WaitersInv => NoWaiterForgotten
  BY DEF WaitersInv
<1> QED
  BY <1>1, <1>2, WaitersInit, PTL DEF Spec

\* However leaving and registering interleave, an upstream request is not left
\* running on a track without subscribers, if no subscriber's session closes and
\* no switching set assignment is refused.
THEOREM UpstreamIsReleased ==
    ASSUME "disconnect" \notin Behaviours, "refuse" \notin Behaviours
    PROVE  Spec => []UpstreamReleased
<1>1. Init => UpstreamReleased
  BY DEF Init, NewTrack, UpstreamReleased
<1>2. TypeOK /\ UpstreamReleased /\ [Next]_vars => UpstreamReleased'
  BY ReleasedNext, Zenon
<1> QED
  BY <1>1, <1>2, TypeCorrect, PTL DEF Spec

\* The invariant holds throughout.
THEOREM SteadyHolds == Steady => (Spec => []SteadyInv)
<1> SUFFICES ASSUME Steady PROVE Spec => []SteadyInv
  OBVIOUS
<1>1. SteadyInv /\ [Next]_vars => SteadyInv'
  BY SteadyNext, PublishersCount, ZenonT(60)
<1> QED
  BY <1>1, SteadyInit, PTL DEF Spec

\* A request stream takes one response at most, whichever of the publishers, the
\* waiting list and the status the response comes from.
THEOREM AnsweredOnce == Steady => (Spec => []OneResponse)
<1>1. SteadyInv => OneResponse
  BY ZenonT(60) DEF SteadyInv, Answering, OneResponse
<1> QED
  BY <1>1, SteadyHolds, PTL

\* A request hears REQUEST_ERROR only if no publisher it asked has been accepted:
\* upstream_subscribe_answered counts every answer that is owed, so that the
\* exchange that finds none left is the last.
THEOREM RefusedByAll == Steady => (Spec => []RefusalIsUnanimous)
<1>1. SteadyInv => RefusalIsUnanimous
  <2> SUFFICES ASSUME SteadyInv, NEW r \in Requests, NEW p \in Publishers,
                      exch[<<r, p>>].accepted,
                      NEW i \in DOMAIN req[r].responses, req[r].responses[i] = "error"
               PROVE  FALSE
    BY Zenon DEF RefusalIsUnanimous
  <2>1. <<r, p>> \in Exchanges /\ <<r, p>>[1] = r
    BY Pairs, ZenonT(60)
  <2>2. exch[<<r, p>>].pc # "idle" /\ tracks[req[r].track].status = "Confirmed"
    BY <2>1, ZenonT(60) DEF SteadyInv, Agreed, Asking
  <2>3. req[r].creator /\ req[r].pc # "end"
    BY <2>1, <2>2, ZenonT(60) DEF SteadyInv, AtHome
  <2>4. req[r].responses = <<>> \/ req[r].responses = <<"ok">>
    BY <2>2, <2>3, ZenonT(60) DEF SteadyInv, Answering
  <2>5. CASE req[r].responses = <<>>
    BY <2>5, SMTT(60)
  <2>6. CASE req[r].responses = <<"ok">>
    BY <2>6, SMTT(60)
  <2> QED
    BY <2>4, <2>5, <2>6, ZenonT(60)
<1> QED
  BY <1>1, SteadyHolds, PTL

\* A publisher that serves the track in the map is reachable over its alias: the
\* handler of SUBSCRIBE_OK registers it before it confirms the track, and nobody
\* takes it from a publisher that stays.
THEOREM ReachedByAlias == Steady => (Spec => []AliasServes)
<1>1. SteadyInv => AliasServes
  BY DEF SteadyInv, Reached
<1> QED
  BY <1>1, SteadyHolds, PTL
=============================================================================
