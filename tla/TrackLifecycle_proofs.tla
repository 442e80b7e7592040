----------------------- MODULE TrackLifecycle_proofs -----------------------
(***************************************************************************)
(* TrackLifecycle starts and stays within its types, for any requests,      *)
(* publishers, number of Tracks and behaviour of the peers; and the         *)
(* invariant that tells who answers whom.  The theorems that rest on them   *)
(* are in TrackLifecycleSafety_proofs.                                      *)
(***************************************************************************)
EXTENDS TrackLifecycle, TLAPS

(***************************************************************************)
(* Who answers whom, as long as subscribers and sessions stay and           *)
(* publishers send nothing that is turned down for its properties: the      *)
(* inductive invariant behind OneResponse, RefusalIsUnanimous and           *)
(* AliasServes.                                                             *)
(***************************************************************************)

\* What the proofs use of counting publishers.  It follows from the library's
\* theorems on finite sets; the modules that end a chain of proofs derive it, so
\* that those theorems do not weigh on every obligation before.
Countable ==
    \A S \in SUBSET Publishers :
        /\ Cardinality(S) \in Nat
        /\ Cardinality(S) = 0 => S = {}
        /\ \A p \in S : Cardinality(S \ {p}) = Cardinality(S) - 1
        /\ \A T \in SUBSET S : Cardinality(T) <= Cardinality(S)

\* Subscribers stay and publishers keep their sessions and send nothing they may not.
Steady == Behaviours \intersect {"cancel", "disconnect", "close", "unsupported"} = {}

\* Where an exchange may be before it is answered, and while its answer is owed;
\* where the last refusal takes one; where one uses the Track it found by name;
\* where one knows that the track is Confirmed.
Early == {"idle", "send", "sent", "register", "wait"}
Asking == {"idle", "send", "sent", "register", "wait", "ok", "confirm", "ended"}
Failing == {"error", "reject", "tellError", "tellErrorWaiting", "retire", "remove"}
Refusing == {"tellError", "tellErrorWaiting", "retire", "remove", "over"}
Found == {"confirm", "tell", "tellWaiting", "drop", "notify", "reject", "tellError",
          "tellErrorWaiting", "remove"}
Serving == {"tell", "tellWaiting", "drop", "notify"}

\* The publishers whose answer the track that r created still counts.
Owed(r) ==
    {p \in Publishers : ~exch[<<r, p>>].accepted /\ exch[<<r, p>>].pc \in Asking}

\* Nobody leaves, no session closes and no upstream request is cancelled.
Calm ==
    /\ connected = Publishers
    /\ \A p \in Publishers : closing[p].pc = "idle"
    /\ \A t \in TrackIds : tracks[t].origin = "Subscribe"
    /\ \A r \in Requests :
          /\ ~req[r].gone
          /\ req[r].pc \in {"start", "join", "assign", "forward", "answer", "live", "end"}
    /\ \A x \in Exchanges :
          /\ ~exch[x].cancel /\ ~exch[x].unsupported
          /\ exch[x].pc \notin {"cancelled", "unalias"}

\* A Track has one creator, which it outlasts in the map while the creator is still
\* to ask a publisher.
Creating ==
    /\ current <= made
    /\ \A t \in TrackIds : t > made => tracks[t].status = "Pending" /\ tracks[t].pubs = {}
    /\ \A r \in Requests :
          /\ req[r].track <= made
          /\ req[r].pc = "start" => ~req[r].creator
          /\ req[r].pc = "answer" => ~req[r].creator
          /\ req[r].pc \in {"join", "assign", "forward"}
                => req[r].asked = Publishers /\ Publishers # {}
          /\ req[r].creator => req[r].track # NoTrack
          /\ req[r].creator /\ req[r].pc \in {"join", "assign", "forward"}
                => req[r].track = current
          /\ req[r].creator /\ req[r].pc \in {"assign", "forward", "live"}
                => r \in tracks[req[r].track].subs
          /\ req[r].pc = "forward"
                => req[r].creator /\ \E p \in Publishers : exch[<<r, p>>].pc = "idle"
    /\ \A r, s \in Requests :
          req[r].creator /\ req[s].creator /\ req[r].track = req[s].track => r = s

\* An exchange that is under way belongs to the creator of the Track in the map, so
\* that looking the track up by name finds the one it was forwarded for.
AtHome ==
    \A x \in Exchanges :
        /\ exch[x].pc # "idle" => req[x[1]].creator /\ req[x[1]].pc \in {"forward", "live"}
        /\ exch[x].pc \notin {"idle", "over"} => current = req[x[1]].track
        /\ exch[x].pc \in Found => exch[x].track = current
        /\ exch[x].pc = "register" => exch[x].home = current

\* What an exchange knows of its track: a publisher was accepted only if the track
\* is Confirmed, and an exchange that ends with a refusal is the last one.
Agreed ==
    \A x \in Exchanges :
        /\ exch[x].accepted => /\ exch[x].answered
                               /\ exch[x].pc \notin Asking \ {"wait", "ended"}
                               /\ tracks[req[x[1]].track].status = "Confirmed"
        /\ exch[x].pc \in Early /\ exch[x].answered => exch[x].accepted
        /\ exch[x].pc \in {"ok", "confirm"} => exch[x].answered
        /\ exch[x].pc \in {"tell", "tellWaiting"} => exch[x].accepted
        /\ exch[x].pc \in Serving => tracks[current].status = "Confirmed"
        /\ exch[x].pc \in Failing =>
              /\ tracks[current].status # "Confirmed"
              /\ \A y \in Exchanges : y[1] = x[1] /\ y # x => exch[y].pc = "over"
        /\ exch[x].pc \in Refusing \ {"over"} => tracks[current].status = "Rejected"
        /\ req[x[1]].creator /\ tracks[req[x[1]].track].status = "Rejected"
              => exch[x].pc \in Refusing

\* The track waits for no fewer answers than it is owed.
Counting ==
    \A r \in Requests :
        /\ req[r].creator
        /\ req[r].pc \in {"forward", "live"}
        /\ tracks[req[r].track].status # "Confirmed"
        => Cardinality(Owed(r)) <= tracks[req[r].track].unanswered

\* Who has been answered, and by whom.
Answering ==
    /\ \A r \in Requests :
          /\ Len(req[r].responses) <= 1
          /\ req[r].pc \in {"start", "join", "assign", "answer"} => req[r].responses = <<>>
          /\ req[r].creator /\ req[r].pc # "end" =>
                \/ req[r].responses = <<>>
                \/ /\ req[r].responses = <<"ok">>
                   /\ tracks[req[r].track].status = "Confirmed"
                   /\ \A x \in Exchanges : x[1] = r => exch[x].pc # "tell"
                \/ /\ req[r].responses = <<"error">>
                   /\ tracks[req[r].track].status = "Rejected"
                   /\ \A x \in Exchanges : x[1] = r => exch[x].pc # "tellError"
    /\ \A x, y \in Exchanges :
          exch[x].pc = "tell" /\ exch[y].pc = "tell" /\ x[1] = y[1] => x = y
    /\ \A t \in TrackIds : \A r \in tracks[t].waiting :
          /\ req[r].track = t /\ req[r].pc = "live" /\ ~req[r].creator
          /\ req[r].responses = <<>>

\* Whether a publisher serves the track, or is about to.
Served ==
    /\ current # NoTrack
    /\ \/ tracks[current].status = "Confirmed"
       \/ \E x \in Exchanges : exch[x].pc = "confirm"

\* Only a track that is served has aliases or holds Objects.
Reached ==
    /\ aliases # {} => Served
    /\ \A t \in TrackIds : tracks[t].cached => t = current /\ Served
    /\ \A x \in Exchanges : exch[x].pc = "confirm" => x[2] \in aliases
    /\ AliasServes

SteadyInv ==
    TypeOK /\ Calm /\ Creating /\ AtHome /\ Agreed /\ Counting /\ Answering /\ Reached

(***************************************************************************)
(* What the helpers leave is of the right type.                             *)
(***************************************************************************)

\* send_response only appends to the responses of open streams.
LEMMA RespondingType ==
    ASSUME TypeOK, NEW to, NEW kind \in {"ok", "error"}
    PROVE  /\ Responding(to, kind) \in [Requests -> Request]
           /\ \A r \in Requests : /\ Responding(to, kind)[r].pc = req[r].pc
                                  /\ Responding(to, kind)[r].track = req[r].track
                                  /\ Responding(to, kind)[r].seen = req[r].seen
<1>1. ASSUME NEW r \in Requests
      PROVE  Append(req[r].responses, kind) \in Seq({"ok", "error"})
  <2>1. req[r].responses \in Seq({"ok", "error"})
    BY DEF TypeOK, Request
  <2> QED
    BY <2>1
<1>2. ASSUME NEW r \in Requests
      PROVE  [req[r] EXCEPT !.responses = Append(@, kind)] \in Request
  BY <1>1, ZenonT(60) DEF TypeOK, Request
<1>3. ASSUME NEW r \in Requests PROVE req[r] \in Request
  BY DEF TypeOK
<1> QED
  BY <1>2, <1>3, Zenon DEF Responding, Request

\* notify_publisher_disconnected only tells.
LEMMA TellingType ==
    ASSUME TypeOK, NEW to
    PROVE  /\ Telling(to) \in [Requests -> Request]
           /\ \A r \in Requests : /\ Telling(to)[r].pc = req[r].pc
                                  /\ Telling(to)[r].track = req[r].track
                                  /\ Telling(to)[r].seen = req[r].seen
  BY ZenonT(60) DEF TypeOK, Telling, Request

\* A cancellation only signals.
LEMMA SignallingType ==
    ASSUME TypeOK, NEW signalled
    PROVE  /\ Signalling(signalled) \in [Exchanges -> Exchange]
           /\ \A x \in Exchanges : /\ Signalling(signalled)[x].pc = exch[x].pc
                                   /\ Signalling(signalled)[x].home = exch[x].home
                                   /\ Signalling(signalled)[x].track = exch[x].track
  BY ZenonT(60) DEF TypeOK, Signalling, Exchange

\* become_cache_only leaves a Track, ...
LEMMA CacheOnlyType ==
    ASSUME NEW track \in Track
    PROVE  CacheOnly(track) \in Track
  BY Zenon DEF Track, CacheOnly, Statuses

\* ... and so do confirm, a removed publisher and a counted answer.
LEMMA TrackTypes ==
    ASSUME NEW track \in Track, NEW p \in Publishers
    PROVE  /\ Confirmed(track, p) \in Track
           /\ [track EXCEPT !.pubs = @ \ {p}] \in Track
           /\ [track EXCEPT !.unanswered = OneLess(@)] \in Track
<1>1. OneLess(track.unanswered) \in Nat
  BY DEF Track, OneLess
<1>3. Confirmed(track, p) \in Track
  <2>1. track.pubs \union {p} \in SUBSET Publishers
    BY DEF Track
  <2>2. (IF track.status = "Pending" THEN "Confirmed" ELSE track.status) \in Statuses
    BY DEF Track, Statuses
  <2> QED
    BY <1>1, <2>1, <2>2, Zenon DEF Track, Confirmed
<1>4. [track EXCEPT !.pubs = @ \ {p}] \in Track
  BY DEF Track
<1>5. [track EXCEPT !.unanswered = OneLess(@)] \in Track
  BY <1>1 DEF Track
<1> QED
  BY <1>3, <1>4, <1>5

\* So does a SUBSCRIBE that joins.
LEMMA JoinedType ==
    ASSUME NEW track \in Track, NEW r \in Requests,
           NEW origin \in {"Subscribe", "CacheOnly"}, NEW status \in Statuses
    PROVE  [track EXCEPT !.origin = origin, !.status = status,
                         !.subs = @ \union {r}] \in Track
  BY Zenon DEF Track

\* The program counters the steps set, and the statuses.
LEMMA Pcs ==
    /\ {"join", "assign", "forward", "answer", "live", "leave", "unalias", "remove",
        "end", "closed"} \subseteq RequestPcs
    /\ {"send", "sent", "register", "wait", "cancelled", "ok", "confirm", "tell",
        "tellWaiting", "ended", "drop", "notify", "error", "reject", "tellError",
        "tellErrorWaiting", "retire", "unalias", "remove", "over"} \subseteq ExchangePcs
    /\ {"Pending", "Confirmed", "Rejected"} \subseteq Statuses
  BY DEF RequestPcs, ExchangePcs, Statuses

\* The program counters at which a task uses its Track.
OnTrack == {"join", "assign", "forward", "answer", "leave"}

OnFound == {"confirm", "tell", "tellWaiting", "drop", "notify", "tellErrorWaiting"}

\* What get_or_create_track leaves of a request.
LEMMA SubscribedType ==
    ASSUME NEW q \in Request, NEW t \in TrackIds, NEW a \in SUBSET Publishers
    PROVE  /\ [q EXCEPT !.pc = "join", !.asked = a, !.track = t] \in Request
           /\ [q EXCEPT !.pc = "join", !.asked = a, !.track = t].track = t
           /\ [q EXCEPT !.pc = "join", !.asked = a, !.track = t, !.creator = TRUE]
                 \in Request
           /\ [q EXCEPT !.pc = "join", !.asked = a, !.track = t, !.creator = TRUE].track
                 = t
<1>1. t \in TrackRef
  BY DEF TrackRef
<1>2. "join" \in RequestPcs
  BY Pcs
<1> QED
  BY <1>1, <1>2, Zenon DEF Request

(***************************************************************************)
(* A step that replaces the state of one request, exchange or Track by one  *)
(* of the right type preserves the part of TypeOK that is about it.         *)
(***************************************************************************)

\* f is req, or what Responding or Telling made of it.
LEMMA RequestPut ==
    ASSUME TypeOK, NEW f \in [Requests -> Request], NEW r \in Requests, NEW q \in Request,
           \A s \in Requests : f[s].pc = req[s].pc /\ f[s].track = req[s].track,
           q.pc \in OnTrack => q.track \in TrackIds,
           req' = [f EXCEPT ![r] = q]
    PROVE  req' \in [Requests -> Request] /\ RequestsHaveTracks'
<1>1. req' \in [Requests -> Request]
  OBVIOUS
<1>2. ASSUME NEW s \in Requests, req'[s].pc \in OnTrack
      PROVE  req'[s].track \in TrackIds
  <2>1. CASE s = r
    BY <1>2, <2>1
  <2>2. CASE s # r
    <3>1. req'[s] = f[s]
      BY <2>2
    <3>2. req[s].pc \in OnTrack => req[s].track \in TrackIds
      BY DEF TypeOK, RequestsHaveTracks, OnTrack
    <3> QED
      BY <1>2, <3>1, <3>2
  <2> QED
    BY <2>1, <2>2
<1> QED
  BY <1>1, <1>2 DEF RequestsHaveTracks, OnTrack

\* f is exch, or what Signalling made of it.
LEMMA ExchangePut ==
    ASSUME TypeOK, NEW f \in [Exchanges -> Exchange], NEW x \in Exchanges,
           NEW e \in Exchange,
           \A y \in Exchanges : /\ f[y].pc = exch[y].pc
                                /\ f[y].home = exch[y].home
                                /\ f[y].track = exch[y].track,
           e.pc = "register" => e.home \in TrackIds,
           e.pc \in OnFound => e.track \in TrackIds,
           exch' = [f EXCEPT ![x] = e]
    PROVE  exch' \in [Exchanges -> Exchange] /\ ExchangesHaveTracks'
<1>1. exch' \in [Exchanges -> Exchange]
  OBVIOUS
<1>2. ASSUME NEW y \in Exchanges
      PROVE  /\ exch'[y].pc = "register" => exch'[y].home \in TrackIds
             /\ exch'[y].pc \in OnFound => exch'[y].track \in TrackIds
  <2>1. CASE y = x
    BY <2>1
  <2>2. CASE y # x
    <3>1. exch'[y] = f[y]
      BY <2>2
    <3>2. /\ exch[y].pc = "register" => exch[y].home \in TrackIds
          /\ exch[y].pc \in OnFound => exch[y].track \in TrackIds
      BY DEF TypeOK, ExchangesHaveTracks, OnFound
    <3> QED
      BY <3>1, <3>2
  <2> QED
    BY <2>1, <2>2
<1> QED
  BY <1>1, <1>2 DEF ExchangesHaveTracks, OnFound

\* An exchange that only moves on.
LEMMA GoesType ==
    ASSUME TypeOK, NEW x \in Exchanges, NEW pc \in ExchangePcs, Goes(x, pc),
           pc # "register", pc \in OnFound => exch[x].track \in TrackIds
    PROVE  exch' \in [Exchanges -> Exchange] /\ ExchangesHaveTracks'
<1> DEFINE e == [exch[x] EXCEPT !.pc = pc]
<1>1. exch \in [Exchanges -> Exchange]
  BY DEF TypeOK
<1>2. e \in Exchange /\ e.pc = pc /\ e.track = exch[x].track
  BY <1>1 DEF Exchange
<1>3. exch' = [exch EXCEPT ![x] = e]
  BY <1>1 DEF Goes
<1> HIDE DEF e
<1> QED
  BY <1>1, <1>2, <1>3, ExchangePut, Zenon

\* A request whose task only moves on.
LEMMA RequestGoes ==
    ASSUME TypeOK, NEW f \in [Requests -> Request], NEW r \in Requests,
           NEW pc \in RequestPcs,
           \A s \in Requests : f[s].pc = req[s].pc /\ f[s].track = req[s].track,
           pc \in OnTrack => req[r].track \in TrackIds,
           req' = [f EXCEPT ![r].pc = pc]
    PROVE  req' \in [Requests -> Request] /\ RequestsHaveTracks'
<1> DEFINE q == [f[r] EXCEPT !.pc = pc]
<1>1. q \in Request /\ q.pc = pc /\ q.track = req[r].track
  BY ZenonT(60) DEF Request
<1>2. req' = [f EXCEPT ![r] = q]
  OBVIOUS
<1>3. q.pc \in OnTrack => q.track \in TrackIds
  BY <1>1
<1>4. q \in Request
  BY <1>1
<1> HIDE DEF q
<1> QED
  BY <1>2, <1>3, <1>4, RequestPut, ZenonT(60)

(***************************************************************************)
(* Every step preserves the type invariant: first those of the requests.    *)
(***************************************************************************)

\* A SUBSCRIBE finds or creates its Track and joins it.
LEMMA SubscribeTypes ==
    ASSUME TypeOK, NEW r \in Requests, SubscribeMiss(r) \/ Subscribe(r) \/ Join(r)
    PROVE  TypeOK'
<1>a. req \in [Requests -> Request] /\ tracks \in [TrackIds -> Track]
  BY DEF TypeOK
<1>1. CASE SubscribeMiss(r)
  <2>1. req' \in [Requests -> Request] /\ RequestsHaveTracks'
    <3> DEFINE f == Responding({r}, "error")
    <3>1. /\ f \in [Requests -> Request]
          /\ \A s \in Requests : f[s].pc = req[s].pc /\ f[s].track = req[s].track
      BY RespondingType
    <3>2. req' = [f EXCEPT ![r].pc = "end"]
      BY <1>1 DEF SubscribeMiss
    <3> HIDE DEF f
    <3> QED
      BY <3>1, <3>2, RequestGoes, Pcs, Zenon DEF OnTrack
  <2> QED
    BY <1>1, <2>1, Zenon DEF SubscribeMiss, TypeOK, ExchangesHaveTracks
<1>2. CASE Subscribe(r)
  <2>a. connected \in SUBSET Publishers
    BY DEF TypeOK
  <2>b. req[r] \in Request
    BY <1>a
  <2>1. /\ current' \in TrackIds /\ made' \in 0..MaxTracks
        /\ req'[r].track = current'
    BY <1>2, <1>a DEF Subscribe, TypeOK, TrackRef, TrackIds, NoTrack, Request
  <2>2. req' \in [Requests -> Request] /\ RequestsHaveTracks'
    <3>1. PICK q \in Request : q.track \in TrackIds /\ req' = [req EXCEPT ![r] = q]
      <4>1. CASE current = NoTrack
        <5> DEFINE q == [req[r] EXCEPT !.pc = "join", !.asked = connected,
                                       !.track = made + 1, !.creator = TRUE]
        <5>1. q \in Request /\ q.track \in TrackIds
          <6>1. made + 1 \in TrackIds
            BY <1>2, <2>1, <4>1 DEF Subscribe
          <6> QED
            BY <2>a, <2>b, <6>1, SubscribedType, Zenon
        <5>2. req' = [req EXCEPT ![r] = q]
          BY <1>2, <1>a, <4>1, Zenon DEF Subscribe
        <5> QED
          BY <5>1, <5>2, Zenon
      <4>2. CASE current # NoTrack
        <5> DEFINE q == [req[r] EXCEPT !.pc = "join", !.asked = connected,
                                       !.track = current]
        <5>1. q \in Request /\ q.track \in TrackIds
          <6>1. current \in TrackIds
            BY <1>2, <2>1, <4>2 DEF Subscribe
          <6> QED
            BY <2>a, <2>b, <6>1, SubscribedType, Zenon
        <5>2. req' = [req EXCEPT ![r] = q]
          BY <1>2, <1>a, <4>2, ZenonT(60) DEF Subscribe
        <5> QED
          BY <5>1, <5>2, ZenonT(60)
      <4> QED
        BY <4>1, <4>2
    <3> QED
      BY <1>a, <3>1, RequestPut, Zenon
  <2> QED
    BY <1>2, <2>1, <2>2 DEF Subscribe, TypeOK, TrackRef, ExchangesHaveTracks
<1>3. CASE Join(r)
  <2> DEFINE t == req[r].track
             taken == tracks[t].origin = "CacheOnly"
  <2>1. t \in TrackIds
    BY <1>3 DEF Join, TypeOK, RequestsHaveTracks
  <2>2. tracks' \in [TrackIds -> Track]
    <3>1. (IF taken THEN "Subscribe" ELSE tracks[t].origin) \in {"Subscribe", "CacheOnly"}
      BY <1>a, <2>1 DEF Track
    <3>2. (IF taken THEN "Pending" ELSE tracks[t].status) \in Statuses
      BY <1>a, <2>1, Pcs DEF Track
    <3>3. [tracks[t] EXCEPT !.origin = IF taken THEN "Subscribe" ELSE @,
                            !.status = IF taken THEN "Pending" ELSE @,
                            !.subs = @ \union {r}] \in Track
      BY <1>a, <2>1, <3>1, <3>2, JoinedType, Zenon
    <3> QED
      BY <1>3, <1>a, <2>1, <3>3, Zenon DEF Join
  <2>3. req' \in [Requests -> Request] /\ RequestsHaveTracks'
    <3> DEFINE q == [req[r] EXCEPT !.creator = @ \/ taken, !.pc = "assign"]
    <3>1. q \in Request /\ q.track \in TrackIds
      BY <1>a, <2>1, Pcs, ZenonT(60) DEF Request
    <3>2. req' = [req EXCEPT ![r] = q]
      BY <1>3, <1>a, Zenon DEF Join
    <3> HIDE DEF q
    <3> QED
      BY <1>a, <3>1, <3>2, RequestPut, Zenon
  <2> QED
    BY <1>3, <2>2, <2>3, SMTT(60) DEF Join, TypeOK, ExchangesHaveTracks
<1> QED
  BY <1>1, <1>2, <1>3

\* It is refused, asks the publishers, or is answered from the status.
LEMMA AnswerTypes ==
    ASSUME Countable, TypeOK, NEW r \in Requests,
           \/ Refused(r) \/ Count(r) \/ ReadStatus(r) \/ AnswerJoiner(r)
           \/ \E p \in Publishers : Forward(r, p)
    PROVE  TypeOK'
<1>a. req \in [Requests -> Request] /\ tracks \in [TrackIds -> Track]
  BY DEF TypeOK
<1>b. exch \in [Exchanges -> Exchange]
  BY DEF TypeOK
<1>t. req[r].pc \in OnTrack => req[r].track \in TrackIds
  BY DEF TypeOK, RequestsHaveTracks, OnTrack
<1> DEFINE t == req[r].track
<1>1. CASE Refused(r)
  <2>1. tracks' \in [TrackIds -> Track]
    <3>1. t \in TrackIds
      BY <1>1, <1>t DEF Refused, OnTrack
    <3>2. [tracks[t] EXCEPT !.subs = @ \ {r}] \in Track
      BY <1>a, <3>1 DEF Track
    <3> QED
      BY <1>1, <1>a, <3>1, <3>2 DEF Refused
  <2>2. req' \in [Requests -> Request] /\ RequestsHaveTracks'
    <3> DEFINE f == Responding({r}, "error")
    <3>1. /\ f \in [Requests -> Request]
          /\ \A s \in Requests : f[s].pc = req[s].pc /\ f[s].track = req[s].track
      BY RespondingType
    <3>2. req' = [f EXCEPT ![r].pc = "end"]
      BY <1>1 DEF Refused
    <3> HIDE DEF f
    <3> QED
      BY <3>1, <3>2, RequestGoes, Pcs, Zenon DEF OnTrack
  <2> QED
    BY <1>1, <2>1, <2>2, Zenon DEF Refused, TypeOK, ExchangesHaveTracks
<1>2. CASE Count(r)
  <2>1. t \in TrackIds
    BY <1>2, <1>t DEF Count, OnTrack
  <2>2. tracks' \in [TrackIds -> Track]
    <3>1. Cardinality(req[r].asked) \in Nat
      <4>1. req[r].asked \subseteq Publishers
        BY <1>a DEF Request
      <4> QED
        BY <4>1 DEF Countable
    <3>2. [tracks[t] EXCEPT !.unanswered = Cardinality(req[r].asked)] \in Track
      BY <1>a, <2>1, <3>1 DEF Track
    <3> QED
      BY <1>2, <1>a, <2>1, <3>2 DEF Count
  <2>3. req' \in [Requests -> Request] /\ RequestsHaveTracks'
    <3>1. req' = [req EXCEPT ![r].pc = "forward"]
      BY <1>2 DEF Count
    <3> QED
      BY <1>a, <2>1, <3>1, RequestGoes, Pcs, Zenon
  <2> QED
    BY <1>2, <2>2, <2>3 DEF Count, TypeOK, ExchangesHaveTracks
<1>3. CASE ReadStatus(r)
  <2>1. t \in TrackIds
    BY <1>3, <1>t DEF ReadStatus, OnTrack
  <2>2. req' \in [Requests -> Request] /\ RequestsHaveTracks'
    <3> DEFINE q == [req[r] EXCEPT !.seen = tracks[t].status, !.pc = "answer"]
    <3>1. tracks[t].status \in Statuses
      BY <1>a, <2>1 DEF Track
    <3>2. q \in Request /\ q.track \in TrackIds
      BY <1>a, <2>1, <3>1, Pcs, ZenonT(60) DEF Request
    <3>3. req' = [req EXCEPT ![r] = q]
      BY <1>3, <1>a, Zenon DEF ReadStatus
    <3> HIDE DEF q
    <3> QED
      BY <1>a, <3>2, <3>3, RequestPut, Zenon
  <2> QED
    BY <1>3, <2>2 DEF ReadStatus, TypeOK, ExchangesHaveTracks
<1>4. CASE AnswerJoiner(r)
  <2>1. t \in TrackIds
    BY <1>4, <1>t DEF AnswerJoiner, OnTrack
  <2>2. tracks' \in [TrackIds -> Track]
    <3>1. [tracks[t] EXCEPT !.waiting = @ \union {r}] \in Track
      BY <1>a, <2>1 DEF Track
    <3> QED
      BY <1>4, <1>a, <2>1, <3>1 DEF AnswerJoiner
  <2>3. req' \in [Requests -> Request] /\ RequestsHaveTracks'
    <3>1. CASE req[r].seen = "Pending"
      <4>1. req' = [req EXCEPT ![r].pc = "live"]
        BY <1>4, <3>1 DEF AnswerJoiner
      <4> QED
        BY <1>a, <4>1, RequestGoes, Pcs, Zenon DEF OnTrack
    <3>2. CASE req[r].seen # "Pending"
      <4>1. PICK kind \in {"ok", "error"}, pc \in {"live", "closed"} :
              req' = [Responding({r}, kind) EXCEPT ![r].pc = pc]
        BY <1>4, <3>2, Zenon DEF AnswerJoiner
      <4> DEFINE f == Responding({r}, kind)
      <4>2. /\ f \in [Requests -> Request]
            /\ \A s \in Requests : f[s].pc = req[s].pc /\ f[s].track = req[s].track
        BY RespondingType
      <4> HIDE DEF f
      <4>3. req' = [f EXCEPT ![r].pc = pc]
        BY <4>1 DEF f
      <4> QED
        BY <4>2, <4>3, RequestGoes, Pcs, Zenon DEF OnTrack
    <3> QED
      BY <3>1, <3>2
  <2> QED
    BY <1>4, <2>2, <2>3 DEF AnswerJoiner, TypeOK, ExchangesHaveTracks
<1>5. CASE \E p \in Publishers : Forward(r, p)
  <2>1. PICK p \in Publishers : Forward(r, p)
    BY <1>5
  <2>2. <<r, p>> \in Exchanges
    BY DEF Exchanges
  <2>3. exch' \in [Exchanges -> Exchange] /\ ExchangesHaveTracks'
    <3>1. Goes(<<r, p>>, "send")
      BY <2>1 DEF Forward, Goes
    <3> QED
      BY <2>2, <3>1, GoesType, Pcs DEF OnFound
  <2>4. req' \in [Requests -> Request] /\ RequestsHaveTracks'
    <3>1. req' = req \/ req' = [req EXCEPT ![r].pc = "live"]
      BY <2>1 DEF Forward
    <3>2. CASE req' = req
      BY <3>2, <1>a DEF TypeOK, RequestsHaveTracks
    <3>3. CASE req' = [req EXCEPT ![r].pc = "live"]
      BY <1>a, <3>3, RequestGoes, Pcs, Zenon DEF OnTrack
    <3> QED
      BY <3>1, <3>2, <3>3
  <2> QED
    <3>1. UNCHANGED <<current, made, tracks, aliases, connected, closing>>
      BY <2>1, Zenon DEF Forward
    <3> QED
      BY <2>3, <2>4, <3>1, Zenon DEF TypeOK
<1> QED
  BY <1>1, <1>2, <1>3, <1>4, <1>5

\* A subscriber cancels, leaves and cleans up, or loses its session.
LEMMA LeaveTypes ==
    ASSUME TypeOK, NEW r \in Requests,
           Cancel(r) \/ Leave(r) \/ LeaveCleansUp(r) \/ Disconnect(r)
    PROVE  TypeOK'
<1>a. req \in [Requests -> Request] /\ tracks \in [TrackIds -> Track]
  BY DEF TypeOK
<1>b. exch \in [Exchanges -> Exchange]
  BY DEF TypeOK
<1>1. CASE Cancel(r)
  <2>1. req' \in [Requests -> Request] /\ RequestsHaveTracks'
    <3>1. PICK pc \in {"leave", "closed"} :
            /\ req' = [req EXCEPT ![r].track = current, ![r].pc = pc]
            /\ pc = "leave" => current # NoTrack
      BY <1>1, Zenon DEF Cancel
    <3> DEFINE q == [req[r] EXCEPT !.track = current, !.pc = pc]
    <3>2. /\ current \in TrackRef
          /\ pc = "leave" => current \in TrackIds
      BY <3>1 DEF TypeOK, TrackRef
    <3>3. q \in Request /\ q.pc = pc /\ q.track = current
      BY <1>a, <3>2, Pcs, Zenon DEF Request
    <3>4. req' = [req EXCEPT ![r] = q]
      BY <3>1, <1>a, ZenonT(60)
    <3> HIDE DEF q
    <3> QED
      BY <1>a, <3>2, <3>3, <3>4, RequestPut, Zenon DEF OnTrack
  <2> QED
    BY <1>1, <2>1 DEF Cancel, TypeOK, ExchangesHaveTracks
<1>2. CASE Leave(r)
  <2> DEFINE t == req[r].track
             left == [tracks[t] EXCEPT !.subs = @ \ {r}]
  <2>1. t \in TrackIds
    <3>1. req[r].pc = "leave"
      BY <1>2, Zenon DEF Leave
    <3> QED
      BY <3>1, Zenon DEF TypeOK, RequestsHaveTracks
  <2>2. left \in Track
    BY <1>a, <2>1, SMTT(60) DEF Track
  <2>3. CacheOnly(left) \in Track /\ [left EXCEPT !.registered = {}] \in Track
    <3> HIDE DEF left
    <3>1. [left EXCEPT !.registered = {}] \in Track
      BY <2>2 DEF Track
    <3> QED
      BY <2>2, <3>1, CacheOnlyType
  <2>4. PICK v \in Track, pc \in {"closed", "unalias", "remove"},
             d \in {req[r].dropped, left.pubs} :
          /\ tracks' = [tracks EXCEPT ![t] = v]
          /\ req' = [req EXCEPT ![r].pc = pc, ![r].dropped = d]
    <3> HIDE DEF left
    <3>1. /\ tracks' \in {[tracks EXCEPT ![t] = left], [tracks EXCEPT ![t] = CacheOnly(left)],
                          [tracks EXCEPT ![t] = [left EXCEPT !.registered = {}]]}
          /\ \/ \E pc \in {"closed", "remove"} : req' = [req EXCEPT ![r].pc = pc]
             \/ req' = [req EXCEPT ![r].pc = "unalias", ![r].dropped = left.pubs]
      BY <1>2, Zenon DEF Leave, left
    <3>2. ASSUME NEW pc \in {"closed", "remove"}, req' = [req EXCEPT ![r].pc = pc]
          PROVE  req' = [req EXCEPT ![r].pc = pc, ![r].dropped = req[r].dropped]
      BY <1>a, <3>2, Zenon DEF Request
    <3> QED
      BY <2>2, <2>3, <3>1, <3>2, SMTT(60)
  <2>5. tracks' \in [TrackIds -> Track]
    BY <1>a, <2>4, Zenon
  <2>6. req' \in [Requests -> Request] /\ RequestsHaveTracks'
    <3> DEFINE q == [req[r] EXCEPT !.pc = pc, !.dropped = d]
    <3>1. d \in SUBSET Publishers
      <4> HIDE DEF left
      <4> QED
        BY <1>a, <2>2, <2>4 DEF Request, Track
    <3>2. q \in Request /\ q.pc = pc
      BY <1>a, <3>1, Pcs, ZenonT(60) DEF Request
    <3>3. req' = [req EXCEPT ![r] = q]
      BY <1>a, <2>4, Zenon
    <3> HIDE DEF q, left
    <3> QED
      BY <1>a, <3>2, <3>3, RequestPut, Zenon DEF OnTrack
  <2>7. exch' \in [Exchanges -> Exchange] /\ ExchangesHaveTracks'
    <3> HIDE DEF left
    <3>1. exch' = exch \/ exch' = Signalling(left.registered)
      BY <1>2, Zenon DEF Leave, left
    <3>2. /\ exch' \in [Exchanges -> Exchange]
          /\ \A x \in Exchanges : /\ exch'[x].pc = exch[x].pc
                                  /\ exch'[x].home = exch[x].home
                                  /\ exch'[x].track = exch[x].track
      BY <1>b, <3>1, SignallingType
    <3> QED
      BY <3>2 DEF TypeOK, ExchangesHaveTracks
  <2> QED
    <3>1. UNCHANGED <<current, made, aliases, connected, closing>>
      BY <1>2, Zenon DEF Leave
    <3> QED
      BY <2>5, <2>6, <2>7, <3>1, Zenon DEF TypeOK
<1>3. CASE LeaveCleansUp(r)
  <2>1. current' \in TrackRef /\ aliases' \in SUBSET Publishers
    BY <1>3 DEF LeaveCleansUp, RemoveTrack, TypeOK, TrackRef
  <2>2. req' \in [Requests -> Request] /\ RequestsHaveTracks'
    <3>1. req' = [req EXCEPT ![r].pc = "closed"]
      BY <1>3 DEF LeaveCleansUp
    <3> QED
      BY <1>a, <3>1, RequestGoes, Pcs, Zenon DEF OnTrack
  <2> QED
    BY <1>3, <2>1, <2>2 DEF LeaveCleansUp, TypeOK, ExchangesHaveTracks
<1>4. CASE Disconnect(r)
  <2>1. tracks' \in [TrackIds -> Track]
    <3>1. CASE current = NoTrack
      BY <1>4, <1>a, <3>1 DEF Disconnect
    <3>2. CASE current # NoTrack
      <4>1. current \in TrackIds
        BY <3>2 DEF TypeOK, TrackRef
      <4>2. [tracks[current] EXCEPT !.subs = @ \ {r}] \in Track
        BY <1>a, <4>1 DEF Track
      <4>3. tracks' = [tracks EXCEPT ![current].subs = @ \ {r}]
        BY <1>4, <3>2 DEF Disconnect
      <4> QED
        BY <1>a, <4>1, <4>2, <4>3
    <3> QED
      BY <3>1, <3>2
  <2>2. req' \in [Requests -> Request] /\ RequestsHaveTracks'
    <3> DEFINE q == [req[r] EXCEPT !.gone = TRUE]
    <3>1. q \in Request /\ q.pc = req[r].pc /\ q.track = req[r].track
      BY <1>a, Zenon DEF Request
    <3>2. req' = [req EXCEPT ![r] = q]
      BY <1>4, <1>a DEF Disconnect
    <3>3. q.pc \in OnTrack => q.track \in TrackIds
      BY <3>1 DEF TypeOK, RequestsHaveTracks, OnTrack
    <3> HIDE DEF q
    <3> QED
      BY <1>a, <3>1, <3>2, <3>3, RequestPut, Zenon
  <2> QED
    BY <1>4, <2>1, <2>2 DEF Disconnect, TypeOK, ExchangesHaveTracks
<1> QED
  BY <1>1, <1>2, <1>3, <1>4

(***************************************************************************)
(* Then the steps of the exchanges.                                         *)
(***************************************************************************)

\* What the updates of several fields leave of an exchange.
LEMMA ExchangeTypes ==
    ASSUME NEW e \in Exchange, NEW pc \in ExchangePcs, NEW t \in TrackRef,
           NEW d \in SUBSET Publishers
    PROVE  /\ [e EXCEPT !.pc = pc, !.home = t] \in Exchange
           /\ [e EXCEPT !.pc = pc, !.cancel = TRUE] \in Exchange
           /\ [e EXCEPT !.pc = pc, !.answered = TRUE] \in Exchange
           /\ [e EXCEPT !.pc = pc, !.answered = TRUE, !.unsupported = TRUE] \in Exchange
           /\ [e EXCEPT !.accepted = TRUE, !.pc = pc] \in Exchange
           /\ [e EXCEPT !.track = t, !.pc = pc] \in Exchange
           /\ [e EXCEPT !.pc = pc, !.track = t] \in Exchange
           /\ [e EXCEPT !.pending = FALSE, !.track = t, !.pc = pc] \in Exchange
           /\ [e EXCEPT !.pc = pc, !.track = t, !.dropped = d] \in Exchange
<1>1. [e EXCEPT !.pc = pc, !.home = t] \in Exchange
  BY Zenon DEF Exchange
<1>2. [e EXCEPT !.pc = pc, !.cancel = TRUE] \in Exchange
  BY Zenon DEF Exchange
<1>3. [e EXCEPT !.pc = pc, !.answered = TRUE] \in Exchange
  BY Zenon DEF Exchange
<1>4. [e EXCEPT !.pc = pc, !.answered = TRUE, !.unsupported = TRUE] \in Exchange
  BY Zenon DEF Exchange
<1>5. [e EXCEPT !.accepted = TRUE, !.pc = pc] \in Exchange
  BY Zenon DEF Exchange
<1>6. [e EXCEPT !.track = t, !.pc = pc] \in Exchange
  BY Zenon DEF Exchange
<1>7. [e EXCEPT !.pc = pc, !.track = t] \in Exchange
  BY Zenon DEF Exchange
<1>8. [e EXCEPT !.pending = FALSE, !.track = t, !.pc = pc] \in Exchange
  BY Zenon DEF Exchange
<1>9. [e EXCEPT !.pc = pc, !.track = t, !.dropped = d] \in Exchange
  BY Zenon DEF Exchange
<1> QED
  BY <1>1, <1>2, <1>3, <1>4, <1>5, <1>6, <1>7, <1>8, <1>9

\* Steps that change nothing but the exchange.
LEMMA WaitTypes ==
    ASSUME TypeOK, NEW x \in Exchanges,
           \/ Send(x) \/ FindTrack(x) \/ Cancelled(x) \/ AnswerDeadline(x)
           \/ Fails(x) \/ Accepts(x) \/ FindRejected(x)
    PROVE  TypeOK'
<1>a. exch \in [Exchanges -> Exchange] /\ exch[x] \in Exchange
  BY DEF TypeOK
<1>b. current \in TrackRef /\ (current # NoTrack => current \in TrackIds)
  BY DEF TypeOK, TrackRef
<1>1. exch' \in [Exchanges -> Exchange] /\ ExchangesHaveTracks'
  <2>1. CASE Send(x) \/ Cancelled(x) \/ AnswerDeadline(x)
    <3>1. PICK pc \in {"sent", "ended", "cancelled"} : Goes(x, pc)
      BY <2>1 DEF Send, Cancelled, AnswerDeadline
    <3> QED
      BY <3>1, GoesType, Pcs DEF OnFound
  <2>2. CASE FindTrack(x)
    <3>1. CASE current = NoTrack
      BY <2>2, <3>1, GoesType, Pcs DEF FindTrack, OnFound
    <3>2. CASE current # NoTrack
      <4> DEFINE e == [exch[x] EXCEPT !.pc = "register", !.home = current]
      <4>1. e \in Exchange
        BY <1>a, <1>b, ExchangeTypes, Pcs, Zenon
      <4>2. e.pc = "register" /\ e.home = current
        BY <1>a DEF Exchange
      <4>3. exch' = [exch EXCEPT ![x] = e]
        BY <2>2, <3>2, <1>a, Zenon DEF FindTrack
      <4> HIDE DEF e
      <4> QED
        BY <1>a, <1>b, <3>2, <4>1, <4>2, <4>3, ExchangePut, Zenon DEF OnFound
    <3> QED
      BY <3>1, <3>2
  <2>3. CASE Fails(x) \/ Accepts(x)
    <3>1. PICK pc \in {"ended", "ok", "error"} :
            \/ exch' = [exch EXCEPT ![x].pc = pc, ![x].answered = TRUE]
            \/ exch' = [exch EXCEPT ![x].pc = pc, ![x].answered = TRUE,
                                   ![x].unsupported = TRUE]
      BY <2>3, ZenonT(60) DEF Fails, Accepts
    <3>2. PICK e \in Exchange : e.pc = pc /\ exch' = [exch EXCEPT ![x] = e]
      <4>0. pc \in ExchangePcs
        BY Pcs
      <4>1. CASE exch' = [exch EXCEPT ![x].pc = pc, ![x].answered = TRUE]
        <5> DEFINE e == [exch[x] EXCEPT !.pc = pc, !.answered = TRUE]
        <5>1. e \in Exchange
          BY <1>a, <1>b, <4>0, ExchangeTypes, Zenon
        <5>2. e.pc = pc /\ exch' = [exch EXCEPT ![x] = e]
          BY <1>a, <4>1, Zenon DEF Exchange
        <5> QED
          BY <5>1, <5>2, Zenon
      <4>2. CASE exch' = [exch EXCEPT ![x].pc = pc, ![x].answered = TRUE,
                                      ![x].unsupported = TRUE]
        <5> DEFINE e == [exch[x] EXCEPT !.pc = pc, !.answered = TRUE, !.unsupported = TRUE]
        <5>1. e \in Exchange
          BY <1>a, <1>b, <4>0, ExchangeTypes, Zenon
        <5>2. e.pc = pc /\ exch' = [exch EXCEPT ![x] = e]
          BY <1>a, <4>2, Zenon DEF Exchange
        <5> QED
          BY <5>1, <5>2, ZenonT(60)
      <4> QED
        BY <3>1, <4>1, <4>2
    <3> QED
      BY <1>a, <3>1, <3>2, ExchangePut, Zenon DEF OnFound
  <2>4. CASE FindRejected(x)
    <3>1. CASE ~exch[x].pending
      BY <2>4, <3>1, GoesType, Pcs DEF FindRejected, OnFound
    <3>2. CASE exch[x].pending
      <4>1. PICK pc \in {"wait", "over", "reject"} :
              exch' = [exch EXCEPT ![x].pending = FALSE, ![x].track = current, ![x].pc = pc]
        BY <2>4, <3>2, Zenon DEF FindRejected, Returns
      <4> DEFINE e == [exch[x] EXCEPT !.pending = FALSE, !.track = current, !.pc = pc]
      <4>2. e \in Exchange
        BY <1>a, <1>b, ExchangeTypes, Pcs, Zenon
      <4>3. e.pc = pc
        BY <1>a DEF Exchange
      <4>4. exch' = [exch EXCEPT ![x] = e]
        BY <1>a, <4>1, Zenon
      <4> HIDE DEF e
      <4> QED
        BY <1>a, <4>2, <4>3, <4>4, ExchangePut, Zenon DEF OnFound
    <3> QED
      BY <3>1, <3>2
  <2> QED
    BY <2>1, <2>2, <2>3, <2>4
<1>2. UNCHANGED <<current, made, tracks, aliases, connected, req, closing>>
  BY DEF Send, FindTrack, Cancelled, AnswerDeadline, Fails, Accepts, FindRejected
<1> QED
  BY <1>1, <1>2 DEF TypeOK, RequestsHaveTracks

\* An exchange that moves on with the Track it found by name.
LEMMA FoundType ==
    ASSUME TypeOK, NEW x \in Exchanges, NEW pc \in ExchangePcs, NEW t \in TrackIds,
           pc # "register",
           \/ exch' = [exch EXCEPT ![x].track = t, ![x].pc = pc]
           \/ exch' = [exch EXCEPT ![x].pc = pc, ![x].track = t]
    PROVE  exch' \in [Exchanges -> Exchange] /\ ExchangesHaveTracks'
<1> DEFINE e == [exch[x] EXCEPT !.track = t, !.pc = pc]
<1>1. exch \in [Exchanges -> Exchange] /\ exch[x] \in Exchange
  BY DEF TypeOK
<1>2. e \in Exchange
  BY <1>1, ExchangeTypes, Zenon DEF TrackRef
<1>3. e.pc = pc /\ e.track = t
  BY <1>1 DEF Exchange
<1>4. exch' = [exch EXCEPT ![x] = e]
  BY <1>1, Zenon DEF Exchange
<1> HIDE DEF e
<1> QED
  BY <1>1, <1>2, <1>3, <1>4, ExchangePut, Zenon

\* Steps that register, answer or end an upstream request on a Track.
LEMMA UpstreamTypes ==
    ASSUME TypeOK, NEW x \in Exchanges,
           \/ Register(x) \/ CleanUpCancelled(x) \/ UpstreamDone(x) \/ EndUpstream(x)
           \/ DropPublisher(x) \/ Reject(x)
    PROVE  TypeOK'
<1>a. exch \in [Exchanges -> Exchange] /\ exch[x] \in Exchange
  BY DEF TypeOK
<1>b. current \in TrackRef /\ (current # NoTrack => current \in TrackIds)
  BY DEF TypeOK, TrackRef
<1>c. tracks \in [TrackIds -> Track] /\ aliases \in SUBSET Publishers
  BY DEF TypeOK
<1>d. x[2] \in Publishers
  BY DEF Exchanges
<1>e. exch[x].pc = "drop" => exch[x].track \in TrackIds
  BY DEF TypeOK, ExchangesHaveTracks
<1>1. CASE Register(x)
  <2> DEFINE t == exch[x].home
  <2>1. t \in TrackIds
    BY <1>1 DEF Register, At, TypeOK, ExchangesHaveTracks
  <2>2. tracks' \in [TrackIds -> Track]
    <3>1. [tracks[t] EXCEPT !.registered = @ \union {x}] \in Track
      BY <1>c, <2>1 DEF Track
    <3> QED
      BY <1>1, <1>c, <2>1, <3>1, SMTT(60) DEF Register
  <2>3. exch' \in [Exchanges -> Exchange] /\ ExchangesHaveTracks'
    <3>1. CASE tracks[t].subs = {}
      <4> DEFINE e == [exch[x] EXCEPT !.pc = "wait", !.cancel = TRUE]
      <4>1. e \in Exchange
        BY <1>a, <1>b, ExchangeTypes, Pcs, Zenon
      <4>2. e.pc = "wait"
        BY <1>a DEF Exchange
      <4>3. exch' = [exch EXCEPT ![x] = e]
        BY <1>1, <1>a, <3>1, Zenon DEF Register
      <4> HIDE DEF e
      <4> QED
        BY <1>a, <4>1, <4>2, <4>3, ExchangePut, Zenon DEF OnFound
    <3>2. CASE tracks[t].subs # {}
      BY <1>1, <3>2, GoesType, Pcs DEF Register, OnFound
    <3> QED
      BY <3>1, <3>2
  <2> QED
    BY <1>1, <2>2, <2>3 DEF Register, TypeOK, RequestsHaveTracks
<1>2. CASE CleanUpCancelled(x)
  <2>1. exch' \in [Exchanges -> Exchange] /\ ExchangesHaveTracks'
    BY <1>2, GoesType, Pcs DEF CleanUpCancelled, OnFound
  <2>2. tracks' \in [TrackIds -> Track] /\ aliases' \in SUBSET Publishers
    <3>1. CASE current = NoTrack
      BY <1>2, <1>c, <3>1 DEF CleanUpCancelled
    <3>2. CASE current # NoTrack
      <4>1. /\ [tracks[current] EXCEPT !.pubs = @ \ {x[2]}] \in Track
            /\ [tracks[current] EXCEPT !.unanswered = OneLess(@)] \in Track
        BY <1>b, <1>c, <1>d, <3>2, TrackTypes
      <4> QED
        BY <1>2, <1>b, <1>c, <3>2, <4>1 DEF CleanUpCancelled
    <3> QED
      BY <3>1, <3>2
  <2> QED
    BY <1>2, <2>1, <2>2 DEF CleanUpCancelled, TypeOK, RequestsHaveTracks
<1>3. CASE UpstreamDone(x)
  <2>1. CASE current = NoTrack
    <3>1. exch' \in [Exchanges -> Exchange] /\ ExchangesHaveTracks'
      BY <1>3, <2>1, GoesType, Pcs DEF UpstreamDone, OnFound
    <3> QED
      BY <1>3, <2>1, <3>1 DEF UpstreamDone, TypeOK, RequestsHaveTracks
  <2>2. CASE current # NoTrack
    <3>1. exch' \in [Exchanges -> Exchange] /\ ExchangesHaveTracks'
      <4>1. PICK pc \in {"notify", "over"} :
              exch' = [exch EXCEPT ![x].track = current, ![x].pc = pc]
        BY <1>3, <2>2 DEF UpstreamDone
      <4> QED
        BY <1>b, <2>2, <4>1, FoundType, Pcs, Zenon
    <3>2. tracks' \in [TrackIds -> Track]
      <4>1. [tracks[current] EXCEPT !.pubs = @ \ {x[2]}] \in Track
        BY <1>b, <1>c, <1>d, <2>2, TrackTypes, Zenon
      <4> QED
        BY <1>3, <1>b, <1>c, <2>2, <4>1, Zenon DEF UpstreamDone
    <3> QED
      BY <1>3, <3>1, <3>2 DEF UpstreamDone, TypeOK, RequestsHaveTracks
  <2> QED
    BY <2>1, <2>2
<1>4. CASE EndUpstream(x)
  <2>1. CASE current = NoTrack
    <3>1. exch' \in [Exchanges -> Exchange] /\ ExchangesHaveTracks'
      BY <1>4, <2>1, GoesType, Pcs DEF EndUpstream, OnFound
    <3> QED
      BY <1>4, <2>1, <3>1 DEF EndUpstream, TypeOK, RequestsHaveTracks
  <2>2. CASE current # NoTrack
    <3>1. exch' \in [Exchanges -> Exchange] /\ ExchangesHaveTracks'
      <4>1. PICK pc \in {"drop", "over", "error"} :
              exch' = [exch EXCEPT ![x].track = current, ![x].pc = pc]
        BY <1>4, <2>2 DEF EndUpstream
      <4> QED
        BY <1>b, <2>2, <4>1, FoundType, Pcs, Zenon
    <3>2. tracks' \in [TrackIds -> Track]
      <4>1. [tracks[current] EXCEPT !.unanswered = OneLess(@)] \in Track
        BY <1>b, <1>c, <1>d, <2>2, TrackTypes, ZenonT(60)
      <4> QED
        BY <1>4, <1>b, <1>c, <2>2, <4>1 DEF EndUpstream
    <3> QED
      BY <1>4, <3>1, <3>2 DEF EndUpstream, TypeOK, RequestsHaveTracks
  <2> QED
    BY <2>1, <2>2
<1>5. CASE DropPublisher(x)
  <2> DEFINE t == exch[x].track
  <2>1. t \in TrackIds
    BY <1>5, <1>e DEF DropPublisher, At
  <2>2. exch' \in [Exchanges -> Exchange] /\ ExchangesHaveTracks'
    <3>1. PICK pc \in {"notify", "over"} : Goes(x, pc)
      BY <1>5 DEF DropPublisher
    <3> QED
      BY <2>1, <3>1, GoesType, Pcs
  <2>3. tracks' \in [TrackIds -> Track] /\ aliases' \in SUBSET Publishers
    <3>1. [tracks[t] EXCEPT !.pubs = @ \ {x[2]}] \in Track
      BY <1>c, <1>d, <2>1, TrackTypes, Zenon
    <3> QED
      BY <1>5, <1>c, <2>1, <3>1 DEF DropPublisher
  <2> QED
    BY <1>5, <2>2, <2>3 DEF DropPublisher, TypeOK, RequestsHaveTracks
<1>6. CASE Reject(x)
  <2> DEFINE t == exch[x].track
  <2>1. exch' \in [Exchanges -> Exchange] /\ ExchangesHaveTracks'
    BY <1>6, GoesType, Pcs DEF Reject, OnFound
  <2>2. tracks' \in [TrackIds -> Track]
    <3>1. CASE t = NoTrack
      BY <1>6, <1>c, <3>1 DEF Reject
    <3>2. CASE t # NoTrack
      <4>1. t \in TrackIds
        BY <1>a, <3>2 DEF Exchange, TrackRef
      <4>2. [tracks[t] EXCEPT !.status = "Rejected"] \in Track
        BY <1>c, <4>1, Pcs DEF Track
      <4> QED
        BY <1>6, <1>c, <3>2, <4>1, <4>2 DEF Reject
    <3> QED
      BY <3>1, <3>2
  <2> QED
    BY <1>6, <2>1, <2>2 DEF Reject, TypeOK, RequestsHaveTracks
<1> QED
  BY <1>1, <1>2, <1>3, <1>4, <1>5, <1>6

\* A step that only answers or tells requests.
LEMMA AnsweredType ==
    ASSUME TypeOK, NEW to,
           \/ \E kind \in {"ok", "error"} : req' = Responding(to, kind)
           \/ req' = Telling(to)
    PROVE  req' \in [Requests -> Request] /\ RequestsHaveTracks'
<1>1. /\ req' \in [Requests -> Request]
      /\ \A r \in Requests : req'[r].pc = req[r].pc /\ req'[r].track = req[r].track
  BY RespondingType, TellingType
<1> QED
  BY <1>1 DEF TypeOK, RequestsHaveTracks

\* A step that only signals exchanges.
LEMMA SignalledType ==
    ASSUME TypeOK, NEW signalled, exch' = Signalling(signalled)
    PROVE  exch' \in [Exchanges -> Exchange] /\ ExchangesHaveTracks'
<1>1. /\ exch' \in [Exchanges -> Exchange]
      /\ \A x \in Exchanges : /\ exch'[x].pc = exch[x].pc
                              /\ exch'[x].home = exch[x].home
                              /\ exch'[x].track = exch[x].track
  BY SignallingType
<1> QED
  BY <1>1 DEF TypeOK, ExchangesHaveTracks

\* Steps that answer the subscribers.
LEMMA TellTypes ==
    ASSUME TypeOK, NEW x \in Exchanges,
           \/ OkAlias(x) \/ Confirm(x) \/ TellCreator(x) \/ TellWaiting(x)
           \/ NotifyDone(x) \/ TellErrorCreator(x) \/ TellErrorWaiting(x)
    PROVE  TypeOK'
<1>a. exch \in [Exchanges -> Exchange] /\ exch[x] \in Exchange
  BY DEF TypeOK
<1>b. current \in TrackRef /\ (current # NoTrack => current \in TrackIds)
  BY DEF TypeOK, TrackRef
<1>c. tracks \in [TrackIds -> Track] /\ aliases \in SUBSET Publishers
  BY DEF TypeOK
<1>d. x[2] \in Publishers
  BY DEF Exchanges
<1>e. exch[x].pc \in OnFound => exch[x].track \in TrackIds
  BY DEF TypeOK, ExchangesHaveTracks, OnFound
<1> DEFINE t == exch[x].track
<1>1. CASE OkAlias(x)
  <2>1. CASE Goes(x, "wait") \/ Goes(x, "ended")
    <3>1. exch' \in [Exchanges -> Exchange] /\ ExchangesHaveTracks'
      BY <2>1, GoesType, Pcs DEF OnFound
    <3>2. aliases' \in SUBSET Publishers
      BY <1>1, <1>c, <1>d DEF OkAlias
    <3> QED
      BY <1>1, <3>1, <3>2 DEF OkAlias, TypeOK, RequestsHaveTracks
  <2>2. CASE /\ current # NoTrack
             /\ exch' = [exch EXCEPT ![x].pc = "confirm", ![x].track = current]
    <3>1. exch' \in [Exchanges -> Exchange] /\ ExchangesHaveTracks'
      BY <1>b, <2>2, FoundType, Pcs, Zenon
    <3>2. aliases' \in SUBSET Publishers
      BY <1>1, <1>c, <1>d DEF OkAlias
    <3> QED
      BY <1>1, <3>1, <3>2 DEF OkAlias, TypeOK, RequestsHaveTracks
  <2> QED
    BY <1>1, <2>1, <2>2 DEF OkAlias
<1>2. CASE Confirm(x)
  <2>1. t \in TrackIds
    BY <1>2, <1>e DEF Confirm, At, OnFound
  <2>2. exch' \in [Exchanges -> Exchange] /\ ExchangesHaveTracks'
    <3>1. PICK pc \in {"tell", "wait"} :
            exch' = [exch EXCEPT ![x].accepted = TRUE, ![x].pc = pc]
      BY <1>2, Zenon DEF Confirm
    <3> DEFINE e == [exch[x] EXCEPT !.accepted = TRUE, !.pc = pc]
    <3>2. e \in Exchange
      BY <1>a, <1>b, ExchangeTypes, Pcs, Zenon
    <3>3. e.pc = pc /\ e.track = t
      BY <1>a DEF Exchange
    <3>4. exch' = [exch EXCEPT ![x] = e]
      BY <1>a, <3>1, Zenon
    <3>5. e.pc # "register" /\ e.track \in TrackIds
      BY <2>1, <3>1, <3>3
    <3> HIDE DEF e
    <3> QED
      BY <1>a, <3>2, <3>4, <3>5, ExchangePut, Zenon
  <2>3. tracks' \in [TrackIds -> Track]
    <3>1. Confirmed(tracks[t], x[2]) \in Track
      BY <1>c, <1>d, <2>1, TrackTypes, Zenon
    <3> QED
      BY <1>2, <1>c, <2>1, <3>1 DEF Confirm
  <2> QED
    BY <1>2, <2>2, <2>3 DEF Confirm, TypeOK, RequestsHaveTracks
<1>3. CASE TellCreator(x)
  <2>1. t \in TrackIds
    BY <1>3, <1>e DEF TellCreator, At, OnFound
  <2>2. exch' \in [Exchanges -> Exchange] /\ ExchangesHaveTracks'
    <3>1. Goes(x, "tellWaiting")
      BY <1>3, Zenon DEF TellCreator
    <3> QED
      BY <2>1, <3>1, GoesType, Pcs, Zenon
  <2>3. req' \in [Requests -> Request] /\ RequestsHaveTracks'
    <3>1. PICK S : req' = Responding(S, "ok")
      BY <1>3, Zenon DEF TellCreator
    <3> QED
      BY <3>1, AnsweredType, Zenon
  <2> QED
    BY <1>3, <2>2, <2>3, Zenon DEF TellCreator, TypeOK
<1>4. CASE TellWaiting(x) \/ TellErrorWaiting(x)
  <2>1. t \in TrackIds
    BY <1>4, <1>e DEF TellWaiting, TellErrorWaiting, At, OnFound
  <2>2. exch' \in [Exchanges -> Exchange] /\ ExchangesHaveTracks'
    <3>1. PICK pc \in {"wait", "retire"} : Goes(x, pc)
      BY <1>4 DEF TellWaiting, TellErrorWaiting
    <3> QED
      BY <3>1, GoesType, Pcs DEF OnFound
  <2>3. req' \in [Requests -> Request] /\ RequestsHaveTracks'
    BY <1>4, AnsweredType DEF TellWaiting, TellErrorWaiting
  <2>4. tracks' \in [TrackIds -> Track]
    <3>1. [tracks[t] EXCEPT !.waiting = {}] \in Track
      BY <1>c, <2>1 DEF Track
    <3> QED
      BY <1>4, <1>c, <2>1, <3>1 DEF TellWaiting, TellErrorWaiting
  <2> QED
    BY <1>4, <2>2, <2>3, <2>4 DEF TellWaiting, TellErrorWaiting, TypeOK
<1>5. CASE NotifyDone(x)
  <2>1. exch' \in [Exchanges -> Exchange] /\ ExchangesHaveTracks'
    <3>1. Goes(x, "over")
      BY <1>5, ZenonT(60) DEF NotifyDone
    <3> QED
      BY <3>1, GoesType, Pcs, Zenon DEF OnFound
  <2>2. req' \in [Requests -> Request] /\ RequestsHaveTracks'
    BY <1>5, AnsweredType DEF NotifyDone
  <2> QED
    BY <1>5, <2>1, <2>2, Zenon DEF NotifyDone, TypeOK
<1>6. CASE TellErrorCreator(x)
  <2>1. exch' \in [Exchanges -> Exchange] /\ ExchangesHaveTracks'
    <3>1. PICK pc \in {"wait", "over", "tellErrorWaiting"} :
            Goes(x, pc) /\ (pc = "tellErrorWaiting" => t # NoTrack)
      BY <1>6 DEF TellErrorCreator, Returns
    <3>2. t # NoTrack => t \in TrackIds
      BY <1>a DEF Exchange, TrackRef
    <3> QED
      BY <3>1, <3>2, GoesType, Pcs DEF OnFound
  <2>2. req' \in [Requests -> Request] /\ RequestsHaveTracks'
    BY <1>6, AnsweredType DEF TellErrorCreator
  <2> QED
    BY <1>6, <2>1, <2>2, Zenon DEF TellErrorCreator, TypeOK
<1> QED
  BY <1>1, <1>2, <1>3, <1>4, <1>5, <1>6

\* retire leaves Tracks.
LEMMA RetiredType ==
    ASSUME TypeOK, NEW t \in TrackIds
    PROVE  Retired(t) \in [TrackIds -> Track]
<1>1. tracks \in [TrackIds -> Track] /\ CacheOnly(tracks[t]) \in Track
  BY CacheOnlyType DEF TypeOK
<1>2. [CacheOnly(tracks[t]) EXCEPT !.subs = {}] \in Track
  BY <1>1 DEF Track
<1> QED
  BY <1>1, <1>2 DEF Retired

\* Steps that let go of the Track the name leads to.
LEMMA RetireTypes ==
    ASSUME TypeOK, NEW x \in Exchanges, Retire(x) \/ CleanUp(x)
    PROVE  TypeOK'
<1>a. exch \in [Exchanges -> Exchange] /\ exch[x] \in Exchange
  BY DEF TypeOK
<1>b. current \in TrackRef /\ (current # NoTrack => current \in TrackIds)
  BY DEF TypeOK, TrackRef
<1>c. tracks \in [TrackIds -> Track]
  BY DEF TypeOK
<1>1. CASE Retire(x)
  <2>1. CASE current = NoTrack
    <3>1. exch' \in [Exchanges -> Exchange] /\ ExchangesHaveTracks'
      <4>1. PICK pc \in {"wait", "over"} : Goes(x, pc)
        <5>1. Goes(x, Returns(x))
          BY <1>1, <2>1, Zenon DEF Retire
        <5>2. Returns(x) \in {"wait", "over"}
          BY Zenon DEF Returns
        <5> QED
          BY <5>1, <5>2, Zenon
      <4> QED
        BY <4>1, GoesType, Pcs DEF OnFound
    <3> QED
      <4>1. UNCHANGED <<current, made, tracks, aliases, connected, req, closing>>
        BY <1>1, <2>1, Zenon DEF Retire
      <4> QED
        BY <3>1, <4>1, Zenon DEF TypeOK, RequestsHaveTracks
  <2>2. CASE current # NoTrack
    <3>1. tracks' \in [TrackIds -> Track]
      BY <1>1, <1>b, <2>2, RetiredType, Zenon DEF Retire
    <3>2. exch' \in [Exchanges -> Exchange] /\ ExchangesHaveTracks'
      <4>1. CASE tracks[current].cached
        <5> DEFINE f == Signalling(tracks[current].registered)
                   e == [f[x] EXCEPT !.pc = "unalias", !.track = current,
                                     !.dropped = tracks[current].pubs]
        <5>1. /\ f \in [Exchanges -> Exchange]
              /\ \A y \in Exchanges : /\ f[y].pc = exch[y].pc
                                      /\ f[y].home = exch[y].home
                                      /\ f[y].track = exch[y].track
          BY SignallingType
        <5>2. exch' = [f EXCEPT ![x].pc = "unalias", ![x].track = current,
                                ![x].dropped = tracks[current].pubs]
          BY <1>1, <2>2, <4>1, Zenon DEF Retire
        <5>3. tracks[current].pubs \in SUBSET Publishers
          BY <1>b, <1>c, <2>2, SMTT(60) DEF Track
        <5> HIDE DEF f
        <5>4. e \in Exchange
          BY <1>b, <5>1, <5>3, ExchangeTypes, Pcs, Zenon
        <5>5. e.pc = "unalias"
          BY <5>1 DEF Exchange
        <5>6. exch' = [f EXCEPT ![x] = e]
          BY <5>1, <5>2, Zenon
        <5> HIDE DEF e
        <5> QED
          BY <5>1, <5>4, <5>5, <5>6, ExchangePut, Zenon DEF OnFound
      <4>2. CASE ~tracks[current].cached
        <5>1. exch' = [exch EXCEPT ![x].pc = "remove", ![x].track = current]
          BY <1>1, <2>2, <4>2, Zenon DEF Retire
        <5> QED
          BY <1>b, <2>2, <5>1, FoundType, Pcs, Zenon
      <4> QED
        BY <4>1, <4>2
    <3> QED
      <4>1. UNCHANGED <<current, made, aliases, connected, req, closing>>
        BY <1>1, Zenon DEF Retire
      <4> QED
        BY <3>1, <3>2, <4>1, Zenon DEF TypeOK, RequestsHaveTracks
  <2> QED
    BY <2>1, <2>2
<1>2. CASE CleanUp(x)
  <2>1. current' \in TrackRef /\ aliases' \in SUBSET Publishers
    <3>1. /\ current' = current \/ current' = NoTrack
          /\ aliases' = aliases \/ aliases' \in SUBSET aliases
      BY <1>2, Zenon DEF CleanUp, RemoveTrack
    <3> QED
      BY <3>1, Zenon DEF TypeOK, TrackRef
  <2>2. exch' \in [Exchanges -> Exchange] /\ ExchangesHaveTracks'
    <3>1. PICK pc \in {"wait", "over"} : Goes(x, pc)
      BY <1>2 DEF CleanUp, Returns
    <3> QED
      BY <3>1, GoesType, Pcs DEF OnFound
  <2> QED
    BY <1>2, <2>1, <2>2 DEF CleanUp, TypeOK, RequestsHaveTracks
<1> QED
  BY <1>1, <1>2

(***************************************************************************)
(* Then those of a closing publisher session, and of the cache.             *)
(***************************************************************************)

\* A publisher's session closes and retires the track.
LEMMA CloseTypes ==
    ASSUME TypeOK, NEW p \in Publishers, Close(p) \/ CloseStep(p)
    PROVE  TypeOK'
<1>b. current \in TrackRef /\ (current # NoTrack => current \in TrackIds)
  BY DEF TypeOK, TrackRef
<1>c. tracks \in [TrackIds -> Track] /\ aliases \in SUBSET Publishers
  BY DEF TypeOK
<1>d. closing \in [Publishers -> Closing] /\ closing[p] \in Closing
  BY DEF TypeOK
<1>e. req \in [Requests -> Request] /\ exch \in [Exchanges -> Exchange]
  BY DEF TypeOK
<1>g. ASSUME NEW pc \in {"retire", "forget", "closed"}, closing' = [closing EXCEPT ![p].pc = pc]
      PROVE  closing' \in [Publishers -> Closing]
  <2>1. [closing[p] EXCEPT !.pc = pc] \in Closing
    BY <1>d DEF Closing
  <2> QED
    BY <1>d, <1>g, <2>1
<1>1. CASE Close(p)
  <2>1. closing' \in [Publishers -> Closing]
    BY <1>1, <1>g DEF Close
  <2>2. CASE current # NoTrack /\ p \in tracks[current].pubs
    <3>1. tracks' \in [TrackIds -> Track]
      <4>1. [tracks[current] EXCEPT !.pubs = @ \ {p}] \in Track
        BY <1>b, <1>c, <2>2, TrackTypes, Zenon
      <4> QED
        BY <1>1, <1>b, <1>c, <2>2, <4>1 DEF Close
    <3>2. req' \in [Requests -> Request] /\ RequestsHaveTracks'
      <4>1. req' = req \/ req' = Telling(tracks[current].subs)
        BY <1>1, <2>2 DEF Close
      <4>2. CASE req' = req
        BY <4>2, <1>e DEF TypeOK, RequestsHaveTracks
      <4> QED
        BY <4>1, <4>2, AnsweredType
    <3> QED
      BY <1>1, <1>c, <2>1, <2>2, <3>1, <3>2 DEF Close, TypeOK, ExchangesHaveTracks
  <2>3. CASE ~(current # NoTrack /\ p \in tracks[current].pubs)
    BY <1>1, <2>1, <2>3 DEF Close, TypeOK, ExchangesHaveTracks, RequestsHaveTracks
  <2> QED
    BY <2>2, <2>3
<1>2. CASE CloseRetires(p)
  <2>1. CASE current = NoTrack
    <3>1. closing' \in [Publishers -> Closing]
      BY <1>2, <1>g, <2>1 DEF CloseRetires
    <3> QED
      BY <1>2, <2>1, <3>1 DEF CloseRetires, TypeOK, ExchangesHaveTracks, RequestsHaveTracks
  <2>2. CASE current # NoTrack
    <3>1. tracks' \in [TrackIds -> Track]
      BY <1>2, <1>b, <2>2, RetiredType DEF CloseRetires
    <3>2. tracks[current].pubs \in SUBSET Publishers
      BY <1>b, <1>c, <2>2 DEF Track
    <3>3. closing' \in [Publishers -> Closing]
      <4>1. /\ [closing[p] EXCEPT !.pc = "unalias", !.track = current,
                                  !.dropped = tracks[current].pubs] \in Closing
            /\ [closing[p] EXCEPT !.pc = "remove", !.track = current] \in Closing
        BY <1>b, <1>d, <3>2, Zenon DEF Closing
      <4> QED
        BY <1>2, <1>d, <2>2, <4>1, Zenon DEF CloseRetires
    <3>4. exch' \in [Exchanges -> Exchange] /\ ExchangesHaveTracks'
      <4>1. exch' = exch \/ exch' = Signalling(tracks[current].registered)
        BY <1>2, <2>2 DEF CloseRetires
      <4>2. CASE exch' = exch
        BY <4>2, <1>e DEF TypeOK, ExchangesHaveTracks
      <4> QED
        BY <4>1, <4>2, SignalledType
    <3> QED
      BY <1>2, <3>1, <3>3, <3>4 DEF CloseRetires, TypeOK, RequestsHaveTracks
  <2> QED
    BY <2>1, <2>2
<1>3. CASE CloseCleansUp(p)
  <2>1. current' \in TrackRef /\ aliases' \in SUBSET Publishers
    BY <1>3 DEF CloseCleansUp, RemoveTrack, TypeOK, TrackRef
  <2>2. closing' \in [Publishers -> Closing]
    BY <1>3, <1>g DEF CloseCleansUp
  <2> QED
    BY <1>3, <2>1, <2>2
    DEF CloseCleansUp, TypeOK, ExchangesHaveTracks, RequestsHaveTracks
<1>4. CASE Forget(p)
  <2>1. closing' \in [Publishers -> Closing]
    BY <1>4, <1>g DEF Forget
  <2> QED
    BY <1>4, <2>1 DEF Forget, TypeOK, ExchangesHaveTracks, RequestsHaveTracks
<1> QED
  BY <1>1, <1>2, <1>3, <1>4 DEF CloseStep

\* Objects are cached and expire, and the sweep removes the track.
LEMMA CacheTypes ==
    ASSUME TypeOK, Expire \/ Sweep \/ \E p \in Publishers : CacheObject(p)
    PROVE  TypeOK'
<1>1. CASE Sweep
  BY <1>1 DEF Sweep, TypeOK, TrackRef, ExchangesHaveTracks, RequestsHaveTracks
<1>2. CASE Expire \/ \E p \in Publishers : CacheObject(p)
  <2>1. current \in TrackIds /\ tracks \in [TrackIds -> Track]
    BY <1>2 DEF Expire, CacheObject, TypeOK, TrackRef
  <2>2. /\ [tracks[current] EXCEPT !.cached = TRUE] \in Track
        /\ [tracks[current] EXCEPT !.cached = FALSE] \in Track
    BY <2>1, ZenonT(60) DEF Track
  <2>3. tracks' \in [TrackIds -> Track]
    BY <1>2, <2>1, <2>2, Zenon DEF Expire, CacheObject
  <2> QED
    BY <1>2, <2>3
    DEF Expire, CacheObject, TypeOK, ExchangesHaveTracks, RequestsHaveTracks
<1> QED
  BY <1>1, <1>2

\* The initial state has its types.
LEMMA InitTypes == Init => TypeOK
<1> SUFFICES ASSUME Init PROVE TypeOK
  OBVIOUS
<1>1. NewTrack \in Track
  BY Pcs DEF NewTrack, Track
<1>2. /\ req \in [Requests -> Request]
      /\ \A r \in Requests : req[r].pc = "start"
  <2>1. "start" \in RequestPcs /\ "Pending" \in Statuses /\ NoTrack \in TrackRef
    BY ZenonT(60) DEF RequestPcs, Statuses, TrackRef
  <2> QED
    BY <2>1 DEF Init, Request
<1>3. /\ exch \in [Exchanges -> Exchange]
      /\ \A x \in Exchanges : exch[x].pc = "idle"
  <2>1. "idle" \in ExchangePcs /\ NoTrack \in TrackRef
    BY Zenon DEF ExchangePcs, TrackRef
  <2> QED
    BY <2>1 DEF Init, Exchange
<1>4. closing \in [Publishers -> Closing]
  BY SMTT(60) DEF Init, Closing, TrackRef
<1>5. current \in TrackRef /\ made \in 0..MaxTracks
  BY LifecycleAssumption DEF Init, TrackRef
<1>6. RequestsHaveTracks /\ ExchangesHaveTracks
  BY <1>2, <1>3 DEF RequestsHaveTracks, ExchangesHaveTracks
<1> QED
  BY <1>1, <1>2, <1>3, <1>4, <1>5, <1>6, Zenon DEF Init, TypeOK

\* Every step preserves the type invariant.
LEMMA NextTypes ==
    ASSUME Countable, TypeOK, [Next]_vars
    PROVE  TypeOK'
<1>1. ASSUME NEW r \in Requests, RequestStep(r) \/ Refused(r) \/ Cancel(r) \/ Disconnect(r)
      PROVE  TypeOK'
  BY <1>1, SubscribeTypes, AnswerTypes, LeaveTypes DEF RequestStep
<1>2. ASSUME NEW x \in Exchanges,
             \/ ExchangeStep(x) \/ AnswerDeadline(x) \/ Fails(x)
             \/ UpstreamDone(x) \/ Accepts(x)
      PROVE  TypeOK'
  BY <1>2, WaitTypes, UpstreamTypes, TellTypes, RetireTypes DEF ExchangeStep
<1>3. ASSUME NEW p \in Publishers, Close(p) \/ CloseStep(p) \/ CacheObject(p)
      PROVE  TypeOK'
  BY <1>3, CloseTypes, CacheTypes
<1>4. CASE Expire \/ Sweep
  BY <1>4, CacheTypes, SMTT(60)
<1>5. CASE UNCHANGED vars
  BY <1>5 DEF vars, TypeOK, RequestsHaveTracks, ExchangesHaveTracks
<1> QED
  BY <1>1, <1>2, <1>3, <1>4, <1>5 DEF Next

(***************************************************************************)
(* Exchanges and responses while nobody leaves.                             *)
(***************************************************************************)

\* A relay request is a request and a publisher.
LEMMA Pairs ==
    /\ \A x \in Exchanges : x[1] \in Requests /\ x[2] \in Publishers /\ x = <<x[1], x[2]>>
    /\ \A r \in Requests, p \in Publishers :
          <<r, p>> \in Exchanges /\ <<r, p>>[1] = r /\ <<r, p>>[2] = p
  BY DEF Exchanges

\* The exchange that moves is its creator's, and its Track is the one in the map.
LEMMA Home ==
    ASSUME SteadyInv, NEW x \in Exchanges, exch[x].pc \notin {"idle", "over"}
    PROVE  /\ x[1] \in Requests /\ req[x[1]].creator /\ req[x[1]].track = current
           /\ req[x[1]].pc \in {"forward", "live"}
           /\ current \in TrackIds /\ current # NoTrack
           /\ \A r \in Requests : req[r].creator /\ req[r].track = current => r = x[1]
<1>1. x[1] \in Requests
  BY Pairs
<1>2. /\ req[x[1]].creator /\ req[x[1]].track = current
      /\ req[x[1]].pc \in {"forward", "live"}
  BY DEF SteadyInv, AtHome
<1>3. current # NoTrack
  BY <1>1, <1>2 DEF SteadyInv, Creating
<1>4. current \in TrackIds
  BY <1>3 DEF SteadyInv, TypeOK, TrackRef
<1> QED
  BY <1>1, <1>2, <1>3, <1>4 DEF SteadyInv, Creating

\* Those whose answer is owed are publishers, which can be counted.
LEMMA OwedCounted ==
    ASSUME Countable, NEW r \in Requests
    PROVE  /\ Owed(r) \in SUBSET Publishers /\ Cardinality(Owed(r)) \in Nat
           /\ Owed(r)' \in SUBSET Publishers /\ Cardinality(Owed(r)') \in Nat
<1>1. Owed(r) \in SUBSET Publishers /\ Owed(r)' \in SUBSET Publishers
  BY DEF Owed
<1> QED
  BY <1>1 DEF Countable

\* Every stream is open, so that each of those responded to gets the response.
LEMMA RespondingAdds ==
    ASSUME SteadyInv, NEW to, NEW kind \in {"ok", "error"}
    PROVE  /\ Responding(to, kind) \in [Requests -> Request]
           /\ \A r \in Requests :
                /\ Responding(to, kind)[r].pc = req[r].pc
                /\ Responding(to, kind)[r].track = req[r].track
                /\ Responding(to, kind)[r].creator = req[r].creator
                /\ Responding(to, kind)[r].asked = req[r].asked
                /\ Responding(to, kind)[r].gone = req[r].gone
                /\ r \notin to => Responding(to, kind)[r].responses = req[r].responses
                /\ r \in to /\ req[r].responses = <<>>
                      => Responding(to, kind)[r].responses = <<kind>>
<1>a. req \in [Requests -> Request]
  BY DEF SteadyInv, TypeOK
<1>b. \A r \in Requests : Open(r)
  BY DEF SteadyInv, Calm, Open
<1>1. Responding(to, kind) \in [Requests -> Request]
  BY RespondingType DEF SteadyInv
<1>2. ASSUME NEW r \in Requests
      PROVE  /\ Responding(to, kind)[r].pc = req[r].pc
             /\ Responding(to, kind)[r].track = req[r].track
             /\ Responding(to, kind)[r].creator = req[r].creator
             /\ Responding(to, kind)[r].asked = req[r].asked
             /\ Responding(to, kind)[r].gone = req[r].gone
             /\ r \notin to => Responding(to, kind)[r].responses = req[r].responses
             /\ r \in to => Responding(to, kind)[r].responses = Append(req[r].responses, kind)
  <2>1. req[r] \in Request /\ Open(r)
    BY <1>a, <1>b
  <2> QED
    BY <2>1 DEF Responding, Request
<1>3. Append(<<>>, kind) = <<kind>>
  BY SMTT(60)
<1> QED
  BY <1>1, <1>2, <1>3
=============================================================================
