-------------------- MODULE TrackLifecycleAnswers_proofs --------------------
(***************************************************************************)
(* Who is answered in TrackLifecycle: the steps of a request and of the     *)
(* cache keep SteadyInv; and, whoever leaves, no step forgets a waiting     *)
(* subscriber or leaves an upstream request running on a track without      *)
(* subscribers.  What follows is in TrackLifecycleSafety_proofs.            *)
(***************************************************************************)
EXTENDS TrackLifecycle_proofs

(***************************************************************************)
(* A request that moves.                                                    *)
(***************************************************************************)

\* What the steps of a request that has not asked anybody leave alone.
Keeps(r) ==
    /\ UNCHANGED <<aliases, connected, exch, closing>>
    /\ req[r].pc \in {"start", "join", "assign", "answer"}
    /\ \A s \in Requests : s # r => req'[s] = req[s]
    /\ ~req'[r].gone
    /\ req'[r].pc \in {"start", "join", "assign", "forward", "answer", "live", "end"}
    /\ \A t \in TrackIds :
          /\ tracks'[t].origin = tracks[t].origin /\ tracks'[t].status = tracks[t].status
          /\ tracks'[t].pubs = tracks[t].pubs /\ tracks'[t].cached = tracks[t].cached
          /\ tracks[t].subs \ {r} \subseteq tracks'[t].subs
          /\ tracks'[t].waiting \ {r} \subseteq tracks[t].waiting
    /\ \/ UNCHANGED <<current, made>>
       \/ /\ current = NoTrack /\ current' = made + 1 /\ made' = made + 1
          /\ made + 1 \in TrackIds

\* What the invariant asks of the request that moved.
Fits(r) ==
    /\ req'[r].track <= made'
    /\ req'[r].pc = "start" => ~req'[r].creator
    /\ req'[r].pc = "answer" => ~req'[r].creator
    /\ req'[r].pc \in {"join", "assign", "forward"}
          => req'[r].asked = Publishers /\ Publishers # {}
    /\ req'[r].creator => /\ req'[r].track # NoTrack
                          /\ tracks'[req'[r].track].status # "Rejected"
                          /\ \A s \in Requests :
                                s # r => ~(req[s].creator /\ req[s].track = req'[r].track)
    /\ req'[r].creator /\ req'[r].pc # "end" => req'[r].responses = <<>>
    /\ req'[r].creator /\ req'[r].pc \in {"join", "assign", "forward"}
          => req'[r].track = current'
    /\ req'[r].creator /\ req'[r].pc \in {"assign", "forward", "live"}
          => r \in tracks'[req'[r].track].subs
    /\ req'[r].pc = "forward" => req'[r].creator
    /\ req'[r].creator => req'[r].pc # "live"
    /\ Len(req'[r].responses) <= 1
    /\ req'[r].pc \in {"start", "join", "assign", "answer"} => req'[r].responses = <<>>
    /\ \A t \in TrackIds : r \in tracks'[t].waiting =>
          /\ req'[r].track = t /\ req'[r].pc = "live" /\ ~req'[r].creator
          /\ req'[r].responses = <<>>

\* It has no exchange, waits for nobody and was not answered; and no exchange is
\* under way while the map has no Track.
LEMMA NotAsked ==
    ASSUME SteadyInv, NEW r \in Requests, req[r].pc \in {"start", "join", "assign", "answer"}
    PROVE  /\ \A x \in Exchanges : x[1] = r => exch[x].pc = "idle"
           /\ \A p \in Publishers : exch[<<r, p>>].pc = "idle"
           /\ \A t \in TrackIds : r \notin tracks[t].waiting
           /\ req[r].responses = <<>>
           /\ current = NoTrack => \A x \in Exchanges : exch[x].pc \in {"idle", "over"}
<1>1. \A x \in Exchanges : x[1] = r => exch[x].pc = "idle"
  BY DEF SteadyInv, AtHome
<1>2. \A p \in Publishers : exch[<<r, p>>].pc = "idle"
  BY <1>1, Pairs
<1>3. /\ \A t \in TrackIds : r \notin tracks[t].waiting
      /\ req[r].responses = <<>>
  BY DEF SteadyInv, Answering
<1>4. current = NoTrack => \A x \in Exchanges : exch[x].pc \in {"idle", "over"}
  BY Home
<1> QED
  BY <1>1, <1>2, <1>3, <1>4

\* Nothing is cancelled, and creators and exchanges keep their Track.
LEMMA RequestAtHome ==
    ASSUME SteadyInv, NEW r \in Requests, Keeps(r), Fits(r)
    PROVE  Calm' /\ Creating' /\ AtHome'
<1>a. made \in Nat /\ current \in Nat /\ current <= made
  BY LifecycleAssumption, SMTT(60) DEF SteadyInv, TypeOK, TrackRef, NoTrack, TrackIds, Creating
<1>b. \A s \in Requests : req[s].creator => req[s].track \in TrackIds
  BY DEF SteadyInv, TypeOK, Creating, Request, TrackRef
<1>c. \A s \in Requests : req[s].track \in Nat /\ req[s].track <= made
  BY LifecycleAssumption DEF SteadyInv, TypeOK, Creating, Request, TrackRef, NoTrack, TrackIds
<1>1. Calm'
  BY DEF SteadyInv, Calm, Keeps
<1>2. Creating'
  <2>1. /\ made' \in Nat /\ made <= made' /\ current' <= made'
        /\ current' = current \/ current = NoTrack
    BY <1>a DEF Keeps
  <2>2. \A t \in TrackIds : t > made' => tracks'[t].status = "Pending" /\ tracks'[t].pubs = {}
    BY <1>a, <2>1 DEF SteadyInv, Creating, Keeps, TrackIds
  <2>3. \A s \in Requests :
          /\ req'[s].track <= made'
          /\ req'[s].pc = "start" => ~req'[s].creator
          /\ req'[s].pc = "answer" => ~req'[s].creator
          /\ req'[s].pc \in {"join", "assign", "forward"}
                => req'[s].asked = Publishers /\ Publishers # {}
          /\ req'[s].creator => req'[s].track # NoTrack
    BY <1>a, <1>c, <2>1, SMTT(60) DEF SteadyInv, Creating, Keeps, Fits
  <2>4. \A s \in Requests :
          req'[s].creator /\ req'[s].pc \in {"join", "assign", "forward"}
                => req'[s].track = current'
    BY <2>1 DEF SteadyInv, Creating, Keeps, Fits
  <2>5. \A s \in Requests :
          req'[s].creator /\ req'[s].pc \in {"assign", "forward", "live"}
                => s \in tracks'[req'[s].track].subs
    <3> SUFFICES ASSUME NEW s \in Requests, s # r, req[s].creator,
                        req[s].pc \in {"assign", "forward", "live"}
                 PROVE  s \in tracks'[req[s].track].subs
      BY DEF Keeps, Fits
    <3>1. s \in tracks[req[s].track].subs
      BY DEF SteadyInv, Creating
    <3> QED
      BY <1>b, <3>1, Zenon DEF Keeps
  <2>6. \A s \in Requests :
          req'[s].pc = "forward"
                => req'[s].creator /\ \E p \in Publishers : exch'[<<s, p>>].pc = "idle"
    <3>1. req'[r].pc = "forward"
                => req'[r].creator /\ \E p \in Publishers : exch'[<<r, p>>].pc = "idle"
      BY NotAsked DEF Keeps, Fits
    <3> QED
      BY <3>1, ZenonT(60) DEF SteadyInv, Creating, Keeps
  <2>7. \A s, u \in Requests :
          req'[s].creator /\ req'[u].creator /\ req'[s].track = req'[u].track => s = u
    BY DEF SteadyInv, Creating, Keeps, Fits
  <2> QED
    BY <2>1, <2>2, <2>3, <2>4, <2>5, <2>6, <2>7, Zenon DEF Creating
<1>3. AtHome'
  <2> SUFFICES ASSUME NEW x \in Exchanges
               PROVE  /\ exch[x].pc # "idle" =>
                            req'[x[1]].creator /\ req'[x[1]].pc \in {"forward", "live"}
                      /\ exch[x].pc \notin {"idle", "over"} => current' = req'[x[1]].track
                      /\ exch[x].pc \in Found => exch[x].track = current'
                      /\ exch[x].pc = "register" => exch[x].home = current'
    BY DEF AtHome, Keeps
  <2>1. x[1] \in Requests
    BY Pairs
  <2>2. exch[x].pc # "idle" => req'[x[1]] = req[x[1]]
    BY <2>1, NotAsked DEF Keeps
  <2>3. exch[x].pc \notin {"idle", "over"} => current' = current
    BY NotAsked DEF Keeps
  <2> QED
    BY <2>2, <2>3 DEF SteadyInv, AtHome, Found
<1> QED
  BY <1>1, <1>2, <1>3, SMTT(60)

\* The exchanges agree about the tracks; who serves is as before.
LEMMA RequestAgreed ==
    ASSUME SteadyInv, NEW r \in Requests, Keeps(r), Fits(r)
    PROVE  Agreed' /\ Reached'
<1>b. \A s \in Requests : req[s].creator => req[s].track \in TrackIds
  BY DEF SteadyInv, TypeOK, Creating, Request, TrackRef
<1>c. current # NoTrack => current \in TrackIds
  BY Zenon DEF SteadyInv, TypeOK, TrackRef
<1>1. Agreed'
  <2> SUFFICES ASSUME NEW x \in Exchanges
               PROVE  /\ exch[x].accepted =>
                            /\ exch[x].answered
                            /\ exch[x].pc \notin Asking \ {"wait", "ended"}
                            /\ tracks'[req'[x[1]].track].status = "Confirmed"
                      /\ exch[x].pc \in Early /\ exch[x].answered => exch[x].accepted
                      /\ exch[x].pc \in {"ok", "confirm"} => exch[x].answered
                      /\ exch[x].pc \in {"tell", "tellWaiting"} => exch[x].accepted
                      /\ exch[x].pc \in Serving => tracks'[current'].status = "Confirmed"
                      /\ exch[x].pc \in Failing =>
                            /\ tracks'[current'].status # "Confirmed"
                            /\ \A y \in Exchanges : y[1] = x[1] /\ y # x => exch[y].pc = "over"
                      /\ exch[x].pc \in Refusing \ {"over"}
                            => tracks'[current'].status = "Rejected"
                      /\ req'[x[1]].creator /\ tracks'[req'[x[1]].track].status = "Rejected"
                            => exch[x].pc \in Refusing
    BY DEF Agreed, Keeps
  <2>1. x[1] \in Requests
    BY Pairs
  <2>2. CASE exch[x].pc = "idle"
    <3>1. ~exch[x].accepted /\ exch[x].pc \notin Serving \union Failing \union Refusing
      BY <2>2, Zenon DEF SteadyInv, Agreed, Asking, Serving, Failing, Refusing
    <3>2. exch[x].pc \in Early /\ exch[x].answered => exch[x].accepted
      BY DEF SteadyInv, Agreed
    <3>3. ~(req'[x[1]].creator /\ tracks'[req'[x[1]].track].status = "Rejected")
      <4>1. CASE x[1] = r
        BY <4>1, Zenon DEF Fits
      <4>2. CASE x[1] # r
        BY <1>b, <2>1, <3>1, <4>2, SMTT(60) DEF SteadyInv, Agreed, Keeps
      <4> QED
        BY <4>1, <4>2
    <3> QED
      BY <2>2, <3>1, <3>2, <3>3, Zenon
  <2>3. CASE exch[x].pc # "idle"
    <3>1. req'[x[1]] = req[x[1]] /\ req[x[1]].creator
      BY <2>1, <2>3, NotAsked, Zenon DEF Keeps, SteadyInv, AtHome
    <3>2. tracks'[req[x[1]].track].status = tracks[req[x[1]].track].status
      BY <1>b, <2>1, <3>1, Zenon DEF Keeps
    <3>3. exch[x].pc # "over" =>
            current' = current /\ tracks'[current].status = tracks[current].status
      BY <1>c, <2>3, NotAsked, Home DEF Keeps
    <3>4. "over" \notin Serving \union Failing \union (Refusing \ {"over"})
      BY DEF Serving, Failing
    <3> QED
      BY <3>1, <3>2, <3>3, <3>4, ZenonT(60) DEF SteadyInv, Agreed
  <2> QED
    BY <2>2, <2>3, Zenon
<1>2. Reached'
  <2>1. CASE current = NoTrack
    <3>1. ~Served
      BY <2>1 DEF Served
    <3>2. aliases = {} /\ \A t \in TrackIds : ~tracks[t].cached
      BY <3>1 DEF SteadyInv, Reached
    <3>3. \A x \in Exchanges : exch[x].pc # "confirm"
      BY <2>1, NotAsked DEF Keeps
    <3>4. AliasServes'
      <4>1. CASE UNCHANGED <<current, made>>
        BY <2>1, <4>1 DEF AliasServes
      <4>2. CASE current' = made + 1 /\ made + 1 \in TrackIds
        <5>1. made + 1 > made
          BY LifecycleAssumption, SMTT(60) DEF SteadyInv, TypeOK
        <5>2. tracks[made + 1].pubs = {}
          BY <4>2, <5>1, Zenon DEF SteadyInv, Creating
        <5> QED
          BY <4>2, <5>2 DEF AliasServes, Keeps
      <4> QED
        BY <4>1, <4>2 DEF Keeps
    <3> QED
      BY <3>2, <3>3, <3>4 DEF Reached, Keeps
  <2>2. CASE current # NoTrack
    <3>1. current' = current /\ tracks'[current].status = tracks[current].status
          /\ tracks'[current].pubs = tracks[current].pubs
      BY <1>c, <2>2 DEF Keeps
    <3>2. Served => Served'
      BY <3>1, Zenon DEF Served, Keeps
    <3> QED
      BY <3>1, <3>2, Zenon DEF SteadyInv, Reached, AliasServes, Keeps
  <2> QED
    BY <2>1, <2>2, Zenon
<1> QED
  BY <1>1, <1>2

\* Who has been answered is as before, the request itself aside.
LEMMA RequestAnswered ==
    ASSUME SteadyInv, NEW r \in Requests, Keeps(r), Fits(r)
    PROVE  Answering'
<1>b. \A s \in Requests : req[s].creator => req[s].track \in TrackIds
  BY DEF SteadyInv, TypeOK, Creating, Request, TrackRef
<1>1. \A s \in Requests :
        /\ Len(req'[s].responses) <= 1
        /\ req'[s].pc \in {"start", "join", "assign", "answer"} => req'[s].responses = <<>>
  BY DEF SteadyInv, Answering, Keeps, Fits
<1>2. ASSUME NEW s \in Requests, req'[s].creator, req'[s].pc # "end"
      PROVE  \/ req'[s].responses = <<>>
             \/ /\ req'[s].responses = <<"ok">>
                /\ tracks'[req'[s].track].status = "Confirmed"
                /\ \A y \in Exchanges : y[1] = s => exch'[y].pc # "tell"
             \/ /\ req'[s].responses = <<"error">>
                /\ tracks'[req'[s].track].status = "Rejected"
                /\ \A y \in Exchanges : y[1] = s => exch'[y].pc # "tellError"
  <2>1. CASE s = r
    BY <1>2, <2>1, Zenon DEF Fits
  <2>2. CASE s # r
    <3>1. req'[s] = req[s] /\ exch' = exch
      BY <2>2 DEF Keeps
    <3>2. tracks'[req[s].track].status = tracks[req[s].track].status
      BY <1>b, <1>2, <3>1, Zenon DEF Keeps
    <3> QED
      BY <1>2, <3>1, <3>2, SMTT(60) DEF SteadyInv, Answering
  <2> QED
    BY <2>1, <2>2, Zenon
<1>3. \A x, y \in Exchanges :
        exch'[x].pc = "tell" /\ exch'[y].pc = "tell" /\ x[1] = y[1] => x = y
  BY DEF SteadyInv, Answering, Keeps
<1>4. ASSUME NEW t \in TrackIds, NEW s \in tracks'[t].waiting
      PROVE  /\ req'[s].track = t /\ req'[s].pc = "live" /\ ~req'[s].creator
             /\ req'[s].responses = <<>>
  <2>1. CASE s = r
    BY <1>4, <2>1, Zenon DEF Fits
  <2>2. CASE s # r
    <3>1. s \in tracks[t].waiting
      BY <1>4, <2>2, Zenon DEF Keeps
    <3>2. s \in Requests
      BY <3>1 DEF SteadyInv, TypeOK, Track
    <3> QED
      BY <2>2, <3>1, <3>2, SMTT(60) DEF SteadyInv, Answering, Keeps
  <2> QED
    BY <2>1, <2>2, Zenon
<1> QED
  BY <1>1, <1>2, <1>3, <1>4, ZenonT(60) DEF Answering

\* Together, as long as the request spoils no other creator's count.
LEMMA RequestKeeps ==
    ASSUME SteadyInv, TypeOK', NEW r \in Requests, Keeps(r), Fits(r),
           \A t \in TrackIds : \/ tracks'[t].unanswered = tracks[t].unanswered
                               \/ req'[r].creator /\ t = req'[r].track,
           req'[r].pc = "forward"
               => Cardinality(Owed(r)) <= tracks'[req'[r].track].unanswered
    PROVE  SteadyInv'
<1>b. \A s \in Requests : req[s].creator => req[s].track \in TrackIds
  BY Zenon DEF SteadyInv, TypeOK, Creating, Request, TrackRef
<1>1. Counting'
  <2> SUFFICES ASSUME NEW s \in Requests, req'[s].creator, req'[s].pc \in {"forward", "live"},
                      tracks'[req'[s].track].status # "Confirmed"
               PROVE  Cardinality(Owed(s)') <= tracks'[req'[s].track].unanswered
    BY Zenon DEF Counting
  <2>1. Owed(s)' = Owed(s)
    BY Zenon DEF Owed, Keeps
  <2>2. CASE s = r
    <3>1. req'[r].pc = "forward"
      BY <2>2, Zenon DEF Fits
    <3> QED
      BY <2>1, <2>2, <3>1, Zenon
  <2>3. CASE s # r
    <3>1. req'[s] = req[s]
      BY <2>3 DEF Keeps
    <3>2. req[s].track \in TrackIds
      BY <1>b, <3>1, Zenon
    <3>3. /\ tracks'[req[s].track].unanswered = tracks[req[s].track].unanswered
          /\ tracks'[req[s].track].status = tracks[req[s].track].status
      BY <2>3, <3>1, <3>2, Zenon DEF Keeps, Fits
    <3> QED
      BY <2>1, <3>1, <3>3, Zenon DEF SteadyInv, Counting
  <2> QED
    BY <2>2, <2>3, Zenon
<1> QED
  BY <1>1, RequestAtHome, RequestAgreed, RequestAnswered, Zenon DEF SteadyInv

\* A creator that has asked nobody yet: its Track is not Rejected, and its own.
LEMMA CreatorFits ==
    ASSUME SteadyInv, NEW r \in Requests, req[r].creator, req[r].pc \in {"join", "assign"}
    PROVE  /\ req[r].track \in TrackIds /\ req[r].track = current
           /\ tracks[req[r].track].status # "Rejected"
           /\ \A s \in Requests : s # r => ~(req[s].creator /\ req[s].track = req[r].track)
<1>1. PICK p \in Publishers : TRUE
  BY DEF SteadyInv, Creating
<1>2. <<r, p>> \in Exchanges /\ <<r, p>>[1] = r /\ exch[<<r, p>>].pc = "idle"
  BY Pairs, NotAsked, Zenon
<1>3. tracks[req[r].track].status # "Rejected"
  BY <1>2 DEF SteadyInv, Agreed, Refusing
<1>4. req[r].track \in TrackIds
  BY DEF SteadyInv, TypeOK, RequestsHaveTracks
<1> QED
  BY <1>3, <1>4, Zenon DEF SteadyInv, Creating

\* Moving on changes nothing else of a request.
LEMMA MovedOn ==
    ASSUME NEW f \in [Requests -> Request], NEW r \in Requests, NEW pc \in RequestPcs,
           req' = [f EXCEPT ![r].pc = pc]
    PROVE  /\ \A s \in Requests : s # r => req'[s] = f[s]
           /\ req'[r].pc = pc /\ req'[r].track = f[r].track
           /\ req'[r].creator = f[r].creator /\ req'[r].gone = f[r].gone
           /\ req'[r].responses = f[r].responses
<1>1. f[r] \in Request /\ req'[r] = [f[r] EXCEPT !.pc = pc]
  OBVIOUS
<1> QED
  BY <1>1 DEF Request

\* A request that is answered and moves.
LEMMA AnsweredAt ==
    ASSUME SteadyInv, NEW r \in Requests, req[r].responses = <<>>,
           NEW kind \in {"ok", "error"}, NEW pc \in RequestPcs,
           req' = [Responding({r}, kind) EXCEPT ![r].pc = pc]
    PROVE  /\ \A s \in Requests : s # r => req'[s] = req[s]
           /\ req'[r].pc = pc /\ req'[r].track = req[r].track
           /\ req'[r].creator = req[r].creator /\ req'[r].gone = req[r].gone
           /\ req'[r].responses = <<kind>> /\ Len(req'[r].responses) <= 1
<1>1. /\ Responding({r}, kind) \in [Requests -> Request]
      /\ Responding({r}, kind)[r].track = req[r].track
      /\ Responding({r}, kind)[r].creator = req[r].creator
      /\ Responding({r}, kind)[r].gone = req[r].gone
      /\ Responding({r}, kind)[r].responses = <<kind>>
  BY RespondingAdds
<1>2. \A s \in Requests : s # r => Responding({r}, kind)[s] = req[s]
  BY DEF Responding
<1>3. Len(<<kind>>) <= 1
  OBVIOUS
<1>4. /\ \A s \in Requests : s # r => req'[s] = Responding({r}, kind)[s]
      /\ req'[r].pc = pc /\ req'[r].track = Responding({r}, kind)[r].track
      /\ req'[r].creator = Responding({r}, kind)[r].creator
      /\ req'[r].gone = Responding({r}, kind)[r].gone
      /\ req'[r].responses = Responding({r}, kind)[r].responses
  BY <1>1, MovedOn
<1> QED
  BY <1>1, <1>2, <1>3, <1>4, Zenon

\* A request that asks nobody is refused, and one that creates the Track owns it.
LEMMA SubscribeKeeps ==
    ASSUME SteadyInv, TypeOK', NEW r \in Requests, SubscribeMiss(r) \/ Subscribe(r)
    PROVE  SteadyInv'
<1>a. /\ req \in [Requests -> Request] /\ req' \in [Requests -> Request]
      /\ tracks \in [TrackIds -> Track]
      /\ made \in Nat /\ made <= MaxTracks /\ MaxTracks \in Nat
  BY LifecycleAssumption, SMTT(60) DEF SteadyInv, TypeOK
<1>b. req[r].pc = "start" /\ ~req[r].creator /\ ~req[r].gone
  BY Zenon DEF SubscribeMiss, Subscribe, SteadyInv, Creating, Calm
<1>c. req[r].responses = <<>> /\ \A t \in TrackIds : r \notin tracks[t].waiting
  BY <1>b, NotAsked
<1>1. CASE SubscribeMiss(r)
  <2>1. /\ UNCHANGED <<current, made, tracks, aliases, connected, exch, closing>>
        /\ req' = [Responding({r}, "error") EXCEPT ![r].pc = "end"]
    BY <1>1 DEF SubscribeMiss
  <2>2. /\ \A s \in Requests : s # r => req'[s] = req[s]
        /\ req'[r].pc = "end" /\ req'[r].track = req[r].track /\ ~req'[r].creator
        /\ ~req'[r].gone /\ Len(req'[r].responses) <= 1
    BY <1>b, <1>c, <2>1, AnsweredAt, Pcs, Zenon
  <2>4. Keeps(r)
    BY <1>b, <2>1, <2>2, ZenonT(60) DEF Keeps
  <2>5. Fits(r)
    BY <1>c, <2>1, <2>2, Zenon DEF Fits, SteadyInv, Creating
  <2> QED
    BY <2>1, <2>2, <2>4, <2>5, RequestKeeps, Zenon
<1>2. CASE Subscribe(r) /\ current = NoTrack
  <2>1. /\ UNCHANGED <<tracks, aliases, connected, exch, closing>>
        /\ made' = made + 1 /\ current' = made + 1 /\ made + 1 \in TrackIds
    BY <1>2, <1>a DEF Subscribe, TrackIds
  <2>2. /\ \A s \in Requests : s # r => req'[s] = req[s]
        /\ req'[r].pc = "join" /\ req'[r].track = made + 1 /\ req'[r].creator
        /\ ~req'[r].gone /\ req'[r].responses = <<>>
        /\ req'[r].asked = connected /\ connected # {}
    BY <1>2, <1>a, <1>b, <1>c, SMTT(60) DEF Subscribe, Request
  <2>3. connected = Publishers
    BY Zenon DEF SteadyInv, Calm
  <2>4. tracks[made + 1].status = "Pending"
    BY <1>a, <2>1, SMTT(60) DEF SteadyInv, Creating
  <2>5. \A s \in Requests : req[s].track # made + 1
    BY <1>a, SMTT(60) DEF SteadyInv, Creating, Request, TrackRef, TrackIds, NoTrack
  <2>6. Keeps(r)
    BY <1>2, <1>b, <2>1, <2>2, ZenonT(60) DEF Keeps
  <2>7. Fits(r)
    BY <1>a, <1>c, <2>1, <2>2, <2>3, <2>4, <2>5, SMTT(60) DEF Fits, NoTrack
  <2> QED
    BY <2>1, <2>2, <2>6, <2>7, RequestKeeps, Zenon
<1>3. CASE Subscribe(r) /\ current # NoTrack
  <2>1. UNCHANGED <<current, made, tracks, aliases, connected, exch, closing>>
    BY <1>3 DEF Subscribe
  <2>2. /\ \A s \in Requests : s # r => req'[s] = req[s]
        /\ req'[r].pc = "join" /\ req'[r].track = current /\ ~req'[r].creator
        /\ ~req'[r].gone /\ req'[r].responses = <<>>
        /\ req'[r].asked = connected /\ connected # {}
    BY <1>3, <1>a, <1>b, <1>c, SMTT(60) DEF Subscribe, Request
  <2>3. connected = Publishers /\ current <= made
    BY Zenon DEF SteadyInv, Calm, Creating
  <2>4. Keeps(r)
    BY <1>b, <2>1, <2>2, Zenon DEF Keeps
  <2>5. Fits(r)
    BY <1>c, <2>1, <2>2, <2>3, SMTT(60) DEF Fits
  <2> QED
    BY <2>1, <2>2, <2>4, <2>5, RequestKeeps, Zenon
<1> QED
  BY <1>1, <1>2, <1>3, Zenon

\* A subscriber that joins is one of the track's; no Track is taken over.
LEMMA JoinKeeps ==
    ASSUME SteadyInv, TypeOK', NEW r \in Requests, Join(r)
    PROVE  SteadyInv'
<1>a. /\ req \in [Requests -> Request] /\ req' \in [Requests -> Request]
      /\ tracks \in [TrackIds -> Track] /\ tracks' \in [TrackIds -> Track]
  BY DEF SteadyInv, TypeOK
<1>b. req[r].pc = "join" /\ ~req[r].gone /\ req[r].track \in TrackIds
  BY Zenon DEF Join, SteadyInv, Calm, TypeOK, RequestsHaveTracks
<1>c. req[r].responses = <<>> /\ \A t \in TrackIds : r \notin tracks[t].waiting
  BY <1>b, NotAsked, Zenon
<1>d. tracks[req[r].track].origin = "Subscribe"
  BY <1>b, SMTT(60) DEF SteadyInv, Calm
<1>1. /\ UNCHANGED <<current, made, aliases, connected, exch, closing>>
      /\ \A t \in TrackIds :
            /\ tracks'[t].origin = tracks[t].origin /\ tracks'[t].status = tracks[t].status
            /\ tracks'[t].pubs = tracks[t].pubs /\ tracks'[t].cached = tracks[t].cached
            /\ tracks'[t].waiting = tracks[t].waiting
            /\ tracks'[t].unanswered = tracks[t].unanswered
            /\ tracks'[t].subs =
                  IF t = req[r].track THEN tracks[t].subs \union {r} ELSE tracks[t].subs
  BY <1>a, <1>b, <1>d, ZenonT(60) DEF Join, Track
<1>2. /\ \A s \in Requests : s # r => req'[s] = req[s]
      /\ req'[r].pc = "assign" /\ req'[r].track = req[r].track
      /\ req'[r].creator = req[r].creator /\ req'[r].asked = req[r].asked
      /\ ~req'[r].gone /\ req'[r].responses = <<>>
  BY <1>a, <1>b, <1>c, <1>d DEF Join, Request
<1>3. Keeps(r)
  BY <1>b, <1>1, <1>2, Zenon DEF Keeps
<1>4. Fits(r)
  <2>1. /\ req'[r].track <= made' /\ req'[r].asked = Publishers /\ Publishers # {}
        /\ req'[r].creator => req'[r].track # NoTrack /\ req'[r].track = current'
    BY <1>b, <1>1, <1>2, SMTT(60) DEF SteadyInv, Creating
  <2>2. req'[r].creator =>
          /\ tracks'[req'[r].track].status # "Rejected"
          /\ \A s \in Requests : s # r => ~(req[s].creator /\ req[s].track = req'[r].track)
    <3>1. req[r].creator =>
            /\ tracks[req[r].track].status # "Rejected"
            /\ \A s \in Requests : s # r => ~(req[s].creator /\ req[s].track = req[r].track)
      BY <1>b, CreatorFits, SMTT(60)
    <3>2. /\ req'[r].creator = req[r].creator /\ req'[r].track = req[r].track
          /\ tracks'[req[r].track].status = tracks[req[r].track].status
      BY <1>b, <1>1, <1>2, Zenon
    <3> QED
      BY <3>1, <3>2, Zenon
  <2>3. r \in tracks'[req'[r].track].subs
    BY <1>b, <1>1, <1>2, ZenonT(60)
  <2>4. Len(req'[r].responses) <= 1
    BY <1>2
  <2> QED
    BY <1>c, <1>1, <1>2, <2>1, <2>2, <2>3, <2>4, ZenonT(60) DEF Fits
<1> QED
  BY <1>1, <1>2, <1>3, <1>4, RequestKeeps, Zenon

\* A refused subscriber is answered on the spot, creator or not.
LEMMA RefusedKeeps ==
    ASSUME SteadyInv, TypeOK', NEW r \in Requests, Refused(r)
    PROVE  SteadyInv'
<1>a. /\ req \in [Requests -> Request] /\ req' \in [Requests -> Request]
      /\ tracks \in [TrackIds -> Track] /\ tracks' \in [TrackIds -> Track]
  BY DEF SteadyInv, TypeOK
<1>b. req[r].pc = "assign" /\ ~req[r].gone /\ req[r].track \in TrackIds
  BY DEF Refused, SteadyInv, Calm, TypeOK, RequestsHaveTracks
<1>c. req[r].responses = <<>> /\ \A t \in TrackIds : r \notin tracks[t].waiting
  BY <1>b, NotAsked, ZenonT(60)
<1>1. /\ UNCHANGED <<current, made, aliases, connected, exch, closing>>
      /\ \A t \in TrackIds :
            /\ tracks'[t].origin = tracks[t].origin /\ tracks'[t].status = tracks[t].status
            /\ tracks'[t].pubs = tracks[t].pubs /\ tracks'[t].cached = tracks[t].cached
            /\ tracks'[t].waiting = tracks[t].waiting
            /\ tracks'[t].unanswered = tracks[t].unanswered
            /\ tracks[t].subs \ {r} \subseteq tracks'[t].subs
  BY <1>a, <1>b DEF Refused, Track
<1>d. req' = [Responding({r}, "error") EXCEPT ![r].pc = "end"]
  BY SMTT(60) DEF Refused
<1>2. /\ \A s \in Requests : s # r => req'[s] = req[s]
      /\ req'[r].pc = "end" /\ req'[r].track = req[r].track
      /\ req'[r].creator = req[r].creator
      /\ ~req'[r].gone /\ Len(req'[r].responses) <= 1
  BY <1>b, <1>c, <1>d, AnsweredAt, Pcs, ZenonT(60)
<1>3. Keeps(r)
  BY <1>b, <1>1, <1>2, Zenon DEF Keeps
<1>4. Fits(r)
  <2>1. /\ req'[r].track <= made'
        /\ req'[r].creator => req'[r].track # NoTrack
    BY <1>b, <1>1, <1>2, ZenonT(60) DEF SteadyInv, Creating
  <2>2. req'[r].creator =>
          /\ tracks'[req'[r].track].status # "Rejected"
          /\ \A s \in Requests : s # r => ~(req[s].creator /\ req[s].track = req'[r].track)
    <3>1. req[r].creator =>
            /\ tracks[req[r].track].status # "Rejected"
            /\ \A s \in Requests : s # r => ~(req[s].creator /\ req[s].track = req[r].track)
      BY <1>b, CreatorFits, Zenon
    <3>2. /\ req'[r].creator = req[r].creator /\ req'[r].track = req[r].track
          /\ tracks'[req[r].track].status = tracks[req[r].track].status
      BY <1>b, <1>1, <1>2, Zenon
    <3> QED
      BY <3>1, <3>2
  <2> QED
    BY <1>c, <1>1, <1>2, <2>1, <2>2, Zenon DEF Fits
<1> QED
  BY <1>1, <1>2, <1>3, <1>4, RequestKeeps, Zenon

\* The creator counts every publisher, and each of them owes it an answer at most.
LEMMA CountKeeps ==
    ASSUME Countable, SteadyInv, TypeOK', NEW r \in Requests, Count(r)
    PROVE  SteadyInv'
<1>a. /\ req \in [Requests -> Request] /\ req' \in [Requests -> Request]
      /\ tracks \in [TrackIds -> Track] /\ tracks' \in [TrackIds -> Track]
  BY DEF SteadyInv, TypeOK
<1>b. /\ req[r].pc = "assign" /\ req[r].creator /\ ~req[r].gone
      /\ req[r].track \in TrackIds
  BY DEF Count, SteadyInv, Calm, TypeOK, RequestsHaveTracks
<1>c. req[r].responses = <<>> /\ \A t \in TrackIds : r \notin tracks[t].waiting
  BY <1>b, NotAsked, Zenon
<1>d. /\ req[r].asked = Publishers /\ Publishers # {} /\ req[r].track <= made
      /\ req[r].track # NoTrack /\ req[r].track = current
      /\ r \in tracks[req[r].track].subs
  BY <1>b DEF SteadyInv, Creating
<1>1. /\ UNCHANGED <<current, made, aliases, connected, exch, closing>>
      /\ \A t \in TrackIds :
            /\ tracks'[t].origin = tracks[t].origin /\ tracks'[t].status = tracks[t].status
            /\ tracks'[t].pubs = tracks[t].pubs /\ tracks'[t].cached = tracks[t].cached
            /\ tracks'[t].waiting = tracks[t].waiting /\ tracks'[t].subs = tracks[t].subs
            /\ t # req[r].track => tracks'[t].unanswered = tracks[t].unanswered
      /\ tracks'[req[r].track].unanswered = Cardinality(Publishers)
  BY <1>a, <1>b, <1>d DEF Count, Track
<1>2. /\ \A s \in Requests : s # r => req'[s] = req[s]
      /\ req'[r].pc = "forward" /\ req'[r].track = req[r].track
      /\ req'[r].creator /\ req'[r].asked = req[r].asked
      /\ ~req'[r].gone /\ req'[r].responses = <<>>
  BY <1>a, <1>b, <1>c, ZenonT(60) DEF Count, Request
<1>3. Keeps(r)
  BY <1>b, <1>1, <1>2, Zenon DEF Keeps
<1>4. Fits(r)
  <2>2. /\ tracks'[req'[r].track].status # "Rejected"
        /\ \A s \in Requests : s # r => ~(req[s].creator /\ req[s].track = req'[r].track)
    <3>1. /\ tracks[req[r].track].status # "Rejected"
          /\ \A s \in Requests : s # r => ~(req[s].creator /\ req[s].track = req[r].track)
      BY <1>b, CreatorFits, Zenon
    <3>2. /\ req'[r].track = req[r].track
          /\ tracks'[req[r].track].status = tracks[req[r].track].status
      BY <1>b, <1>1, <1>2, Zenon
    <3> QED
      BY <3>1, <3>2, Zenon
  <2>3. Len(req'[r].responses) <= 1
    BY <1>2, SMTT(60)
  <2> QED
    BY <1>b, <1>c, <1>d, <1>1, <1>2, <2>2, <2>3, ZenonT(60) DEF Fits
<1>5. Cardinality(Owed(r)) <= tracks'[req'[r].track].unanswered
  <2>1. Owed(r) \in SUBSET Publishers
    BY OwedCounted
  <2>2. Cardinality(Owed(r)) <= Cardinality(Publishers)
    BY <2>1 DEF Countable
  <2> QED
    BY <1>1, <1>2, <2>2
<1> QED
  BY <1>1, <1>2, <1>3, <1>4, <1>5, RequestKeeps, Zenon

\* A joiner is answered from the status it read, or waits.
LEMMA JoinerKeeps ==
    ASSUME SteadyInv, TypeOK', NEW r \in Requests, ReadStatus(r) \/ AnswerJoiner(r)
    PROVE  SteadyInv'
<1>a. /\ req \in [Requests -> Request] /\ req' \in [Requests -> Request]
      /\ tracks \in [TrackIds -> Track] /\ tracks' \in [TrackIds -> Track]
  BY Zenon DEF SteadyInv, TypeOK
<1>b. /\ req[r].pc \in {"assign", "answer"} /\ ~req[r].creator /\ ~req[r].gone
      /\ req[r].track \in TrackIds /\ req[r].track <= made
      /\ req[r].pc = "assign" => req[r].asked = Publishers /\ Publishers # {}
  BY Zenon DEF ReadStatus, AnswerJoiner, SteadyInv, Calm, TypeOK, RequestsHaveTracks, Creating
<1>c. req[r].responses = <<>> /\ \A t \in TrackIds : r \notin tracks[t].waiting
  BY <1>b, NotAsked, Zenon
<1>1. CASE ReadStatus(r)
  <2>1. UNCHANGED <<current, made, tracks, aliases, connected, exch, closing>>
    BY <1>1, Zenon DEF ReadStatus
  <2>2. /\ \A s \in Requests : s # r => req'[s] = req[s]
        /\ req'[r].pc = "answer" /\ req'[r].track = req[r].track /\ ~req'[r].creator
        /\ ~req'[r].gone /\ req'[r].responses = <<>>
    BY <1>1, <1>a, <1>b, <1>c, ZenonT(60) DEF ReadStatus, Request
  <2>3. Len(req'[r].responses) <= 1
    BY <2>2
  <2>4. Keeps(r)
    BY <1>b, <2>1, <2>2, Zenon DEF Keeps
  <2>5. Fits(r)
    BY <1>b, <1>c, <2>1, <2>2, <2>3, Zenon DEF Fits
  <2> QED
    BY <2>1, <2>2, <2>4, <2>5, RequestKeeps, Zenon
<1>2. CASE AnswerJoiner(r) /\ req[r].seen = "Pending"
  <2>1. /\ UNCHANGED <<current, made, aliases, connected, exch, closing>>
        /\ \A t \in TrackIds :
            /\ tracks'[t].origin = tracks[t].origin /\ tracks'[t].status = tracks[t].status
            /\ tracks'[t].pubs = tracks[t].pubs /\ tracks'[t].cached = tracks[t].cached
            /\ tracks'[t].subs = tracks[t].subs
            /\ tracks'[t].unanswered = tracks[t].unanswered
            /\ tracks'[t].waiting = IF t = req[r].track THEN tracks[t].waiting \union {r}
                                    ELSE tracks[t].waiting
    <3>1. /\ UNCHANGED <<current, made, aliases, connected, exch, closing>>
          /\ tracks' = [tracks EXCEPT ![req[r].track].waiting = @ \union {r}]
      BY <1>2 DEF AnswerJoiner
    <3>2. /\ \A t \in TrackIds : t # req[r].track => tracks'[t] = tracks[t]
          /\ tracks'[req[r].track] =
                [tracks[req[r].track] EXCEPT !.waiting = @ \union {r}]
          /\ tracks[req[r].track] \in Track
      BY <1>a, <1>b, <3>1, Zenon
    <3> QED
      BY <3>1, <3>2 DEF Track
  <2>2. /\ \A s \in Requests : s # r => req'[s] = req[s]
        /\ req'[r].pc = "live" /\ req'[r].track = req[r].track /\ ~req'[r].creator
        /\ ~req'[r].gone /\ req'[r].responses = <<>>
    BY <1>2, <1>a, <1>b, <1>c DEF AnswerJoiner, Request
  <2>3. Len(req'[r].responses) <= 1
    BY <2>2, SMTT(60)
  <2>4. Keeps(r)
    BY <1>b, <2>1, <2>2, Zenon DEF Keeps
  <2>5. Fits(r)
    BY <1>b, <1>c, <2>1, <2>2, <2>3, ZenonT(60) DEF Fits
  <2> QED
    BY <2>1, <2>2, <2>4, <2>5, RequestKeeps, Zenon
<1>3. CASE AnswerJoiner(r) /\ req[r].seen # "Pending"
  <2>1. UNCHANGED <<current, made, tracks, aliases, connected, exch, closing>>
    BY <1>3, Zenon DEF AnswerJoiner
  <2>2. PICK kind \in {"ok", "error"} :
          req' = [Responding({r}, kind) EXCEPT ![r].pc = "live"]
    BY <1>3, <1>b, Zenon DEF AnswerJoiner
  <2>3. /\ \A s \in Requests : s # r => req'[s] = req[s]
        /\ req'[r].pc = "live" /\ req'[r].track = req[r].track /\ ~req'[r].creator
        /\ ~req'[r].gone /\ Len(req'[r].responses) <= 1
    BY <1>b, <1>c, <2>2, AnsweredAt, Pcs, ZenonT(60)
  <2>4. Keeps(r)
    BY <1>b, <2>1, <2>3, Zenon DEF Keeps
  <2>5. Fits(r)
    BY <1>b, <1>c, <2>1, <2>3, Zenon DEF Fits
  <2> QED
    BY <2>1, <2>3, <2>4, <2>5, RequestKeeps, Zenon
<1> QED
  BY <1>1, <1>2, <1>3, Zenon

\* A creator sends to one more publisher; it is done when it has sent to all.
LEMMA ForwardKeeps ==
    ASSUME SteadyInv, TypeOK', NEW r \in Requests, NEW p \in Publishers, Forward(r, p)
    PROVE  SteadyInv'
<1> DEFINE x == <<r, p>>
<1>a. /\ req \in [Requests -> Request] /\ exch \in [Exchanges -> Exchange]
      /\ x \in Exchanges /\ x[1] = r /\ x[2] = p
  BY Pairs, Zenon DEF SteadyInv, TypeOK
<1>b. /\ req[r].pc = "forward" /\ req[r].creator /\ req[r].asked = Publishers
      /\ req[r].track = current /\ exch[x].pc = "idle"
  BY Zenon DEF Forward, SteadyInv, Creating
<1>c. current \in TrackIds /\ current # NoTrack
  BY <1>b DEF SteadyInv, TypeOK, RequestsHaveTracks, TrackIds, NoTrack
<1>1. UNCHANGED <<current, made, tracks, aliases, connected, closing>>
  BY DEF Forward
<1>2. /\ \A y \in Exchanges : y # x => exch'[y] = exch[y]
      /\ exch'[x].pc = "send" /\ exch'[x].accepted = exch[x].accepted
      /\ exch'[x].answered = exch[x].answered /\ exch'[x].cancel = exch[x].cancel
      /\ exch'[x].unsupported = exch[x].unsupported
  BY <1>a DEF Forward, Exchange
<1>3. PICK pc \in {"forward", "live"} :
        /\ req' = [req EXCEPT ![r].pc = pc]
        /\ pc = "forward" => \E q \in Publishers \ {p} : exch[<<r, q>>].pc = "idle"
  <2>1. CASE \E q \in req[r].asked \ {p} : exch[<<r, q>>].pc = "idle"
    <3>1. req' = req
      BY <2>1 DEF Forward
    <3>2. req = [req EXCEPT ![r].pc = "forward"]
      BY <1>a, <1>b DEF Request
    <3> QED
      BY <1>b, <2>1, <3>1, <3>2, Zenon
  <2>2. CASE ~\E q \in req[r].asked \ {p} : exch[<<r, q>>].pc = "idle"
    BY <2>2 DEF Forward
  <2> QED
    BY <2>1, <2>2, Zenon
<1>4. /\ \A s \in Requests : s # r => req'[s] = req[s]
      /\ req'[r].pc = pc /\ req'[r].track = req[r].track
      /\ req'[r].creator = req[r].creator /\ req'[r].gone = req[r].gone
      /\ req'[r].responses = req[r].responses /\ req'[r].asked = req[r].asked
  <2>1. req[r] \in Request /\ req'[r] = [req[r] EXCEPT !.pc = pc]
    BY <1>a, <1>3
  <2>2. \A s \in Requests : s # r => req'[s] = req[s]
    BY <1>a, <1>3, Zenon
  <2> QED
    BY <2>1, <2>2 DEF Request
<1>5. Calm'
  BY <1>1, <1>2, <1>4, ZenonT(60) DEF SteadyInv, Calm
<1>6. Creating'
  <2>1. \A s \in Requests : req'[s].pc = "forward"
          => req'[s].creator /\ \E q \in Publishers : exch'[<<s, q>>].pc = "idle"
    <3>1. ASSUME req'[r].pc = "forward"
          PROVE  \E q \in Publishers : exch'[<<r, q>>].pc = "idle"
      <4>1. PICK q \in Publishers \ {p} : exch[<<r, q>>].pc = "idle"
        BY <1>3, <1>4, <3>1, Zenon
      <4>2. <<r, q>> \in Exchanges /\ <<r, q>> # x
        BY <4>1, Pairs
      <4> QED
        BY <1>2, <4>1, <4>2
    <3>2. ASSUME NEW s \in Requests, s # r, req'[s].pc = "forward"
          PROVE  req[s].creator /\ \E q \in Publishers : exch'[<<s, q>>].pc = "idle"
      <4>1. PICK q \in Publishers : req[s].creator /\ exch[<<s, q>>].pc = "idle"
        BY <1>4, <3>2, Zenon DEF SteadyInv, Creating
      <4>2. <<s, q>> \in Exchanges /\ <<s, q>> # x
        BY <3>2, <4>1, Pairs
      <4> QED
        BY <1>2, <4>1, <4>2, Zenon
    <3> QED
      BY <1>b, <1>4, <3>1, <3>2, ZenonT(60)
  <2>2. \A s \in Requests :
          /\ req'[s].track = req[s].track /\ req'[s].creator = req[s].creator
          /\ req'[s].asked = req[s].asked
          /\ req'[s].pc = req[s].pc \/ (s = r /\ req'[s].pc = "live")
    BY <1>b, <1>3, <1>4, ZenonT(60)
  <2> QED
    BY <1>b, <1>1, <2>1, <2>2, SMTT(60) DEF SteadyInv, Creating
<1>7. AtHome'
  <2> SUFFICES ASSUME NEW y \in Exchanges
               PROVE  /\ exch'[y].pc # "idle" =>
                            req'[y[1]].creator /\ req'[y[1]].pc \in {"forward", "live"}
                      /\ exch'[y].pc \notin {"idle", "over"} => current = req'[y[1]].track
                      /\ exch'[y].pc \in Found => exch'[y].track = current
                      /\ exch'[y].pc = "register" => exch'[y].home = current
    BY <1>1 DEF AtHome
  <2>1. CASE y = x
    BY <1>a, <1>b, <1>2, <1>3, <1>4, <2>1, Zenon DEF Found
  <2>2. CASE y # x
    <3>1. exch'[y] = exch[y] /\ y[1] \in Requests
      BY <1>2, <2>2, Pairs
    <3>2. /\ req'[y[1]].creator = req[y[1]].creator /\ req'[y[1]].track = req[y[1]].track
          /\ req[y[1]].pc \in {"forward", "live"} => req'[y[1]].pc \in {"forward", "live"}
      BY <1>3, <1>4, <3>1, Zenon
    <3> QED
      BY <3>1, <3>2 DEF SteadyInv, AtHome
  <2> QED
    BY <2>1, <2>2, Zenon
<1>d. \A s \in Requests : req'[s].track = req[s].track /\ req'[s].creator = req[s].creator
  BY <1>4, SMTT(60)
<1>8. Agreed'
  <2>a. /\ ~exch[x].accepted /\ exch[x].answered => exch[x].accepted
        /\ exch[x].answered => exch[x].accepted
        /\ ~(req[r].creator /\ tracks[req[r].track].status = "Rejected")
    BY <1>a, <1>b, ZenonT(60) DEF SteadyInv, Agreed, Asking, Early, Refusing
  <2> SUFFICES ASSUME NEW y \in Exchanges
               PROVE  /\ exch'[y].accepted =>
                            /\ exch'[y].answered
                            /\ exch'[y].pc \notin Asking \ {"wait", "ended"}
                            /\ tracks[req[y[1]].track].status = "Confirmed"
                      /\ exch'[y].pc \in Early /\ exch'[y].answered => exch'[y].accepted
                      /\ exch'[y].pc \in {"ok", "confirm"} => exch'[y].answered
                      /\ exch'[y].pc \in {"tell", "tellWaiting"} => exch'[y].accepted
                      /\ exch'[y].pc \in Serving => tracks[current].status = "Confirmed"
                      /\ exch'[y].pc \in Failing =>
                            /\ tracks[current].status # "Confirmed"
                            /\ \A z \in Exchanges : z[1] = y[1] /\ z # y => exch'[z].pc = "over"
                      /\ exch'[y].pc \in Refusing \ {"over"}
                            => tracks[current].status = "Rejected"
                      /\ req[y[1]].creator /\ tracks[req[y[1]].track].status = "Rejected"
                            => exch'[y].pc \in Refusing
    BY <1>1, <1>d, Pairs, SMTT(60) DEF Agreed
  <2>1. CASE y = x
    <3>1. ~exch[x].accepted
      BY <1>a, <1>b, Zenon DEF SteadyInv, Agreed, Asking
    <3> QED
      BY <1>a, <1>2, <2>1, <2>a, <3>1, Zenon DEF Serving, Failing, Refusing
  <2>2. CASE y # x
    <3>1. exch'[y] = exch[y]
      BY <1>2, <2>2, Zenon
    <3>2. exch[y].pc \in Failing => y[1] # r
      BY <1>a, <1>b, <2>2, ZenonT(60) DEF SteadyInv, Agreed
    <3>3. exch[y].pc \in Failing =>
            \A z \in Exchanges : z[1] = y[1] /\ z # y => exch'[z].pc = "over"
      BY <1>a, <1>2, <3>2, SMTT(60) DEF SteadyInv, Agreed
    <3> QED
      BY <3>1, <3>3, Zenon DEF SteadyInv, Agreed
  <2> QED
    BY <2>1, <2>2, ZenonT(60)
<1>9. Counting'
  <2> SUFFICES ASSUME NEW s \in Requests, req[s].creator, req'[s].pc \in {"forward", "live"},
                      tracks[req[s].track].status # "Confirmed"
               PROVE  Cardinality(Owed(s)') <= tracks[req[s].track].unanswered
    BY <1>1, <1>d, Zenon DEF Counting
  <2>1. req[s].pc \in {"forward", "live"}
    BY <1>b, <1>4, Zenon
  <2>2. \A q \in Publishers :
          /\ exch'[<<s, q>>].accepted = exch[<<s, q>>].accepted
          /\ exch'[<<s, q>>].pc \in Asking <=> exch[<<s, q>>].pc \in Asking
    BY <1>b, <1>2, Pairs, SMTT(60) DEF Asking
  <2>3. Owed(s)' = Owed(s)
    BY <2>2, ZenonT(60) DEF Owed
  <2> QED
    BY <2>1, <2>3, Zenon DEF SteadyInv, Counting
<1>10. Answering'
  <2>1. \A y \in Exchanges : exch'[y].pc \in {"tell", "tellError"} => exch[y].pc = exch'[y].pc
    BY <1>2
  <2>2. \A s \in Requests :
          /\ req'[s].responses = req[s].responses
          /\ req'[s].pc \in {"start", "join", "assign", "answer"} => req[s].pc = req'[s].pc
          /\ req'[s].pc # "end" => req[s].pc # "end"
          /\ req[s].pc = "live" => req'[s].pc = "live"
    BY <1>b, <1>3, <1>4, Zenon
  <2>3. \A t \in TrackIds : tracks[t].waiting \subseteq Requests
    BY Zenon DEF SteadyInv, TypeOK, Track
  <2> QED
    BY <1>1, <1>d, <2>1, <2>2, <2>3, SMTT(60) DEF SteadyInv, Answering
<1>11. Reached'
  <2>1. \A y \in Exchanges : exch'[y].pc = "confirm" <=> exch[y].pc = "confirm"
    BY <1>b, <1>2, Zenon
  <2>2. Served' <=> Served
    BY <1>1, <2>1 DEF Served
  <2> QED
    BY <1>1, <2>1, <2>2, Zenon DEF SteadyInv, Reached, AliasServes
<1> QED
  BY <1>5, <1>6, <1>7, <1>8, <1>9, <1>10, <1>11, ZenonT(60) DEF SteadyInv

\* Objects come over the alias of a track that is served, and expire.
LEMMA CacheKeeps ==
    ASSUME SteadyInv, TypeOK', Expire \/ \E p \in Publishers : CacheObject(p)
    PROVE  SteadyInv'
<1>a. current \in TrackIds /\ tracks \in [TrackIds -> Track]
  BY DEF Expire, CacheObject, SteadyInv, TypeOK, TrackRef
<1>1. UNCHANGED <<current, made, aliases, connected, req, exch, closing>>
  BY DEF Expire, CacheObject
<1>2. PICK c \in BOOLEAN : /\ tracks' = [tracks EXCEPT ![current].cached = c]
                           /\ c => aliases # {}
  BY ZenonT(60) DEF Expire, CacheObject
<1>3. \A t \in TrackIds :
        /\ tracks'[t].origin = tracks[t].origin /\ tracks'[t].status = tracks[t].status
        /\ tracks'[t].subs = tracks[t].subs /\ tracks'[t].waiting = tracks[t].waiting
        /\ tracks'[t].pubs = tracks[t].pubs
        /\ tracks'[t].unanswered = tracks[t].unanswered
        /\ tracks'[t].cached => tracks[t].cached \/ (t = current /\ aliases # {})
  BY <1>a, <1>2, ZenonT(60) DEF Track
<1>b. \A r \in Requests : req[r].creator => req[r].track \in TrackIds
  BY Zenon DEF SteadyInv, TypeOK, Creating, Request, TrackRef
<1>4. Calm'
  BY <1>1, <1>3, ZenonT(60) DEF SteadyInv, Calm
<1>5. Creating'
  BY <1>1, <1>3, <1>b, ZenonT(60) DEF SteadyInv, Creating
<1>6. AtHome'
  BY <1>1, ZenonT(60) DEF SteadyInv, AtHome
<1>7. Agreed'
  <2>1. \A x \in Exchanges : exch[x].accepted => req[x[1]].creator
    BY Zenon DEF SteadyInv, Agreed, AtHome, Asking
  <2>2. \A r \in Requests : req[r].creator
          => tracks'[req[r].track].status = tracks[req[r].track].status
    BY <1>3, <1>b, Zenon
  <2>3. tracks'[current].status = tracks[current].status
    BY <1>3, <1>a, Zenon
  <2> QED
    BY <1>1, <2>1, <2>2, <2>3, Pairs, SMTT(60) DEF SteadyInv, Agreed
<1>8. Counting'
  <2>1. \A r \in Requests : Owed(r)' = Owed(r)
    BY <1>1, ZenonT(60) DEF Owed
  <2> QED
    BY <1>1, <1>3, <1>b, <2>1, Zenon DEF SteadyInv, Counting
<1>9. Answering'
  BY <1>1, <1>3, <1>b, SMTT(60) DEF SteadyInv, Answering
<1>10. Reached'
  <2>1. Served' <=> Served
    BY <1>1, <1>3, <1>a, Zenon DEF Served
  <2>2. AliasServes'
    BY <1>1, <1>3, <1>a, SMTT(60) DEF SteadyInv, Reached, AliasServes
  <2> QED
    BY <1>1, <1>3, <2>1, <2>2, Zenon DEF SteadyInv, Reached
<1> QED
  BY <1>4, <1>5, <1>6, <1>7, <1>8, <1>9, <1>10, ZenonT(60) DEF SteadyInv

(***************************************************************************)
(* The invariant and what it gives.                                         *)
(***************************************************************************)

(***************************************************************************)
(* NoWaiterForgotten is not inductive: a SUBSCRIBE that read Pending could  *)
(* put itself on the waiting list of a track that has been confirmed since. *)
(* It cannot, because it reads and waits under the track's read lock, which *)
(* confirm's write lock excludes.                                           *)
(***************************************************************************)
AnswerFresh ==
    \A r \in Requests :
        req[r].pc = "answer" /\ req[r].seen = "Pending"
            => tracks[req[r].track].status # "Confirmed"

WaitersInv == TypeOK /\ AnswerFresh /\ NoWaiterForgotten

Fanning == {"tell", "tellWaiting"}

\* What every step leaves alone that neither answers a joiner nor confirms: no
\* Track becomes Confirmed or gets a waiter, no fan-out ends, no status is read.
TracksQuiet ==
    \A t \in TrackIds :
        /\ tracks'[t].status = "Confirmed" => tracks[t].status = "Confirmed"
        /\ tracks'[t].waiting \subseteq tracks[t].waiting

ExchangesQuiet ==
    \A x \in Exchanges :
        exch[x].pc \in Fanning => exch'[x].pc = exch[x].pc /\ exch'[x].track = exch[x].track

RequestsQuiet ==
    \A r \in Requests :
        req'[r].pc = "answer" => /\ req[r].pc = "answer"
                                 /\ req'[r].track = req[r].track
                                 /\ req'[r].seen = req[r].seen

\* A quiet step preserves the invariant.
LEMMA QuietPreserves ==
    ASSUME WaitersInv, TypeOK', TracksQuiet, ExchangesQuiet, RequestsQuiet
    PROVE  WaitersInv'
<1>1. AnswerFresh'
  <2> SUFFICES ASSUME NEW r \in Requests, req'[r].pc = "answer", req'[r].seen = "Pending"
               PROVE  tracks'[req'[r].track].status # "Confirmed"
    BY DEF AnswerFresh
  <2>1. req[r].pc = "answer" /\ req'[r].track = req[r].track /\ req[r].seen = "Pending"
    BY DEF RequestsQuiet
  <2>2. req[r].track \in TrackIds
    BY <2>1 DEF WaitersInv, TypeOK, RequestsHaveTracks
  <2> QED
    BY <2>1, <2>2 DEF WaitersInv, AnswerFresh, TracksQuiet
<1>2. NoWaiterForgotten'
  <2> SUFFICES ASSUME NEW t \in TrackIds,
                      tracks'[t].status = "Confirmed", tracks'[t].waiting # {}
               PROVE  \E x \in Exchanges : exch'[x].track = t /\ exch'[x].pc \in Fanning
    BY DEF NoWaiterForgotten, Fanning
  <2>1. tracks[t].status = "Confirmed" /\ tracks[t].waiting # {}
    BY DEF TracksQuiet
  <2>2. PICK x \in Exchanges : exch[x].track = t /\ exch[x].pc \in Fanning
    BY <2>1 DEF WaitersInv, NoWaiterForgotten, Fanning
  <2> QED
    BY <2>2 DEF ExchangesQuiet
<1> QED
  BY <1>1, <1>2 DEF WaitersInv

\* Steps of a request other than those that answer a joiner are quiet.
LEMMA RequestsAreQuiet ==
    ASSUME TypeOK, NEW r \in Requests,
           \/ SubscribeMiss(r) \/ Subscribe(r) \/ Join(r) \/ Count(r) \/ Refused(r)
           \/ (\E p \in Publishers : Forward(r, p))
           \/ Cancel(r) \/ Leave(r) \/ LeaveCleansUp(r) \/ Disconnect(r)
    PROVE  TracksQuiet /\ ExchangesQuiet /\ RequestsQuiet
<1>a. req \in [Requests -> Request] /\ tracks \in [TrackIds -> Track]
  BY DEF TypeOK
<1>b. exch \in [Exchanges -> Exchange]
  BY DEF TypeOK
<1>c. \A t \in TrackIds : tracks[t] \in Track
  BY <1>a, SMTT(60)
<1>1. TracksQuiet
  <2>1. CASE Join(r)
    <3>1. PICK t \in TrackIds, o \in {"Subscribe", "CacheOnly"}, st \in Statuses :
            /\ tracks' = [tracks EXCEPT ![t].origin = o, ![t].status = st,
                                        ![t].subs = @ \union {r}]
            /\ st = "Pending" \/ st = tracks[t].status
      BY <2>1, ZenonT(60) DEF Join, TypeOK, RequestsHaveTracks, Track, Statuses
    <3> QED
      BY <1>a, <1>c, <3>1 DEF TracksQuiet, Track
  <2>2. CASE Leave(r)
    <3> DEFINE t == req[r].track
               left == [tracks[t] EXCEPT !.subs = @ \ {r}]
    <3>1. t \in TrackIds
      BY <2>2 DEF Leave, TypeOK, RequestsHaveTracks
    <3>2. PICK v \in {left, CacheOnly(left), [left EXCEPT !.registered = {}]} :
            tracks' = [tracks EXCEPT ![t] = v]
      BY <2>2, Zenon DEF Leave
    <3>3. /\ v.status = "Confirmed" => tracks[t].status = "Confirmed"
          /\ v.waiting = tracks[t].waiting
      BY <1>c, <3>1, <3>2, Zenon DEF CacheOnly, Track
    <3> HIDE DEF left
    <3> QED
      BY <1>a, <3>1, <3>2, <3>3 DEF TracksQuiet
  <2>3. CASE Refused(r) \/ Disconnect(r) \/ Count(r)
    <3>1. \/ tracks' = tracks
          \/ \E t \in TrackIds :
               \/ tracks' = [tracks EXCEPT ![t].subs = @ \ {r}]
               \/ \E n : tracks' = [tracks EXCEPT ![t].unanswered = n]
      BY <2>3, ZenonT(60) DEF Refused, Disconnect, Count, TypeOK, RequestsHaveTracks, TrackRef
    <3> QED
      BY <1>a, <1>c, <3>1 DEF TracksQuiet, Track
  <2>4. CASE UNCHANGED tracks
    BY <2>4 DEF TracksQuiet
  <2> QED
    BY <2>1, <2>2, <2>3, <2>4, ZenonT(60)
    DEF SubscribeMiss, Subscribe, Forward, Cancel, LeaveCleansUp
<1>2. ExchangesQuiet
  <2>1. CASE Leave(r)
    <3>1. exch' = exch \/ \E s : exch' = Signalling(s)
      BY <2>1, Zenon DEF Leave
    <3> QED
      BY <3>1, SignallingType, SMTT(60) DEF ExchangesQuiet
  <2>2. CASE \E p \in Publishers : Forward(r, p)
    <3>1. PICK x \in Exchanges : exch[x].pc = "idle" /\ exch' = [exch EXCEPT ![x].pc = "send"]
      BY <2>2, Zenon DEF Forward, Exchanges
    <3> QED
      BY <1>b, <3>1 DEF ExchangesQuiet, Fanning
  <2>3. CASE UNCHANGED exch
    BY <2>3 DEF ExchangesQuiet
  <2> QED
    BY <2>1, <2>2, <2>3, Zenon
    DEF SubscribeMiss, Subscribe, Join, Count, Refused, Cancel, LeaveCleansUp, Disconnect
<1>3. RequestsQuiet
  <2>1. CASE SubscribeMiss(r) \/ Refused(r)
    <3> DEFINE f == Responding({r}, "error")
    <3>1. /\ f \in [Requests -> Request]
          /\ \A s \in Requests : /\ f[s].pc = req[s].pc /\ f[s].track = req[s].track
                                 /\ f[s].seen = req[s].seen
      BY RespondingType
    <3>2. req' = [f EXCEPT ![r].pc = "end"]
      BY <2>1, Zenon DEF SubscribeMiss, Refused
    <3> HIDE DEF f
    <3>3. req'[r].pc = "end" /\ \A s \in Requests : s # r => req'[s] = f[s]
      BY <3>1, <3>2 DEF Request
    <3> QED
      BY <3>1, <3>3, ZenonT(60) DEF RequestsQuiet
  <2>2. CASE Disconnect(r)
    <3>1. req' = [req EXCEPT ![r].gone = TRUE]
      BY <2>2 DEF Disconnect
    <3> QED
      BY <1>a, <3>1 DEF RequestsQuiet, Request
  <2>3. CASE ~(SubscribeMiss(r) \/ Refused(r) \/ Disconnect(r))
    <3>1. PICK q : (req' = [req EXCEPT ![r] = q] /\ q.pc # "answer") \/ req' = req
      <4>a. req[r] \in Request
        BY <1>a, Zenon
      <4>1. CASE Subscribe(r)
        <5>1. req'[r].pc = "join" /\ req' = [req EXCEPT ![r] = req'[r]]
          BY <1>a, <4>a, <4>1 DEF Subscribe, Request
        <5> QED
          BY <5>1
      <4>2. CASE Join(r)
        <5>1. req'[r].pc = "assign" /\ req' = [req EXCEPT ![r] = req'[r]]
          BY <1>a, <4>a, <4>2, Zenon DEF Join, Request
        <5> QED
          BY <5>1, Zenon
      <4>3. CASE Count(r) \/ LeaveCleansUp(r)
        <5>1. req'[r].pc # "answer" /\ req' = [req EXCEPT ![r] = req'[r]]
          BY <1>a, <4>a, <4>3 DEF Count, LeaveCleansUp, Request
        <5> QED
          BY <5>1
      <4>4. CASE \E p \in Publishers : Forward(r, p)
        <5>1. req' = req \/ req' = [req EXCEPT ![r].pc = "live"]
          BY <4>4 DEF Forward
        <5>2. req' = [req EXCEPT ![r].pc = "live"] =>
                req'[r].pc = "live" /\ req' = [req EXCEPT ![r] = req'[r]]
          BY <1>a, <4>a DEF Request
        <5> QED
          BY <5>1, <5>2, ZenonT(60)
      <4>5. CASE Cancel(r)
        <5>1. PICK pc \in {"leave", "closed"} :
                req' = [req EXCEPT ![r].track = current, ![r].pc = pc]
          BY <4>5, Zenon DEF Cancel
        <5>2. req'[r].pc = pc /\ req' = [req EXCEPT ![r] = req'[r]]
          BY <1>a, <4>a, <5>1, Zenon DEF Request
        <5> QED
          BY <5>1, <5>2, Zenon
      <4>6. CASE Leave(r)
        <5>1. PICK pc \in {"closed", "unalias", "remove"},
                   d \in {tracks[req[r].track].pubs} :
                \/ req' = [req EXCEPT ![r].pc = pc]
                \/ req' = [req EXCEPT ![r].pc = pc, ![r].dropped = d]
          <6>1. [tracks[req[r].track] EXCEPT !.subs = @ \ {r}].pubs
                  = tracks[req[r].track].pubs
            <7>1. tracks[req[r].track] \in Track
              BY <1>c, <4>6, Zenon DEF Leave, TypeOK, RequestsHaveTracks
            <7> QED
              BY <7>1, Zenon DEF Track
          <6> QED
            BY <4>6, <6>1, Zenon DEF Leave
        <5>2. req'[r].pc = pc /\ req' = [req EXCEPT ![r] = req'[r]]
          BY <1>a, <4>a, <5>1 DEF Request
        <5> QED
          BY <5>1, <5>2
      <4> QED
        BY <2>3, <4>1, <4>2, <4>3, <4>4, <4>5, <4>6, Zenon
    <3> QED
      BY <1>a, <3>1 DEF RequestsQuiet
  <2> QED
    BY <2>1, <2>2, <2>3, Zenon
<1> QED
  BY <1>1, <1>2, <1>3, Zenon

\* A step that only answers or tells requests is quiet about them.
LEMMA AnsweredIsQuiet ==
    ASSUME TypeOK, NEW to,
           \/ \E kind \in {"ok", "error"} : req' = Responding(to, kind)
           \/ req' = Telling(to)
    PROVE  RequestsQuiet
  BY RespondingType, TellingType DEF RequestsQuiet

\* An exchange that was not fanning out may become anything.
LEMMA OneExchangeIsQuiet ==
    ASSUME TypeOK, NEW x \in Exchanges, exch[x].pc \notin Fanning,
           \A y \in Exchanges : y # x => exch'[y].pc = exch[y].pc /\ exch'[y].track = exch[y].track
    PROVE  ExchangesQuiet
  BY DEF ExchangesQuiet

\* retire is quiet about the Tracks.
LEMMA RetiredIsQuiet ==
    ASSUME TypeOK, NEW t \in TrackIds, tracks' = Retired(t)
    PROVE  TracksQuiet
<1>1. tracks \in [TrackIds -> Track] /\ tracks[t] \in Track
  BY DEF TypeOK
<1> DEFINE v == [CacheOnly(tracks[t]) EXCEPT !.subs = {}]
<1>2. v.status = "Pending" /\ v.waiting = tracks[t].waiting
  BY <1>1 DEF CacheOnly, Track
<1>3. tracks' = tracks \/ tracks' = [tracks EXCEPT ![t] = v]
  BY DEF Retired
<1> HIDE DEF v
<1> QED
  BY <1>1, <1>2, <1>3, Zenon DEF TracksQuiet

\* Steps of an exchange other than confirming and answering the waiters are quiet.
LEMMA ExchangesAreQuiet ==
    ASSUME TypeOK, NEW x \in Exchanges,
           \/ Send(x) \/ FindTrack(x) \/ Cancelled(x) \/ AnswerDeadline(x)
           \/ Fails(x) \/ Accepts(x) \/ FindRejected(x)
           \/ Register(x) \/ CleanUpCancelled(x) \/ UpstreamDone(x) \/ EndUpstream(x)
           \/ DropPublisher(x) \/ Reject(x)
           \/ OkAlias(x) \/ NotifyDone(x) \/ TellErrorCreator(x) \/ TellErrorWaiting(x)
           \/ Retire(x) \/ CleanUp(x)
    PROVE  TracksQuiet /\ ExchangesQuiet /\ RequestsQuiet
<1>a. exch \in [Exchanges -> Exchange] /\ tracks \in [TrackIds -> Track]
  BY DEF TypeOK
<1>b. current # NoTrack => current \in TrackIds
  BY DEF TypeOK, TrackRef
<1>c. \A t \in TrackIds : tracks[t] \in Track
  BY <1>a, ZenonT(60)
<1>e. /\ exch[x].pc = "register" => exch[x].home \in TrackIds
      /\ exch[x].pc \in {"drop", "tellErrorWaiting"} => exch[x].track \in TrackIds
  BY DEF TypeOK, ExchangesHaveTracks
<1>f. exch[x].track # NoTrack => exch[x].track \in TrackIds
  BY <1>a, Zenon DEF Exchange, TrackRef
<1>1. TracksQuiet
  <2>1. CASE Retire(x)
    <3>1. tracks' = tracks \/ (current \in TrackIds /\ tracks' = Retired(current))
      BY <1>b, <2>1, Zenon DEF Retire
    <3> QED
      BY <3>1, RetiredIsQuiet, Zenon DEF TracksQuiet
  <2>2. CASE \/ Register(x) \/ CleanUpCancelled(x) \/ UpstreamDone(x) \/ EndUpstream(x)
             \/ DropPublisher(x) \/ Reject(x) \/ TellErrorWaiting(x)
    <3>1. \/ tracks' = tracks
          \/ \E t \in TrackIds :
               \/ \E v : \/ tracks' = [tracks EXCEPT ![t].registered = v]
                        \/ tracks' = [tracks EXCEPT ![t].unanswered = v]
                        \/ tracks' = [tracks EXCEPT ![t].pubs = v]
               \/ tracks' = [tracks EXCEPT ![t].waiting = {}]
               \/ tracks' = [tracks EXCEPT ![t].status = "Rejected"]
      <4>1. CASE Register(x)
        BY <1>e, <4>1, Zenon DEF Register, At
      <4>2. CASE CleanUpCancelled(x) \/ UpstreamDone(x) \/ EndUpstream(x)
        BY <1>b, <4>2, Zenon DEF CleanUpCancelled, UpstreamDone, EndUpstream
      <4>3. CASE DropPublisher(x) \/ TellErrorWaiting(x)
        BY <1>e, <4>3, Zenon DEF DropPublisher, TellErrorWaiting, At
      <4>4. CASE Reject(x)
        BY <1>f, <4>4, Zenon DEF Reject
      <4> QED
        BY <2>2, <4>1, <4>2, <4>3, <4>4, ZenonT(60)
    <3> QED
      BY <1>a, <1>c, <3>1 DEF TracksQuiet, Track
  <2>3. CASE UNCHANGED tracks
    BY <2>3, Zenon DEF TracksQuiet
  <2> QED
    BY <2>1, <2>2, <2>3, Zenon DEF Send, FindTrack, Cancelled, AnswerDeadline, Fails, Accepts,
       FindRejected, OkAlias, NotifyDone, TellErrorCreator, CleanUp
<1>2. ExchangesQuiet
  <2>1. exch[x].pc \notin Fanning
    BY Zenon DEF Send, FindTrack, Cancelled, AnswerDeadline, Fails, Accepts, FindRejected,
       Register, CleanUpCancelled, UpstreamDone, EndUpstream, DropPublisher, Reject,
       OkAlias, NotifyDone, TellErrorCreator, TellErrorWaiting, Retire, CleanUp,
       At, Fanning
  <2>2. ASSUME NEW y \in Exchanges, y # x
        PROVE  exch'[y].pc = exch[y].pc /\ exch'[y].track = exch[y].track
    <3>1. CASE Retire(x)
      <4>1. CASE current # NoTrack /\ tracks[current].cached
        <5> DEFINE f == Signalling(tracks[current].registered)
        <5>1. exch' = [f EXCEPT ![x].pc = "unalias", ![x].track = current,
                                ![x].dropped = tracks[current].pubs]
          BY <3>1, <4>1, Zenon DEF Retire
        <5>2. /\ f \in [Exchanges -> Exchange]
              /\ f[y].pc = exch[y].pc /\ f[y].track = exch[y].track
          BY SignallingType, Zenon
        <5> HIDE DEF f
        <5> QED
          BY <2>2, <5>1, <5>2, Zenon
      <4>2. CASE ~(current # NoTrack /\ tracks[current].cached)
        BY <1>a, <2>2, <3>1, <4>2, Zenon DEF Retire, Goes
      <4> QED
        BY <4>1, <4>2, Zenon
    <3>2. CASE ~Retire(x)
      <4>1. exch'[y] = exch[y]
        BY <1>a, <2>2, <3>2, ZenonT(60) DEF Send, FindTrack, Cancelled, AnswerDeadline, Fails, Accepts,
           FindRejected, Register, CleanUpCancelled, UpstreamDone, EndUpstream,
           DropPublisher, Reject, OkAlias, NotifyDone, TellErrorCreator,
           TellErrorWaiting, CleanUp, Goes
      <4> QED
        BY <4>1, Zenon
    <3> QED
      BY <3>1, <3>2, Zenon
  <2> QED
    BY <2>1, <2>2, OneExchangeIsQuiet, Zenon
<1>3. RequestsQuiet
  <2>1. CASE NotifyDone(x) \/ TellErrorCreator(x) \/ TellErrorWaiting(x)
    BY <2>1, AnsweredIsQuiet, Zenon DEF NotifyDone, TellErrorCreator, TellErrorWaiting
  <2>2. CASE UNCHANGED req
    BY <2>2 DEF RequestsQuiet
  <2> QED
    BY <2>1, <2>2, Zenon DEF Send, FindTrack, Cancelled, AnswerDeadline, Fails, Accepts,
       FindRejected, Register, CleanUpCancelled, UpstreamDone, EndUpstream, DropPublisher,
       Reject, OkAlias, Retire, CleanUp
<1> QED
  BY <1>1, <1>2, <1>3, Zenon

\* So are those of a closing session and of the cache.
LEMMA OthersAreQuiet ==
    ASSUME TypeOK,
           \/ \E p \in Publishers : Close(p) \/ CloseStep(p) \/ CacheObject(p)
           \/ Expire \/ Sweep \/ UNCHANGED vars
    PROVE  TracksQuiet /\ ExchangesQuiet /\ RequestsQuiet
<1>a. tracks \in [TrackIds -> Track] /\ \A t \in TrackIds : tracks[t] \in Track
  BY DEF TypeOK
<1>b. current # NoTrack => current \in TrackIds
  BY DEF TypeOK, TrackRef
<1>1. TracksQuiet
  <2>1. CASE \E p \in Publishers : CloseRetires(p)
    <3>1. tracks' = tracks \/ (current \in TrackIds /\ tracks' = Retired(current))
      BY <1>b, <2>1 DEF CloseRetires
    <3> QED
      BY <3>1, RetiredIsQuiet, Zenon DEF TracksQuiet
  <2>2. CASE ~\E p \in Publishers : CloseRetires(p)
    <3>1. \/ tracks' = tracks
          \/ /\ current \in TrackIds
             /\ \E v : \/ tracks' = [tracks EXCEPT ![current].pubs = v]
                       \/ tracks' = [tracks EXCEPT ![current].cached = v]
      BY <1>b, <2>2, Zenon DEF Close, CloseStep, CloseCleansUp, Forget, CacheObject, Expire,
         Sweep, vars
    <3> QED
      BY <1>a, <3>1 DEF TracksQuiet, Track
  <2> QED
    BY <2>1, <2>2, Zenon
<1>2. ExchangesQuiet
  <2>1. exch' = exch \/ \E s : exch' = Signalling(s)
    BY ZenonT(60) DEF Close, CloseStep, CloseRetires, CloseCleansUp, Forget, CacheObject, Expire,
       Sweep, vars
  <2> QED
    BY <2>1, SignallingType, SMTT(60) DEF ExchangesQuiet
<1>3. RequestsQuiet
  <2>1. req' = req \/ \E to : req' = Telling(to)
    BY Zenon DEF Close, CloseStep, CloseRetires, CloseCleansUp, Forget, CacheObject, Expire,
       Sweep, vars
  <2> QED
    BY <2>1, AnsweredIsQuiet DEF RequestsQuiet
<1> QED
  BY <1>1, <1>2, <1>3, Zenon

\* A joiner reads the status, and waits if it read Pending.
LEMMA JoinersWait ==
    ASSUME WaitersInv, TypeOK', NEW r \in Requests, ReadStatus(r) \/ AnswerJoiner(r)
    PROVE  WaitersInv'
<1>a. req \in [Requests -> Request] /\ tracks \in [TrackIds -> Track]
  BY Zenon DEF WaitersInv, TypeOK
<1>b. req[r] \in Request /\ req[r].track \in TrackIds
  BY <1>a, Zenon DEF ReadStatus, AnswerJoiner, WaitersInv, TypeOK, RequestsHaveTracks
<1>1. CASE ReadStatus(r)
  <2>1. /\ req'[r].track = req[r].track /\ req'[r].seen = tracks[req[r].track].status
        /\ \A s \in Requests : s # r => req'[s] = req[s]
    BY <1>1, <1>a, <1>b DEF ReadStatus, Request
  <2>2. UNCHANGED <<tracks, exch>>
    BY <1>1, Zenon DEF ReadStatus
  <2>3. AnswerFresh'
    BY <2>1, <2>2 DEF WaitersInv, AnswerFresh
  <2> QED
    BY <2>2, <2>3 DEF WaitersInv, NoWaiterForgotten
<1>2. CASE AnswerJoiner(r) /\ req[r].seen = "Pending"
  <2> DEFINE t == req[r].track
  <2>1. tracks[t].status # "Confirmed"
    BY <1>2, Zenon DEF AnswerJoiner, WaitersInv, AnswerFresh
  <2>2. /\ \A u \in TrackIds : tracks'[u].status = tracks[u].status
        /\ \A u \in TrackIds : u # t => tracks'[u] = tracks[u]
    BY <1>2, <1>a, <1>b DEF AnswerJoiner, Track
  <2>3. /\ req'[r].pc = "live"
        /\ \A s \in Requests : s # r => req'[s] = req[s]
    BY <1>2, <1>a, <1>b, Zenon DEF AnswerJoiner, Request
  <2>4. UNCHANGED exch
    BY <1>2, Zenon DEF AnswerJoiner
  <2>5. AnswerFresh'
    <3> SUFFICES ASSUME NEW s \in Requests, req'[s].pc = "answer", req'[s].seen = "Pending"
                 PROVE  tracks'[req'[s].track].status # "Confirmed"
      BY DEF AnswerFresh
    <3>1. req'[s] = req[s]
      BY <2>3, Zenon
    <3>2. req[s].track \in TrackIds
      BY <3>1, Zenon DEF WaitersInv, TypeOK, RequestsHaveTracks
    <3> QED
      BY <2>2, <3>1, <3>2, Zenon DEF WaitersInv, AnswerFresh
  <2>6. NoWaiterForgotten'
    BY <2>1, <2>2, <2>4 DEF WaitersInv, NoWaiterForgotten
  <2> QED
    BY <2>5, <2>6, Zenon DEF WaitersInv
<1>3. CASE AnswerJoiner(r) /\ req[r].seen # "Pending"
  <2>1. PICK kind \in {"ok", "error"}, pc \in {"live", "closed"} :
          req' = [Responding({r}, kind) EXCEPT ![r].pc = pc]
    BY <1>3, Zenon DEF AnswerJoiner
  <2> DEFINE f == Responding({r}, kind)
  <2>2. /\ f \in [Requests -> Request]
        /\ \A s \in Requests : /\ f[s].pc = req[s].pc /\ f[s].track = req[s].track
                               /\ f[s].seen = req[s].seen
    BY RespondingType DEF WaitersInv
  <2>3. req' = [f EXCEPT ![r].pc = pc]
    BY <2>1
  <2> HIDE DEF f
  <2>4. req'[r].pc = pc /\ \A s \in Requests : s # r => req'[s] = f[s]
    BY <2>2, <2>3 DEF Request
  <2>5. RequestsQuiet
    BY <2>2, <2>4, Zenon DEF RequestsQuiet
  <2>6. UNCHANGED <<tracks, exch>>
    BY <1>3 DEF AnswerJoiner
  <2> QED
    BY <2>5, <2>6, QuietPreserves, Zenon DEF TracksQuiet, ExchangesQuiet
<1> QED
  BY <1>1, <1>2, <1>3

\* The publisher that confirms the track goes on to answer the waiters; nobody is
\* between reading the status and waiting, because confirm excludes readers.
LEMMA ConfirmKeepsWaiters ==
    ASSUME WaitersInv, TypeOK', NEW x \in Exchanges, Confirm(x)
    PROVE  WaitersInv'
<1> DEFINE t == exch[x].track
<1>a. exch \in [Exchanges -> Exchange] /\ exch[x] \in Exchange
  BY DEF WaitersInv, TypeOK
<1>b. tracks \in [TrackIds -> Track]
  BY Zenon DEF WaitersInv, TypeOK
<1>c. exch[x].pc = "confirm" /\ t \in TrackIds
  BY DEF Confirm, At, WaitersInv, TypeOK, ExchangesHaveTracks
<1>d. /\ \A u \in TrackIds : u # t => tracks'[u] = tracks[u]
      /\ tracks'[t].waiting = tracks[t].waiting
      /\ tracks'[t].status = IF tracks[t].status = "Pending" THEN "Confirmed"
                             ELSE tracks[t].status
  BY <1>b, <1>c DEF Confirm, Confirmed, Track
<1>e. /\ \A y \in Exchanges : y # x => exch'[y] = exch[y]
      /\ exch'[x].track = t
      /\ tracks[t].status = "Pending" => exch'[x].pc = "tell"
  BY <1>a, Zenon DEF Confirm, Exchange
<1>1. AnswerFresh'
  <2> SUFFICES ASSUME NEW r \in Requests, req[r].pc = "answer", req[r].seen = "Pending"
               PROVE  tracks'[req[r].track].status # "Confirmed"
    BY DEF AnswerFresh, Confirm
  <2>1. req[r].track # t
    BY Zenon DEF Confirm, TrackReadHeld
  <2>2. req[r].track \in TrackIds
    BY Zenon DEF WaitersInv, TypeOK, RequestsHaveTracks
  <2> QED
    BY <1>d, <2>1, <2>2, Zenon DEF WaitersInv, AnswerFresh
<1>2. NoWaiterForgotten'
  <2> SUFFICES ASSUME NEW u \in TrackIds,
                      tracks'[u].status = "Confirmed", tracks'[u].waiting # {}
               PROVE  \E y \in Exchanges : exch'[y].track = u /\ exch'[y].pc \in Fanning
    BY Zenon DEF NoWaiterForgotten, Fanning
  <2>1. CASE u = t /\ tracks[t].status = "Pending"
    BY <1>e, <2>1, Zenon DEF Fanning
  <2>2. CASE ~(u = t /\ tracks[t].status = "Pending")
    <3>1. tracks[u].status = "Confirmed" /\ tracks[u].waiting # {}
      BY <1>d, <2>2, Zenon
    <3>2. PICK y \in Exchanges : exch[y].track = u /\ exch[y].pc \in Fanning
      BY <3>1 DEF WaitersInv, NoWaiterForgotten, Fanning
    <3>3. y # x
      BY <1>c, <3>2, Zenon DEF Fanning
    <3> QED
      BY <1>e, <3>2, <3>3, Zenon
  <2> QED
    BY <2>1, <2>2, Zenon
<1> QED
  BY <1>1, <1>2, Zenon DEF WaitersInv

\* It is done with them only when the list is empty.
LEMMA FanOutKeepsWaiters ==
    ASSUME WaitersInv, TypeOK', NEW x \in Exchanges, TellCreator(x) \/ TellWaiting(x)
    PROVE  WaitersInv'
<1> DEFINE t == exch[x].track
<1>a. exch \in [Exchanges -> Exchange] /\ exch[x] \in Exchange
  BY DEF WaitersInv, TypeOK
<1>b. tracks \in [TrackIds -> Track] /\ \A u \in TrackIds : tracks[u] \in Track
  BY DEF WaitersInv, TypeOK
<1>c. t \in TrackIds
  BY DEF TellCreator, TellWaiting, At, WaitersInv, TypeOK, ExchangesHaveTracks
<1>1. RequestsQuiet
  BY AnsweredIsQuiet, Zenon DEF TellCreator, TellWaiting, WaitersInv
<1>2. TracksQuiet
  BY <1>b, <1>c DEF TellCreator, TellWaiting, TracksQuiet, Track
<1>3. AnswerFresh'
  <2> SUFFICES ASSUME NEW r \in Requests, req'[r].pc = "answer", req'[r].seen = "Pending"
               PROVE  tracks'[req'[r].track].status # "Confirmed"
    BY DEF AnswerFresh
  <2>1. req[r].pc = "answer" /\ req'[r].track = req[r].track /\ req[r].seen = "Pending"
    BY <1>1, Zenon DEF RequestsQuiet
  <2>2. req[r].track \in TrackIds
    BY <2>1, Zenon DEF WaitersInv, TypeOK, RequestsHaveTracks
  <2> QED
    BY <1>2, <2>1, <2>2, Zenon DEF WaitersInv, AnswerFresh, TracksQuiet
<1>4. NoWaiterForgotten'
  <2> SUFFICES ASSUME NEW u \in TrackIds,
                      tracks'[u].status = "Confirmed", tracks'[u].waiting # {}
               PROVE  \E y \in Exchanges : exch'[y].track = u /\ exch'[y].pc \in Fanning
    BY Zenon DEF NoWaiterForgotten, Fanning
  <2>1. tracks[u].status = "Confirmed" /\ tracks[u].waiting # {}
    BY <1>2, Zenon DEF TracksQuiet
  <2>2. PICK y \in Exchanges : exch[y].track = u /\ exch[y].pc \in Fanning
    BY <2>1, Zenon DEF WaitersInv, NoWaiterForgotten, Fanning
  <2>3. CASE y = x
    <3>1. CASE TellCreator(x)
      <4>1. exch'[x].track = t /\ exch'[x].pc = "tellWaiting"
        BY <1>a, <3>1, Zenon DEF TellCreator, Goes, Exchange
      <4> QED
        BY <2>2, <2>3, <4>1 DEF Fanning
    <3>2. CASE TellWaiting(x)
      <4>1. tracks'[t].waiting = {}
        BY <1>b, <1>c, <3>2 DEF TellWaiting, Track
      <4> QED
        BY <2>2, <2>3, <4>1, Zenon
    <3> QED
      BY <3>1, <3>2, Zenon
  <2>4. CASE y # x
    <3>1. exch'[y] = exch[y]
      BY <1>a, <2>4 DEF TellCreator, TellWaiting, Goes
    <3> QED
      BY <2>2, <3>1, Zenon
  <2> QED
    BY <2>3, <2>4, Zenon
<1> QED
  BY <1>3, <1>4, Zenon DEF WaitersInv

\* Nobody waits yet.
LEMMA WaitersInit == Init => WaitersInv
<1> SUFFICES ASSUME Init PROVE WaitersInv
  BY Zenon
<1>1. AnswerFresh
  BY ZenonT(60) DEF Init, AnswerFresh
<1>2. NoWaiterForgotten
  BY DEF Init, NewTrack, NoWaiterForgotten
<1> QED
  BY <1>1, <1>2, InitTypes DEF WaitersInv

\* Every step preserves the invariant.
LEMMA WaitersNext ==
    ASSUME Countable, WaitersInv, [Next]_vars
    PROVE  WaitersInv'
<1>a. TypeOK /\ TypeOK'
  BY NextTypes, Zenon DEF WaitersInv
<1>1. ASSUME NEW r \in Requests, RequestStep(r) \/ Refused(r) \/ Cancel(r) \/ Disconnect(r)
      PROVE  WaitersInv'
  BY <1>1, <1>a, JoinersWait, RequestsAreQuiet, QuietPreserves, Zenon DEF RequestStep
<1>2. ASSUME NEW x \in Exchanges,
             \/ ExchangeStep(x) \/ AnswerDeadline(x) \/ Fails(x)
             \/ UpstreamDone(x) \/ Accepts(x)
      PROVE  WaitersInv'
  BY <1>2, <1>a, ConfirmKeepsWaiters, FanOutKeepsWaiters, ExchangesAreQuiet,
     QuietPreserves, Zenon DEF ExchangeStep
<1>3. CASE \/ \E p \in Publishers : Close(p) \/ CloseStep(p) \/ CacheObject(p)
           \/ Expire \/ Sweep \/ UNCHANGED vars
  BY <1>3, <1>a, OthersAreQuiet, QuietPreserves, Zenon
<1> QED
  BY <1>1, <1>2, <1>3 DEF Next

(***************************************************************************)
(* UpstreamReleased is inductive, given the types: `handover' makes leaving *)
(* and registering single steps.  It fails if sessions disconnect or        *)
(* switching sets refuse: both take a subscriber off the track without      *)
(* remove_subscriber.                                                       *)
(***************************************************************************)

\* A step that replaces one Track keeps the property if that Track has it.
LEMMA OneTrackReleased ==
    ASSUME TypeOK, UpstreamReleased, NEW t \in TrackIds, NEW v,
           tracks' = [tracks EXCEPT ![t] = v], v.subs = {} => v.registered = {}
    PROVE  UpstreamReleased'
<1>1. tracks \in [TrackIds -> Track]
  BY SMTT(60) DEF TypeOK
<1> QED
  BY <1>1, Zenon DEF UpstreamReleased

\* Steps of a request: the last one to leave takes the upstream requests along.
LEMMA RequestsRelease ==
    ASSUME TypeOK, UpstreamReleased, NEW r \in Requests,
           \/ RequestStep(r) \/ Cancel(r)
    PROVE  UpstreamReleased'
<1> DEFINE t == req[r].track
<1>a. tracks \in [TrackIds -> Track]
  BY DEF TypeOK
<1>b. req[r].pc \in OnTrack => t \in TrackIds
  BY DEF TypeOK, RequestsHaveTracks, OnTrack
<1>1. CASE Join(r)
  <2>1. t \in TrackIds
    BY <1>1, <1>b DEF Join, OnTrack
  <2> DEFINE v == tracks'[t]
  <2>2. tracks' = [tracks EXCEPT ![t] = v] /\ r \in v.subs
    BY <1>1, <1>a, <2>1, ZenonT(60) DEF Join, Track
  <2> HIDE DEF v
  <2> QED
    BY <2>1, <2>2, OneTrackReleased, ZenonT(60)
<1>2. CASE Count(r) \/ AnswerJoiner(r)
  <2>1. t \in TrackIds
    BY <1>2, <1>b, Zenon DEF Count, AnswerJoiner, OnTrack
  <2> DEFINE v == tracks'[t]
  <2>2. /\ tracks' = [tracks EXCEPT ![t] = v]
        /\ v.subs = tracks[t].subs /\ v.registered = tracks[t].registered
    BY <1>2, <1>a, <2>1 DEF Count, AnswerJoiner, Track
  <2> HIDE DEF v
  <2> QED
    BY <2>1, <2>2, OneTrackReleased DEF UpstreamReleased
<1>3. CASE Leave(r)
  <2> DEFINE left == [tracks[t] EXCEPT !.subs = @ \ {r}]
  <2>1. t \in TrackIds
    BY <1>3, <1>b, ZenonT(60) DEF Leave, OnTrack
  <2>2. PICK v : /\ tracks' = [tracks EXCEPT ![t] = v]
                 /\ \/ v = left /\ left.subs # {}
                    \/ v = CacheOnly(left)
                    \/ v = [left EXCEPT !.registered = {}]
    BY <1>3 DEF Leave
  <2>3. v.subs = {} => v.registered = {}
    BY <1>a, <2>1, <2>2, Zenon DEF CacheOnly, Track
  <2> HIDE DEF left
  <2> QED
    BY <2>1, <2>2, <2>3, OneTrackReleased, Zenon
<1>4. CASE UNCHANGED tracks
  BY <1>4, Zenon DEF UpstreamReleased
<1> QED
  BY <1>1, <1>2, <1>3, <1>4, Zenon
  DEF RequestStep, SubscribeMiss, Subscribe, Forward, ReadStatus, LeaveCleansUp, Cancel

\* retire detaches the subscribers and takes the upstream requests along.
LEMMA RetiredReleases ==
    ASSUME TypeOK, UpstreamReleased, NEW t \in TrackIds, tracks' = Retired(t)
    PROVE  UpstreamReleased'
<1> DEFINE v == [CacheOnly(tracks[t]) EXCEPT !.subs = {}]
<1>1. v.registered = {}
  BY DEF TypeOK, CacheOnly, Track
<1>2. tracks' = tracks \/ tracks' = [tracks EXCEPT ![t] = v]
  BY DEF Retired
<1> HIDE DEF v
<1> QED
  BY <1>1, <1>2, OneTrackReleased, Zenon DEF UpstreamReleased

\* Steps of an exchange: it is not registered on a Track that nobody subscribes to.
LEMMA ExchangesRelease ==
    ASSUME TypeOK, UpstreamReleased, NEW x \in Exchanges,
           \/ ExchangeStep(x) \/ AnswerDeadline(x) \/ Fails(x)
           \/ UpstreamDone(x) \/ Accepts(x)
    PROVE  UpstreamReleased'
<1>a. exch \in [Exchanges -> Exchange] /\ tracks \in [TrackIds -> Track]
  BY DEF TypeOK
<1>b. current # NoTrack => current \in TrackIds
  BY Zenon DEF TypeOK, TrackRef
<1>e. /\ exch[x].pc = "register" => exch[x].home \in TrackIds
      /\ exch[x].pc \in OnFound => exch[x].track \in TrackIds
  BY DEF TypeOK, ExchangesHaveTracks, OnFound
<1>f. exch[x].track # NoTrack => exch[x].track \in TrackIds
  BY <1>a, Zenon DEF Exchange, TrackRef
<1>1. CASE Register(x)
  <2> DEFINE t == exch[x].home
  <2>1. t \in TrackIds
    BY <1>1, <1>e DEF Register, At
  <2>2. CASE tracks[t].subs = {}
    BY <1>1, <2>2 DEF Register, UpstreamReleased
  <2>3. CASE tracks[t].subs # {}
    <3> DEFINE v == tracks'[t]
    <3>1. tracks' = [tracks EXCEPT ![t] = v] /\ v.subs # {}
      BY <1>1, <1>a, <2>1, <2>3, ZenonT(60) DEF Register, Track
    <3> HIDE DEF v
    <3> QED
      BY <2>1, <3>1, OneTrackReleased, Zenon
  <2> QED
    BY <2>2, <2>3, Zenon
<1>2. CASE Retire(x)
  <2>1. tracks' = tracks \/ (current \in TrackIds /\ tracks' = Retired(current))
    BY <1>b, <1>2, Zenon DEF Retire
  <2> QED
    BY <2>1, RetiredReleases, Zenon DEF UpstreamReleased
<1>3. CASE Confirm(x)
  <2> DEFINE t == exch[x].track
             v == Confirmed(tracks[t], x[2])
  <2>1. t \in TrackIds
    BY <1>3, <1>e DEF Confirm, At, OnFound
  <2>2. v.subs = tracks[t].subs /\ v.registered = tracks[t].registered
    BY <1>a, <2>1, Zenon DEF Confirmed, Track
  <2>3. tracks' = [tracks EXCEPT ![t] = v]
    BY <1>3, Zenon DEF Confirm
  <2> HIDE DEF v
  <2> QED
    BY <2>1, <2>2, <2>3, OneTrackReleased, Zenon DEF UpstreamReleased
<1>4. CASE ~(Register(x) \/ Retire(x) \/ Confirm(x))
  <2>1. \/ tracks' = tracks
        \/ \E t \in TrackIds : \E v :
             \/ tracks' = [tracks EXCEPT ![t].unanswered = v]
             \/ tracks' = [tracks EXCEPT ![t].pubs = v]
             \/ tracks' = [tracks EXCEPT ![t].waiting = v]
             \/ tracks' = [tracks EXCEPT ![t].status = v]
    <3>1. CASE CleanUpCancelled(x) \/ UpstreamDone(x) \/ EndUpstream(x)
      BY <1>b, <3>1, ZenonT(60) DEF CleanUpCancelled, UpstreamDone, EndUpstream
    <3>2. CASE DropPublisher(x) \/ TellWaiting(x) \/ TellErrorWaiting(x)
      BY <1>e, <3>2 DEF DropPublisher, TellWaiting, TellErrorWaiting, At, OnFound
    <3>3. CASE Reject(x)
      BY <1>f, <3>3, Zenon DEF Reject
    <3>4. CASE UNCHANGED tracks
      BY <3>4
    <3> QED
      BY <1>4, <3>1, <3>2, <3>3, <3>4, ZenonT(60)
      DEF ExchangeStep, Send, FindTrack, Cancelled, AnswerDeadline, Fails, Accepts,
          FindRejected, OkAlias, TellCreator, NotifyDone, TellErrorCreator, CleanUp
  <2>2. ASSUME NEW t \in TrackIds
        PROVE  tracks'[t].subs = tracks[t].subs /\ tracks'[t].registered = tracks[t].registered
    BY <1>a, <2>1 DEF Track
  <2> QED
    BY <2>2, Zenon DEF UpstreamReleased
<1> QED
  BY <1>1, <1>2, <1>3, <1>4, Zenon

\* Steps of a closing session and of the cache.
LEMMA OthersRelease ==
    ASSUME TypeOK, UpstreamReleased,
           \/ \E p \in Publishers : Close(p) \/ CloseStep(p) \/ CacheObject(p)
           \/ Expire \/ Sweep \/ UNCHANGED vars
    PROVE  UpstreamReleased'
<1>a. tracks \in [TrackIds -> Track] /\ \A t \in TrackIds : tracks[t] \in Track
  BY DEF TypeOK
<1>b. current # NoTrack => current \in TrackIds
  BY Zenon DEF TypeOK, TrackRef
<1>1. CASE \E p \in Publishers : CloseRetires(p)
  <2>1. tracks' = tracks \/ (current \in TrackIds /\ tracks' = Retired(current))
    BY <1>b, <1>1 DEF CloseRetires
  <2> QED
    BY <2>1, RetiredReleases, Zenon DEF UpstreamReleased
<1>2. CASE ~\E p \in Publishers : CloseRetires(p)
  <2>1. \/ tracks' = tracks
        \/ /\ current \in TrackIds
           /\ \E v : \/ tracks' = [tracks EXCEPT ![current].pubs = v]
                     \/ tracks' = [tracks EXCEPT ![current].cached = v]
    BY <1>b, <1>2, Zenon DEF Close, CloseStep, CloseCleansUp, Forget, CacheObject, Expire,
       Sweep, vars
  <2> QED
    BY <1>a, <2>1 DEF UpstreamReleased, Track
<1> QED
  BY <1>1, <1>2

\* Every step preserves UpstreamReleased.
LEMMA ReleasedNext ==
    ASSUME "disconnect" \notin Behaviours, "refuse" \notin Behaviours,
           TypeOK, UpstreamReleased, [Next]_vars
    PROVE  UpstreamReleased'
<1>1. ASSUME NEW r \in Requests, RequestStep(r) \/ Refused(r) \/ Cancel(r) \/ Disconnect(r)
      PROVE  UpstreamReleased'
  BY <1>1, RequestsRelease DEF Refused, Disconnect
<1>2. ASSUME NEW x \in Exchanges,
             \/ ExchangeStep(x) \/ AnswerDeadline(x) \/ Fails(x)
             \/ UpstreamDone(x) \/ Accepts(x)
      PROVE  UpstreamReleased'
  BY <1>2, ExchangesRelease
<1>3. CASE \/ \E p \in Publishers : Close(p) \/ CloseStep(p) \/ CacheObject(p)
           \/ Expire \/ Sweep \/ UNCHANGED vars
  BY <1>3, OthersRelease
<1> QED
  BY <1>1, <1>2, <1>3, Zenon DEF Next

=============================================================================
