-------------------- MODULE TrackLifecycleUpstream_proofs -------------------
(***************************************************************************)
(* The upstream exchanges of TrackLifecycle: every step of one keeps        *)
(* SteadyInv.  TrackLifecycleAnswers_proofs has the steps of the requests,  *)
(* TrackLifecycleSafety_proofs what follows.                                *)
(***************************************************************************)
EXTENDS TrackLifecycle_proofs

(***************************************************************************)
(* An exchange that moves.                                                  *)
(***************************************************************************)

\* What no step of an exchange changes but the last one of a refusal.
Stays(x) ==
    /\ UNCHANGED <<current, made, connected, closing>>
    /\ exch[x].pc \notin {"idle", "over"}
    /\ exch'[x].pc \notin {"idle", "cancelled", "unalias"}
    /\ ~exch'[x].cancel /\ ~exch'[x].unsupported
    /\ \A y \in Exchanges : y # x => exch'[y] = exch[y]
    /\ \A r \in Requests :
          /\ req'[r].pc = req[r].pc /\ req'[r].track = req[r].track
          /\ req'[r].creator = req[r].creator /\ req'[r].asked = req[r].asked
          /\ req'[r].gone = req[r].gone
    /\ \A t \in TrackIds :
          /\ t # current => tracks'[t] = tracks[t]
          /\ tracks'[t].origin = tracks[t].origin /\ tracks'[t].subs = tracks[t].subs
          /\ tracks'[t].cached = tracks[t].cached

\* What the invariant asks of the exchange that moved, and of the track's status.
Sound(x) ==
    /\ exch'[x].pc \in Found => exch'[x].track = current
    /\ exch'[x].pc = "register" => exch'[x].home = current
    /\ exch'[x].accepted => /\ exch'[x].answered
                            /\ exch'[x].pc \notin Asking \ {"wait", "ended"}
                            /\ tracks'[current].status = "Confirmed"
    /\ exch'[x].pc \in Early /\ exch'[x].answered => exch'[x].accepted
    /\ exch'[x].pc \in {"ok", "confirm"} => exch'[x].answered
    /\ exch'[x].pc \in {"tell", "tellWaiting"} => exch'[x].accepted
    /\ exch'[x].pc \in Serving => tracks'[current].status = "Confirmed"
    /\ exch'[x].pc \in Failing =>
          /\ tracks'[current].status # "Confirmed"
          /\ \A y \in Exchanges : y[1] = x[1] /\ y # x => exch[y].pc = "over"
    /\ exch'[x].pc \in Refusing \ {"over"} => tracks'[current].status = "Rejected"
    /\ tracks'[current].status = "Rejected" => exch'[x].pc \in Refusing
    /\ tracks[current].status = "Confirmed" => tracks'[current].status = "Confirmed"
    /\ tracks[current].status = "Rejected" => tracks'[current].status = "Rejected"
    /\ tracks'[current].status = "Rejected"
          => tracks[current].status = "Rejected" \/ exch[x].pc \in Failing

\* Nothing is cancelled, and creators and exchanges keep their Track.
LEMMA StaysAtHome ==
    ASSUME SteadyInv, NEW x \in Exchanges, Stays(x), Sound(x)
    PROVE  Calm' /\ Creating' /\ AtHome'
<1>1. Calm'
  BY DEF SteadyInv, Calm, Stays
<1>a. made \in Nat /\ current \in Nat
  BY LifecycleAssumption DEF SteadyInv, TypeOK, TrackRef, NoTrack, TrackIds
<1>b. \A r \in Requests : req[r].creator => req[r].track \in TrackIds
  BY DEF SteadyInv, TypeOK, Creating, Request, TrackRef
<1>2. Creating'
  <2>1. \A t \in TrackIds : t > made => t # current
    BY <1>a DEF SteadyInv, Creating, TrackIds
  <2>2. \A r \in Requests, p \in Publishers :
          exch[<<r, p>>].pc = "idle" => exch'[<<r, p>>].pc = "idle"
    BY Pairs DEF Stays
  <2>3. \A r \in Requests :
          /\ req'[r].track <= made'
          /\ req'[r].pc = "start" => ~req'[r].creator
          /\ req'[r].pc = "answer" => ~req'[r].creator
          /\ req'[r].pc \in {"join", "assign", "forward"}
                => req'[r].asked = Publishers /\ Publishers # {}
          /\ req'[r].creator => req'[r].track # NoTrack
          /\ req'[r].creator /\ req'[r].pc \in {"join", "assign", "forward"}
                => req'[r].track = current'
    BY DEF SteadyInv, Creating, Stays
  <2>4. \A r \in Requests :
          req'[r].creator /\ req'[r].pc \in {"assign", "forward", "live"}
                => r \in tracks'[req'[r].track].subs
    BY <1>b DEF SteadyInv, Creating, Stays
  <2>5. \A r \in Requests :
          req'[r].pc = "forward"
                => req'[r].creator /\ \E p \in Publishers : exch'[<<r, p>>].pc = "idle"
    BY <2>2, ZenonT(60) DEF SteadyInv, Creating, Stays
  <2>6. /\ current' <= made'
        /\ \A t \in TrackIds : t > made' => tracks'[t].status = "Pending" /\ tracks'[t].pubs = {}
        /\ \A r, s \in Requests :
              req'[r].creator /\ req'[s].creator /\ req'[r].track = req'[s].track => r = s
    BY <2>1 DEF SteadyInv, Creating, Stays
  <2> QED
    BY <2>3, <2>4, <2>5, <2>6, Zenon DEF Creating
<1>3. AtHome'
  BY Pairs, Home DEF SteadyInv, AtHome, Stays, Sound
<1> QED
  BY <1>1, <1>2, <1>3

\* The exchanges agree about the track.
LEMMA StaysAgreed ==
    ASSUME SteadyInv, NEW x \in Exchanges, Stays(x), Sound(x)
    PROVE  Agreed'
<1>a. /\ x[1] \in Requests /\ req[x[1]].creator /\ req[x[1]].track = current
      /\ current \in TrackIds
      /\ \A r \in Requests : req[r].creator /\ req[r].track = current => r = x[1]
  BY Home DEF Stays
<1>b. \A r \in Requests : req[r].creator => req[r].track \in TrackIds
  BY DEF SteadyInv, TypeOK, Creating, Request, TrackRef
<1>c. \A y \in Exchanges : exch[y].pc \in Failing \union Serving => exch[y].pc \notin {"idle", "over"}
  BY DEF Failing, Serving
<1> SUFFICES ASSUME NEW y \in Exchanges
             PROVE  /\ exch'[y].accepted =>
                          /\ exch'[y].answered
                          /\ exch'[y].pc \notin Asking \ {"wait", "ended"}
                          /\ tracks'[req'[y[1]].track].status = "Confirmed"
                    /\ exch'[y].pc \in Early /\ exch'[y].answered => exch'[y].accepted
                    /\ exch'[y].pc \in {"ok", "confirm"} => exch'[y].answered
                    /\ exch'[y].pc \in {"tell", "tellWaiting"} => exch'[y].accepted
                    /\ exch'[y].pc \in Serving => tracks'[current'].status = "Confirmed"
                    /\ exch'[y].pc \in Failing =>
                          /\ tracks'[current'].status # "Confirmed"
                          /\ \A z \in Exchanges : z[1] = y[1] /\ z # y => exch'[z].pc = "over"
                    /\ exch'[y].pc \in Refusing \ {"over"}
                          => tracks'[current'].status = "Rejected"
                    /\ req'[y[1]].creator /\ tracks'[req'[y[1]].track].status = "Rejected"
                          => exch'[y].pc \in Refusing
  BY Zenon DEF Agreed
<1>1. y[1] \in Requests
  BY Pairs, Zenon
<1>2. CASE y = x
  BY <1>a, <1>2 DEF Stays, Sound
<1>3. CASE y # x
  <2>1. exch'[y] = exch[y]
    BY <1>3 DEF Stays
  <2>2. /\ req'[y[1]].track = req[y[1]].track /\ req'[y[1]].creator = req[y[1]].creator
        /\ current' = current
    BY <1>1 DEF Stays
  <2>3. exch[y].accepted => exch[y].pc # "idle"
    BY DEF SteadyInv, Agreed, Asking
  <2>4. exch[y].accepted => req[y[1]].creator
    BY <2>3, Zenon DEF SteadyInv, AtHome
  <2>5. req[y[1]].creator =>
          \/ tracks'[req[y[1]].track] = tracks[req[y[1]].track]
          \/ req[y[1]].track = current /\ y[1] = x[1]
    BY <1>a, <1>b, <1>1 DEF Stays
  <2>6. exch[y].pc \notin Failing
    <3> SUFFICES ASSUME exch[y].pc \in Failing PROVE FALSE
      OBVIOUS
    <3>1. x[1] = y[1]
      BY <1>a, <1>c, Home, Zenon
    <3>2. exch[x].pc = "over"
      BY <3>1, <1>3, ZenonT(60) DEF SteadyInv, Agreed
    <3> QED
      BY <3>2 DEF Stays
  <2>7. exch'[y].accepted =>
                          /\ exch'[y].answered
                          /\ exch'[y].pc \notin Asking \ {"wait", "ended"}
                          /\ tracks'[req'[y[1]].track].status = "Confirmed"
    BY <2>1, <2>2, <2>4, <2>5, SMTT(60) DEF SteadyInv, Agreed, Sound
  <2>8. /\ exch'[y].pc \in Early /\ exch'[y].answered => exch'[y].accepted
        /\ exch'[y].pc \in {"ok", "confirm"} => exch'[y].answered
        /\ exch'[y].pc \in {"tell", "tellWaiting"} => exch'[y].accepted
        /\ exch'[y].pc \in Serving => tracks'[current'].status = "Confirmed"
    BY <2>1, <2>2 DEF SteadyInv, Agreed, Sound
  <2>9. req'[y[1]].creator /\ tracks'[req'[y[1]].track].status = "Rejected"
                          => exch'[y].pc \in Refusing
    <3> SUFFICES ASSUME req[y[1]].creator, tracks'[req[y[1]].track].status = "Rejected"
                 PROVE  exch[y].pc \in Refusing
      BY <2>1, <2>2, Zenon
    <3>1. CASE tracks[req[y[1]].track].status = "Rejected"
      BY <3>1 DEF SteadyInv, Agreed
    <3>2. CASE tracks[req[y[1]].track].status # "Rejected"
      <4>1. req[y[1]].track = current /\ y[1] = x[1]
        BY <2>5, <3>2
      <4>2. exch[x].pc \in Failing
        BY <3>2, <4>1, Zenon DEF Sound
      <4>3. exch[y].pc = "over"
        BY <1>3, <4>1, <4>2 DEF SteadyInv, Agreed
      <4> QED
        BY <4>3 DEF Refusing
    <3> QED
      BY <3>1, <3>2, Zenon
  <2>10. exch[y].pc \notin Refusing \ {"over"}
    BY <2>6 DEF Refusing, Failing
  <2> QED
    BY <2>1, <2>6, <2>7, <2>8, <2>9, <2>10, Zenon
<1> QED
  BY <1>2, <1>3

\* Only the count of the track in the map is touched.
LEMMA StaysCounted ==
    ASSUME SteadyInv, NEW x \in Exchanges, Stays(x),
           tracks'[current].status # "Confirmed"
               => Cardinality(Owed(x[1])') <= tracks'[current].unanswered
    PROVE  Counting'
<1>a. /\ x[1] \in Requests /\ req[x[1]].track = current
      /\ \A r \in Requests : req[r].creator /\ req[r].track = current => r = x[1]
  BY Home, Zenon DEF Stays
<1>b. \A r \in Requests : req[r].creator => req[r].track \in TrackIds
  BY DEF SteadyInv, TypeOK, Creating, Request, TrackRef
<1> SUFFICES ASSUME NEW r \in Requests, req'[r].creator, req'[r].pc \in {"forward", "live"},
                    tracks'[req'[r].track].status # "Confirmed"
             PROVE  Cardinality(Owed(r)') <= tracks'[req'[r].track].unanswered
  BY DEF Counting
<1>1. /\ req[r].creator /\ req[r].pc \in {"forward", "live"}
      /\ req'[r].track = req[r].track
  BY DEF Stays
<1>2. CASE r = x[1]
  BY <1>a, <1>1, <1>2, Zenon
<1>3. CASE r # x[1]
  <2>1. req[r].track # current
    BY <1>a, <1>1, <1>3, Zenon
  <2>2. tracks'[req[r].track] = tracks[req[r].track]
    BY <1>b, <1>1, <2>1 DEF Stays
  <2>3. \A p \in Publishers : exch'[<<r, p>>] = exch[<<r, p>>]
    BY <1>3, Pairs DEF Stays
  <2>4. Owed(r)' = Owed(r)
    BY <2>3 DEF Owed
  <2> QED
    BY <1>1, <2>2, <2>4 DEF SteadyInv, Counting
<1> QED
  BY <1>2, <1>3

\* An exchange that moves within or out of those whose answer is owed leaves the
\* track owed no more.
LEMMA OwedNoMore ==
    ASSUME Countable, SteadyInv, NEW x \in Exchanges, Stays(x),
           tracks'[current].status # "Confirmed" => tracks[current].status # "Confirmed",
           tracks'[current].unanswered = tracks[current].unanswered,
           ~exch'[x].accepted /\ exch'[x].pc \in Asking
               => ~exch[x].accepted /\ exch[x].pc \in Asking
    PROVE  Counting'
<1>a. /\ x[1] \in Requests /\ req[x[1]].creator /\ req[x[1]].track = current
      /\ req[x[1]].pc \in {"forward", "live"} /\ current \in TrackIds
  BY Home DEF Stays
<1>1. Owed(x[1])' \subseteq Owed(x[1])
  <2> SUFFICES ASSUME NEW p \in Publishers,
                      ~exch'[<<x[1], p>>].accepted, exch'[<<x[1], p>>].pc \in Asking
               PROVE  ~exch[<<x[1], p>>].accepted /\ exch[<<x[1], p>>].pc \in Asking
    BY DEF Owed
  <2>1. <<x[1], p>> \in Exchanges
    BY <1>a, Pairs
  <2> QED
    BY <2>1 DEF Stays
<1>2. Cardinality(Owed(x[1])') <= Cardinality(Owed(x[1]))
  BY <1>a, <1>1, OwedCounted DEF Countable
<1>3. tracks[current].status # "Confirmed"
        => Cardinality(Owed(x[1])) <= tracks[current].unanswered
  BY <1>a DEF SteadyInv, Counting
<1>4. tracks[current].unanswered \in Nat
  BY <1>a DEF SteadyInv, TypeOK, Track
<1>5. tracks'[current].status # "Confirmed"
        => Cardinality(Owed(x[1])') <= tracks'[current].unanswered
  BY <1>a, <1>2, <1>3, <1>4, OwedCounted
<1> QED
  BY <1>5, StaysCounted

\* An answer that is counted.
LEMMA OwedOneLess ==
    ASSUME Countable, SteadyInv, NEW x \in Exchanges, Stays(x),
           ~exch[x].accepted, exch[x].pc \in Asking,
           exch'[x].accepted \/ exch'[x].pc \notin Asking,
           tracks[current].status # "Confirmed",
           tracks'[current].unanswered = OneLess(tracks[current].unanswered)
    PROVE  /\ Counting'
           /\ OneLess(tracks[current].unanswered) > 0
                 \/ \A y \in Exchanges : y[1] = x[1] /\ y # x =>
                       exch[y].accepted \/ exch[y].pc \notin Asking
<1>a. /\ x[1] \in Requests /\ req[x[1]].creator /\ req[x[1]].track = current
      /\ req[x[1]].pc \in {"forward", "live"} /\ current \in TrackIds
  BY Home DEF Stays
<1>b. x[2] \in Publishers /\ x = <<x[1], x[2]>>
  BY Pairs
<1>1. x[2] \in Owed(x[1])
  BY <1>b DEF Owed
<1>2. Owed(x[1])' = Owed(x[1]) \ {x[2]}
  <2>1. ASSUME NEW p \in Publishers
        PROVE  p \in Owed(x[1])' <=> p \in Owed(x[1]) /\ p # x[2]
    <3>1. <<x[1], p>> \in Exchanges /\ <<x[1], p>>[2] = p
      BY <1>a, Pairs
    <3>2. CASE p = x[2]
      BY <1>b, <3>2 DEF Owed
    <3>3. CASE p # x[2]
      <4>1. <<x[1], p>> # x
        BY <3>1, <3>3
      <4>2. exch'[<<x[1], p>>] = exch[<<x[1], p>>]
        BY <3>1, <4>1 DEF Stays
      <4> QED
        BY <3>3, <4>2 DEF Owed
    <3> QED
      BY <3>2, <3>3
  <2>2. Owed(x[1]) \subseteq Publishers /\ Owed(x[1])' \subseteq Publishers
    BY DEF Owed
  <2> QED
    BY <2>1, <2>2
<1>3. Cardinality(Owed(x[1])') = Cardinality(Owed(x[1])) - 1
  <2>1. Owed(x[1]) \in SUBSET Publishers
    BY <1>a, OwedCounted
  <2>2. Cardinality(Owed(x[1]) \ {x[2]}) = Cardinality(Owed(x[1])) - 1
    BY <1>1, <2>1, Zenon DEF Countable
  <2> QED
    BY <1>2, <2>2
<1>4. Cardinality(Owed(x[1])) <= tracks[current].unanswered
  BY <1>a DEF SteadyInv, Counting
<1>5. tracks[current].unanswered \in Nat
  BY <1>a, Zenon DEF SteadyInv, TypeOK, Track
<1>6. Cardinality(Owed(x[1])') <= OneLess(tracks[current].unanswered)
  BY <1>a, <1>3, <1>4, <1>5, OwedCounted DEF OneLess
<1>7. Counting'
  BY <1>6, StaysCounted
<1>8. ASSUME ~(OneLess(tracks[current].unanswered) > 0),
             NEW y \in Exchanges, y[1] = x[1], y # x
      PROVE  exch[y].accepted \/ exch[y].pc \notin Asking
  <2>1. OneLess(tracks[current].unanswered) = 0
    BY <1>5, <1>8 DEF OneLess
  <2>2. Cardinality(Owed(x[1])') = 0
    BY <1>a, <1>6, <2>1, OwedCounted
  <2>3. Owed(x[1])' = {}
    BY <1>a, <2>2, OwedCounted DEF Countable
  <2>4. y[2] \in Publishers /\ y = <<x[1], y[2]>> /\ y[2] # x[2]
    BY <1>8, <1>b, Pairs
  <2>5. y[2] \notin Owed(x[1])
    BY <1>2, <2>3, <2>4, Zenon
  <2> QED
    BY <2>4, <2>5, Zenon DEF Owed
<1> QED
  BY <1>7, <1>8, Zenon

\* Nobody is answered.
LEMMA StaysAnswered ==
    ASSUME SteadyInv, NEW x \in Exchanges, Stays(x), Sound(x),
           \A r \in Requests : req'[r].responses = req[r].responses,
           tracks'[current].waiting = tracks[current].waiting,
           exch'[x].pc = "tell" => tracks[current].status = "Pending",
           exch'[x].pc = "tellError" => tracks[current].status = "Pending"
    PROVE  Answering'
<1>a. /\ x[1] \in Requests /\ req[x[1]].creator /\ req[x[1]].track = current
      /\ req[x[1]].pc \in {"forward", "live"} /\ current \in TrackIds
      /\ \A r \in Requests : req[r].creator /\ req[r].track = current => r = x[1]
  BY Home, Zenon DEF Stays
<1>b. \A r \in Requests : req[r].creator => req[r].track \in TrackIds
  BY Zenon DEF SteadyInv, TypeOK, Creating, Request, TrackRef
<1>1. ASSUME NEW r \in Requests
      PROVE  /\ Len(req'[r].responses) <= 1
             /\ req'[r].pc \in {"start", "join", "assign", "answer"} => req'[r].responses = <<>>
  BY ZenonT(60) DEF SteadyInv, Answering, Stays
<1>2. ASSUME NEW r \in Requests, req'[r].creator, req'[r].pc # "end"
      PROVE  \/ req'[r].responses = <<>>
             \/ /\ req'[r].responses = <<"ok">>
                /\ tracks'[req'[r].track].status = "Confirmed"
                /\ \A y \in Exchanges : y[1] = r => exch'[y].pc # "tell"
             \/ /\ req'[r].responses = <<"error">>
                /\ tracks'[req'[r].track].status = "Rejected"
                /\ \A y \in Exchanges : y[1] = r => exch'[y].pc # "tellError"
  <2>1. /\ req[r].creator /\ req[r].pc # "end" /\ req'[r].track = req[r].track
        /\ req'[r].responses = req[r].responses
    BY <1>2, Zenon DEF Stays
  <2>2. \/ req[r].responses = <<>>
        \/ /\ req[r].responses = <<"ok">>
           /\ tracks[req[r].track].status = "Confirmed"
           /\ \A y \in Exchanges : y[1] = r => exch[y].pc # "tell"
        \/ /\ req[r].responses = <<"error">>
           /\ tracks[req[r].track].status = "Rejected"
           /\ \A y \in Exchanges : y[1] = r => exch[y].pc # "tellError"
    BY <2>1, Zenon DEF SteadyInv, Answering
  <2>3. CASE r = x[1]
    BY <1>a, <2>1, <2>2, <2>3, SMTT(60) DEF Stays, Sound
  <2>4. CASE r # x[1]
    <3>1. tracks'[req[r].track] = tracks[req[r].track]
      BY <1>a, <1>b, <2>1, <2>4, Zenon DEF Stays
    <3>2. \A y \in Exchanges : y[1] = r => exch'[y] = exch[y]
      BY <2>4, Zenon DEF Stays
    <3> QED
      BY <2>1, <2>2, <3>1, <3>2, ZenonT(60)
  <2> QED
    BY <2>3, <2>4, Zenon
<1>3. ASSUME NEW y \in Exchanges, NEW z \in Exchanges,
             exch'[y].pc = "tell", exch'[z].pc = "tell", y[1] = z[1]
      PROVE  y = z
  <2>1. ASSUME NEW v \in Exchanges, v # x, v[1] = x[1], exch'[x].pc = "tell"
        PROVE  exch'[v].pc # "tell"
    <3>1. tracks[current].status # "Confirmed" /\ exch'[v] = exch[v]
      BY <2>1, Zenon DEF Stays
    <3> QED
      BY <3>1, ZenonT(60) DEF SteadyInv, Agreed, Serving
  <2> QED
    BY <1>3, <2>1, SMTT(60) DEF SteadyInv, Answering, Stays
<1>4. ASSUME NEW t \in TrackIds, NEW r \in tracks'[t].waiting
      PROVE  /\ req'[r].track = t /\ req'[r].pc = "live" /\ ~req'[r].creator
             /\ req'[r].responses = <<>>
  <2>1. r \in tracks[t].waiting
    BY <1>4, Zenon DEF Stays
  <2>2. r \in Requests
    BY <2>1, Zenon DEF SteadyInv, TypeOK, Track
  <2> QED
    BY <2>1, <2>2, SMTT(60) DEF SteadyInv, Answering, Stays
<1> QED
  BY <1>1, <1>2, <1>3, <1>4, Zenon DEF Answering

\* Nothing changes of who serves the track, unless a publisher begins to.
LEMMA StaysReached ==
    ASSUME SteadyInv, NEW x \in Exchanges, Stays(x), Sound(x),
           exch[x].pc = "confirm" => tracks'[current].status = "Confirmed",
           aliases' # {} => aliases # {} \/ exch'[x].pc = "confirm",
           \A y \in Exchanges : exch'[y].pc = "confirm" => y[2] \in aliases',
           tracks'[current].pubs \subseteq aliases'
    PROVE  Reached'
<1>a. current \in TrackIds /\ current # NoTrack
  BY Home, Zenon DEF Stays
<1>1. Served \/ exch'[x].pc = "confirm" => Served'
  BY <1>a, Zenon DEF Served, Stays, Sound
<1>2. \A t \in TrackIds : tracks'[t].cached => t = current' /\ Served'
  BY <1>1 DEF SteadyInv, Reached, Stays
<1>3. aliases' # {} => Served'
  BY <1>1, Zenon DEF SteadyInv, Reached
<1>4. AliasServes'
  BY Zenon DEF AliasServes, Stays
<1> QED
  BY <1>2, <1>3, <1>4, Zenon DEF Reached

\* A step that answers nobody and leaves the track's status and counts alone.
LEMMA LocalKeeps ==
    ASSUME Countable, SteadyInv, TypeOK', NEW x \in Exchanges, Stays(x), Sound(x),
           \A r \in Requests : req'[r].responses = req[r].responses,
           tracks'[current].status = tracks[current].status,
           tracks'[current].unanswered = tracks[current].unanswered,
           tracks'[current].waiting = tracks[current].waiting,
           exch[x].pc # "confirm", exch'[x].pc \notin {"tell", "tellError"},
           ~exch'[x].accepted /\ exch'[x].pc \in Asking
               => ~exch[x].accepted /\ exch[x].pc \in Asking,
           aliases' # {} => aliases # {} \/ exch'[x].pc = "confirm",
           \A y \in Exchanges : exch'[y].pc = "confirm" => y[2] \in aliases',
           tracks'[current].pubs \subseteq aliases'
    PROVE  SteadyInv'
<1>1. Calm' /\ Creating' /\ AtHome' /\ Agreed'
  BY StaysAtHome, StaysAgreed, Zenon
<1>2. Counting'
  BY OwedNoMore, Zenon
<1>3. Answering'
  BY StaysAnswered, Zenon
<1>4. Reached'
  BY StaysReached, Zenon
<1> QED
  BY <1>1, <1>2, <1>3, <1>4, Zenon DEF SteadyInv

\* In particular one that touches only the exchange, and perhaps what is told and
\* registered.
LEMMA OnlyExchangeKeeps ==
    ASSUME Countable, SteadyInv, TypeOK', NEW x \in Exchanges, Stays(x), Sound(x),
           \A r \in Requests : req'[r].responses = req[r].responses,
           tracks'[current].status = tracks[current].status,
           tracks'[current].unanswered = tracks[current].unanswered,
           tracks'[current].waiting = tracks[current].waiting,
           tracks'[current].pubs = tracks[current].pubs,
           UNCHANGED aliases,
           exch[x].pc # "confirm", exch'[x].pc \notin {"confirm", "tell", "tellError"},
           ~exch'[x].accepted /\ exch'[x].pc \in Asking
               => ~exch[x].accepted /\ exch[x].pc \in Asking
    PROVE  SteadyInv'
<1>1. current # NoTrack
  BY Home, Zenon DEF Stays
<1>2. tracks'[current].pubs \subseteq aliases'
  BY <1>1, Zenon DEF SteadyInv, Reached, AliasServes
<1>3. \A y \in Exchanges : exch'[y].pc = "confirm" => y[2] \in aliases'
  BY Zenon DEF SteadyInv, Reached, Stays
<1> QED
  BY <1>2, <1>3, LocalKeeps, Zenon

\* What the invariant says of one exchange.
LEMMA Known ==
    ASSUME SteadyInv, NEW x \in Exchanges, exch[x].pc \notin {"idle", "over"}
    PROVE  /\ ~exch[x].cancel /\ ~exch[x].unsupported
           /\ exch[x].pc \notin {"cancelled", "unalias"}
           /\ exch[x].pc \in Found => exch[x].track = current
           /\ exch[x].pc = "register" => exch[x].home = current
           /\ exch[x].accepted => /\ exch[x].answered
                                  /\ exch[x].pc \notin Asking \ {"wait", "ended"}
                                  /\ tracks[current].status = "Confirmed"
           /\ exch[x].pc \in Early /\ exch[x].answered => exch[x].accepted
           /\ exch[x].pc \in {"ok", "confirm"} => exch[x].answered
           /\ exch[x].pc \in {"tell", "tellWaiting"} => exch[x].accepted
           /\ exch[x].pc \in Serving => tracks[current].status = "Confirmed"
           /\ exch[x].pc \in Failing =>
                 /\ tracks[current].status # "Confirmed"
                 /\ \A y \in Exchanges : y[1] = x[1] /\ y # x => exch[y].pc = "over"
           /\ exch[x].pc \in Refusing \ {"over"} => tracks[current].status = "Rejected"
           /\ tracks[current].status = "Rejected" => exch[x].pc \in Refusing
<1>1. req[x[1]].creator /\ req[x[1]].track = current
  BY Home, Zenon
<1> QED
  BY <1>1, Zenon DEF SteadyInv, Calm, AtHome, Agreed

\* Sending, registering, being answered and being refused, as long as it is not
\* counted.
LEMMA AskingKeeps ==
    ASSUME Countable, SteadyInv, TypeOK', Steady, NEW x \in Exchanges,
           \/ Send(x) \/ FindTrack(x) \/ Accepts(x) \/ AnswerDeadline(x) \/ Fails(x)
    PROVE  SteadyInv'
<1>a. exch \in [Exchanges -> Exchange] /\ exch[x] \in Exchange
  BY DEF SteadyInv, TypeOK
<1>b. exch[x].pc \in {"send", "sent", "wait"}
  BY DEF Send, FindTrack, Accepts, AnswerDeadline, Fails, At
<1>c. current \in TrackIds /\ current # NoTrack
  BY <1>b, Home
<1>d. "unsupported" \notin Behaviours
  BY DEF Steady
<1>1. /\ UNCHANGED <<current, made, tracks, aliases, connected, req, closing>>
      /\ \A y \in Exchanges : y # x => exch'[y] = exch[y]
      /\ exch'[x].cancel = exch[x].cancel /\ exch'[x].unsupported = exch[x].unsupported
      /\ exch'[x].accepted = exch[x].accepted
      /\ exch[x].answered => exch'[x].answered
      /\ \/ exch[x].pc = "send" /\ exch'[x].pc = "sent" /\ exch'[x].answered = exch[x].answered
         \/ exch[x].pc = "sent" /\ exch'[x].pc = "register" /\ exch'[x].home = current
               /\ exch'[x].answered = exch[x].answered
         \/ exch'[x].pc = "ended"
         \/ /\ exch[x].pc = "wait" /\ ~exch[x].answered
            /\ exch'[x].pc = "ok" /\ exch'[x].answered
  BY <1>a, <1>c, <1>d, SMTT(60) DEF Send, FindTrack, Accepts, AnswerDeadline, Fails, At, Goes, Exchange
<1>2. Stays(x)
  BY <1>b, <1>1, Known, Zenon DEF Stays
<1>3. Sound(x)
  BY <1>b, <1>1, Known, Zenon DEF Sound, Found, Early, Asking, Serving, Failing, Refusing
<1> QED
  BY <1>b, <1>1, <1>2, <1>3, OnlyExchangeKeeps, Zenon DEF Asking

\* Its creator still subscribes to the track, so a registration is not cancelled.
LEMMA RegisterKeeps ==
    ASSUME Countable, SteadyInv, TypeOK', NEW x \in Exchanges, Register(x)
    PROVE  SteadyInv'
<1>a. exch \in [Exchanges -> Exchange] /\ exch[x] \in Exchange
  BY DEF SteadyInv, TypeOK
<1>b. exch[x].pc = "register" /\ exch[x].home = current
  BY Known, Zenon DEF Register, At
<1>c. /\ current \in TrackIds /\ x[1] \in Requests /\ req[x[1]].creator
      /\ req[x[1]].track = current /\ req[x[1]].pc \in {"forward", "live"}
  BY <1>b, Home, Zenon
<1>d. tracks[current].subs # {}
  BY <1>c, Zenon DEF SteadyInv, Creating
<1>e. tracks \in [TrackIds -> Track] /\ tracks[current] \in Track
  BY <1>c DEF SteadyInv, TypeOK
<1>1. /\ UNCHANGED <<current, made, aliases, connected, req, closing>>
      /\ exch' = [exch EXCEPT ![x].pc = "wait"]
      /\ tracks' = [tracks EXCEPT ![current].registered = @ \union {x}]
  BY <1>b, <1>d DEF Register, Goes
<1>2. /\ \A y \in Exchanges : y # x => exch'[y] = exch[y]
      /\ exch'[x].cancel = exch[x].cancel /\ exch'[x].unsupported = exch[x].unsupported
      /\ exch'[x].accepted = exch[x].accepted /\ exch'[x].answered = exch[x].answered
      /\ exch'[x].pc = "wait"
  BY <1>a, <1>1 DEF Exchange
<1>3. \A t \in TrackIds :
          /\ t # current => tracks'[t] = tracks[t]
          /\ tracks'[t].origin = tracks[t].origin /\ tracks'[t].subs = tracks[t].subs
          /\ tracks'[t].cached = tracks[t].cached /\ tracks'[t].status = tracks[t].status
          /\ tracks'[t].unanswered = tracks[t].unanswered
          /\ tracks'[t].waiting = tracks[t].waiting /\ tracks'[t].pubs = tracks[t].pubs
  BY <1>e, <1>1, Zenon DEF Track
<1>4. Stays(x)
  BY <1>b, <1>1, <1>2, <1>3, Known, Zenon DEF Stays
<1>5. Sound(x)
  BY <1>b, <1>c, <1>2, <1>3, Known, Zenon DEF Sound, Found, Early, Asking, Serving, Failing, Refusing
<1> QED
  BY <1>b, <1>c, <1>1, <1>2, <1>3, <1>4, <1>5, OnlyExchangeKeeps, ZenonT(60) DEF Asking

\* A publisher that is done, or is dropped, takes its alias only from the track it
\* served; UpstreamDone leaves it.
LEMMA UpstreamDoneKeeps ==
    ASSUME Countable, SteadyInv, TypeOK', NEW x \in Exchanges, UpstreamDone(x)
    PROVE  SteadyInv'
<1>a. exch \in [Exchanges -> Exchange] /\ exch[x] \in Exchange
  BY DEF SteadyInv, TypeOK
<1>b. exch[x].pc = "wait" /\ exch[x].answered
  BY Zenon DEF UpstreamDone, At
<1>c. current \in TrackIds /\ current # NoTrack
  BY <1>b, Home, Zenon
<1>d. exch[x].accepted /\ tracks[current].status = "Confirmed"
  BY <1>b, Known, Zenon DEF Early
<1>e. tracks \in [TrackIds -> Track] /\ tracks[current] \in Track
  BY <1>c DEF SteadyInv, TypeOK
<1>1. PICK pc \in {"notify", "over"} :
        /\ UNCHANGED <<current, made, aliases, connected, req, closing>>
        /\ exch' = [exch EXCEPT ![x].track = current, ![x].pc = pc]
        /\ tracks' = [tracks EXCEPT ![current].pubs = @ \ {x[2]}]
  BY <1>c DEF UpstreamDone
<1>2. /\ \A y \in Exchanges : y # x => exch'[y] = exch[y]
      /\ exch'[x].cancel = exch[x].cancel /\ exch'[x].unsupported = exch[x].unsupported
      /\ exch'[x].accepted = exch[x].accepted /\ exch'[x].answered = exch[x].answered
      /\ exch'[x].pc = pc /\ exch'[x].track = current
  BY <1>a, <1>1 DEF Exchange
<1>3. /\ \A t \in TrackIds :
            /\ t # current => tracks'[t] = tracks[t]
            /\ tracks'[t].origin = tracks[t].origin /\ tracks'[t].subs = tracks[t].subs
            /\ tracks'[t].cached = tracks[t].cached /\ tracks'[t].status = tracks[t].status
            /\ tracks'[t].unanswered = tracks[t].unanswered
            /\ tracks'[t].waiting = tracks[t].waiting
      /\ tracks'[current].pubs \subseteq tracks[current].pubs
  BY <1>c, <1>e, <1>1, SMTT(60) DEF Track
<1>4. Stays(x)
  BY <1>b, <1>1, <1>2, <1>3, Known, ZenonT(60) DEF Stays
<1>5. Sound(x)
  BY <1>b, <1>c, <1>d, <1>2, <1>3, Known, ZenonT(60)
  DEF Sound, Found, Early, Asking, Serving, Failing, Refusing
<1>6. tracks'[current].pubs \subseteq aliases'
  BY <1>c, <1>1, <1>3 DEF SteadyInv, Reached, AliasServes
<1>7. \A y \in Exchanges : exch'[y].pc = "confirm" => y[2] \in aliases'
  BY <1>1, <1>2, ZenonT(60) DEF SteadyInv, Reached
<1> QED
  BY <1>b, <1>c, <1>d, <1>1, <1>2, <1>3, <1>4, <1>5, <1>6, <1>7, LocalKeeps, ZenonT(60) DEF Asking

\* remove_upstream_publisher takes the alias of a publisher that no other exchange
\* of the track is with.
LEMMA DropPublisherKeeps ==
    ASSUME Countable, SteadyInv, TypeOK', NEW x \in Exchanges, DropPublisher(x)
    PROVE  SteadyInv'
<1>a. exch \in [Exchanges -> Exchange] /\ exch[x] \in Exchange
  BY DEF SteadyInv, TypeOK
<1>b. exch[x].pc = "drop" /\ exch[x].track = current
  BY Known, Zenon DEF DropPublisher, At, Found
<1>c. /\ current \in TrackIds /\ current # NoTrack
      /\ \A r \in Requests : req[r].creator /\ req[r].track = current => r = x[1]
  BY <1>b, Home, Zenon
<1>d. tracks[current].status = "Confirmed"
  BY <1>b, Known, Zenon DEF Serving
<1>e. tracks \in [TrackIds -> Track] /\ tracks[current] \in Track
  BY <1>c DEF SteadyInv, TypeOK
<1>1. PICK pc \in {"notify", "over"} :
        /\ UNCHANGED <<current, made, connected, req, closing>>
        /\ exch' = [exch EXCEPT ![x].pc = pc]
        /\ tracks' = [tracks EXCEPT ![current].pubs = @ \ {x[2]}]
        /\ aliases' = aliases \ (tracks[current].pubs \intersect {x[2]})
  BY <1>b, ZenonT(60) DEF DropPublisher, Goes
<1>2. /\ \A y \in Exchanges : y # x => exch'[y] = exch[y]
      /\ exch'[x].cancel = exch[x].cancel /\ exch'[x].unsupported = exch[x].unsupported
      /\ exch'[x].accepted = exch[x].accepted /\ exch'[x].answered = exch[x].answered
      /\ exch'[x].pc = pc /\ exch'[x].track = current
  BY <1>a, <1>b, <1>1 DEF Exchange
<1>3. /\ \A t \in TrackIds :
            /\ t # current => tracks'[t] = tracks[t]
            /\ tracks'[t].origin = tracks[t].origin /\ tracks'[t].subs = tracks[t].subs
            /\ tracks'[t].cached = tracks[t].cached /\ tracks'[t].status = tracks[t].status
            /\ tracks'[t].unanswered = tracks[t].unanswered
            /\ tracks'[t].waiting = tracks[t].waiting
      /\ tracks'[current].pubs = tracks[current].pubs \ {x[2]}
  BY <1>c, <1>e, <1>1, Zenon DEF Track
<1>4. Stays(x)
  BY <1>b, <1>1, <1>2, <1>3, Known, Zenon DEF Stays
<1>5. Sound(x)
  BY <1>b, <1>c, <1>d, <1>2, <1>3, Known, ZenonT(60)
  DEF Sound, Found, Early, Asking, Serving, Failing, Refusing
<1>6. tracks'[current].pubs \subseteq aliases' /\ (aliases' # {} => aliases # {})
  BY <1>c, <1>1, <1>3, Zenon DEF SteadyInv, Reached, AliasServes
<1>7. ASSUME NEW y \in Exchanges, exch'[y].pc = "confirm" PROVE y[2] \in aliases'
  <2>1. exch[y].pc = "confirm" /\ y # x
    BY <1>2, <1>7, Zenon
  <2>2. y[1] = x[1]
    BY <1>c, <2>1, Home, Zenon
  <2>3. y[2] # x[2]
    BY <2>1, <2>2, Pairs
  <2>4. y[2] \in aliases
    BY <2>1 DEF SteadyInv, Reached
  <2> QED
    BY <1>1, <2>3, <2>4, Zenon
<1> QED
  BY <1>b, <1>c, <1>d, <1>1, <1>2, <1>3, <1>4, <1>5, <1>6, <1>7, LocalKeeps, ZenonT(60) DEF Asking

\* SUBSCRIBE_OK registers the alias before the track is confirmed.
LEMMA OkAliasKeeps ==
    ASSUME Countable, SteadyInv, TypeOK', NEW x \in Exchanges, OkAlias(x)
    PROVE  SteadyInv'
<1>a. exch \in [Exchanges -> Exchange] /\ exch[x] \in Exchange
  BY DEF SteadyInv, TypeOK
<1>b. exch[x].pc = "ok"
  BY DEF OkAlias, At
<1>c. current \in TrackIds /\ current # NoTrack
  BY <1>b, Home, Zenon
<1>d. tracks[current].origin # "CacheOnly" /\ ~exch[x].accepted
  BY <1>b, <1>c, Known, Zenon DEF SteadyInv, Calm, Asking
<1>1. /\ UNCHANGED <<current, made, tracks, connected, req, closing>>
      /\ \/ /\ exch' = [exch EXCEPT ![x].pc = "confirm", ![x].track = current]
            /\ aliases' = aliases \union {x[2]}
         \/ exch' = [exch EXCEPT ![x].pc = "ended"] /\ aliases' = aliases
  BY <1>c, <1>d DEF OkAlias, Goes
<1>2. /\ \A y \in Exchanges : y # x => exch'[y] = exch[y]
      /\ exch'[x].cancel = exch[x].cancel /\ exch'[x].unsupported = exch[x].unsupported
      /\ exch'[x].accepted = exch[x].accepted /\ exch'[x].answered = exch[x].answered
      /\ \/ /\ exch'[x].pc = "confirm" /\ exch'[x].track = current
            /\ aliases' = aliases \union {x[2]}
         \/ exch'[x].pc = "ended" /\ aliases' = aliases
  BY <1>a, <1>1, ZenonT(60) DEF Exchange
<1>4. Stays(x)
  BY <1>b, <1>1, <1>2, Known, Zenon DEF Stays
<1>5. Sound(x)
  BY <1>b, <1>c, <1>d, <1>1, <1>2, Known, Zenon
  DEF Sound, Found, Early, Asking, Serving, Failing, Refusing
<1>6. tracks'[current].pubs \subseteq aliases'
  BY <1>c, <1>1, <1>2, Zenon DEF SteadyInv, Reached, AliasServes
<1>7. \A y \in Exchanges : exch'[y].pc = "confirm" => y[2] \in aliases'
  BY <1>2 DEF SteadyInv, Reached
<1> QED
  BY <1>b, <1>c, <1>d, <1>1, <1>2, <1>4, <1>5, <1>6, <1>7, LocalKeeps, ZenonT(60) DEF Asking

\* Telling the subscribers that the track is over answers none of them.
LEMMA NotifyKeeps ==
    ASSUME Countable, SteadyInv, TypeOK', NEW x \in Exchanges, NotifyDone(x)
    PROVE  SteadyInv'
<1>a. /\ exch \in [Exchanges -> Exchange] /\ exch[x] \in Exchange
      /\ req \in [Requests -> Request]
  BY DEF SteadyInv, TypeOK
<1>b. exch[x].pc = "notify"
  BY DEF NotifyDone, At
<1>c. current \in TrackIds /\ current # NoTrack
  BY <1>b, Home
<1>1. /\ UNCHANGED <<current, made, tracks, aliases, connected, closing>>
      /\ exch' = [exch EXCEPT ![x].pc = "over"]
      /\ \E to : req' = Telling(to)
  BY DEF NotifyDone, Goes
<1>2. /\ \A y \in Exchanges : y # x => exch'[y] = exch[y]
      /\ exch'[x].cancel = exch[x].cancel /\ exch'[x].unsupported = exch[x].unsupported
      /\ exch'[x].accepted = exch[x].accepted /\ exch'[x].answered = exch[x].answered
      /\ exch'[x].pc = "over"
  BY <1>a, <1>1 DEF Exchange
<1>3. \A r \in Requests :
          /\ req'[r].pc = req[r].pc /\ req'[r].track = req[r].track
          /\ req'[r].creator = req[r].creator /\ req'[r].asked = req[r].asked
          /\ req'[r].gone = req[r].gone /\ req'[r].responses = req[r].responses
  BY <1>a, <1>1 DEF Telling, Request
<1>4. Stays(x)
  BY <1>b, <1>1, <1>2, <1>3, Known, ZenonT(60) DEF Stays
<1>5. Sound(x)
  BY <1>b, <1>c, <1>1, <1>2, Known, ZenonT(60)
  DEF Sound, Found, Early, Asking, Serving, Failing, Refusing
<1> QED
  BY <1>b, <1>c, <1>1, <1>2, <1>3, <1>4, <1>5, OnlyExchangeKeeps, Zenon DEF Asking

\* The last refusal finds the track, and retires it: nothing of it is cached.
LEMMA FailingKeeps ==
    ASSUME Countable, SteadyInv, TypeOK', NEW x \in Exchanges, FindRejected(x) \/ Retire(x)
    PROVE  SteadyInv'
<1>a. exch \in [Exchanges -> Exchange] /\ exch[x] \in Exchange
  BY ZenonT(60) DEF SteadyInv, TypeOK
<1>b. exch[x].pc \in {"error", "retire"}
  BY DEF FindRejected, Retire, At
<1>c. /\ current \in TrackIds /\ current # NoTrack
      /\ \A r \in Requests : req[r].creator /\ req[r].track = current => r = x[1]
  BY <1>b, Home, Zenon
<1>d. /\ tracks[current].status # "Confirmed"
      /\ \A y \in Exchanges : y[1] = x[1] /\ y # x => exch[y].pc = "over"
  BY <1>b, Known, Zenon DEF Failing
<1>e. ~Served
  <2>1. ASSUME NEW y \in Exchanges PROVE exch[y].pc # "confirm"
    <3> SUFFICES ASSUME exch[y].pc = "confirm" PROVE FALSE
      OBVIOUS
    <3>1. y[1] = x[1] /\ y # x
      BY <1>b, <1>c, Home, Zenon
    <3> QED
      BY <1>d, <3>1
  <2> QED
    BY <1>d, <2>1, Zenon DEF Served
<1>f. ~tracks[current].cached /\ tracks[current].origin # "CacheOnly"
  BY <1>c, <1>e, Zenon DEF SteadyInv, Reached, Calm
<1>1. /\ UNCHANGED <<current, made, tracks, aliases, connected, req, closing>>
      /\ \A y \in Exchanges : y # x => exch'[y] = exch[y]
      /\ exch'[x].cancel = exch[x].cancel /\ exch'[x].unsupported = exch[x].unsupported
      /\ exch'[x].accepted = exch[x].accepted /\ exch'[x].answered = exch[x].answered
      /\ \/ exch'[x].pc = "over"
         \/ /\ exch'[x].track = current
            /\ \/ exch[x].pc = "error" /\ exch'[x].pc = "reject"
               \/ exch[x].pc = "retire" /\ exch'[x].pc = "remove"
  BY <1>a, <1>c, <1>f, SMTT(60) DEF FindRejected, Retire, Retired, At, Goes, Exchange
<1>4. Stays(x)
  BY <1>b, <1>1, Known, Zenon DEF Stays
<1>5. Sound(x)
  BY <1>b, <1>c, <1>1, Known, Zenon
  DEF Sound, Found, Early, Asking, Serving, Failing, Refusing
<1> QED
  BY <1>b, <1>c, <1>1, <1>4, <1>5, OnlyExchangeKeeps, ZenonT(60) DEF Asking

(***************************************************************************)
(* The steps that confirm, count and refuse.                                *)
(***************************************************************************)

\* A publisher is accepted; the first one goes on to answer the subscribers.
LEMMA ConfirmKeeps ==
    ASSUME Countable, SteadyInv, TypeOK', NEW x \in Exchanges, Confirm(x)
    PROVE  SteadyInv'
<1>a. exch \in [Exchanges -> Exchange] /\ exch[x] \in Exchange
  BY DEF SteadyInv, TypeOK
<1>b. exch[x].pc = "confirm" /\ exch[x].track = current
  BY Known, Zenon DEF Confirm, At, Found
<1>c. current \in TrackIds /\ current # NoTrack
  BY <1>b, Home, ZenonT(60)
<1>d. tracks \in [TrackIds -> Track] /\ tracks[current] \in Track
  BY <1>c DEF SteadyInv, TypeOK
<1>e. exch[x].answered
  BY <1>b DEF SteadyInv, Agreed
<1>1. /\ UNCHANGED <<current, made, aliases, connected, req, closing>>
      /\ tracks' = [tracks EXCEPT ![current] = Confirmed(tracks[current], x[2])]
  BY <1>b DEF Confirm
<1>2. /\ \A y \in Exchanges : y # x => exch'[y] = exch[y]
      /\ exch'[x].cancel = exch[x].cancel /\ exch'[x].unsupported = exch[x].unsupported
      /\ exch'[x].accepted /\ exch'[x].answered = exch[x].answered
      /\ exch'[x].track = current
      /\ exch'[x].pc = IF tracks[current].status = "Pending" THEN "tell" ELSE "wait"
  BY <1>a, <1>b DEF Confirm, Exchange
<1>3. /\ \A t \in TrackIds :
            /\ t # current => tracks'[t] = tracks[t]
            /\ tracks'[t].origin = tracks[t].origin /\ tracks'[t].subs = tracks[t].subs
            /\ tracks'[t].cached = tracks[t].cached
      /\ tracks'[current].pubs = tracks[current].pubs \union {x[2]}
      /\ tracks'[current].waiting = tracks[current].waiting
      /\ tracks'[current].status = "Confirmed"
  <2>1. tracks[current].status \in {"Pending", "Confirmed"}
    BY <1>b, <1>d, Known, SMTT(60) DEF Track, Statuses, Refusing
  <2> QED
    BY <1>c, <1>d, <1>1, <2>1, ZenonT(60) DEF Confirmed, Track
<1>4. Stays(x)
  BY <1>b, <1>1, <1>2, <1>3, Known, ZenonT(60) DEF Stays
<1>5. Sound(x)
  BY <1>b, <1>c, <1>e, <1>2, <1>3, Known, ZenonT(60)
  DEF Sound, Found, Early, Asking, Serving, Failing, Refusing
<1>6. Calm' /\ Creating' /\ AtHome' /\ Agreed'
  BY <1>4, <1>5, StaysAtHome, StaysAgreed, Zenon
<1>7. Counting'
  BY <1>3, <1>4, StaysCounted, Zenon
<1>8. Answering'
  BY <1>1, <1>2, <1>3, <1>4, <1>5, StaysAnswered, ZenonT(60)
<1>9. Reached'
  <2>1. x[2] \in aliases /\ tracks[current].pubs \subseteq aliases
    BY <1>b, <1>c, Zenon DEF SteadyInv, Reached, AliasServes
  <2>2. \A y \in Exchanges : exch'[y].pc = "confirm" => y[2] \in aliases'
    BY <1>1, <1>2, Zenon DEF SteadyInv, Reached
  <2> QED
    BY <1>1, <1>3, <1>4, <1>5, <2>1, <2>2, StaysReached, ZenonT(60)
<1> QED
  BY <1>6, <1>7, <1>8, <1>9, Zenon DEF SteadyInv

\* An answer that was owed and is not an acceptance: the last one, and only the
\* last one, refuses.
LEMMA EndUpstreamKeeps ==
    ASSUME Countable, SteadyInv, TypeOK', NEW x \in Exchanges, EndUpstream(x)
    PROVE  SteadyInv'
<1>a. exch \in [Exchanges -> Exchange] /\ exch[x] \in Exchange
  BY DEF SteadyInv, TypeOK
<1>b. exch[x].pc = "ended"
  BY DEF EndUpstream, At
<1>c. current \in TrackIds /\ current # NoTrack
  BY <1>b, Home, Zenon
<1>d. tracks \in [TrackIds -> Track] /\ tracks[current] \in Track
  BY <1>c DEF SteadyInv, TypeOK
<1>1. PICK pc \in {"drop", "over", "error"} :
        /\ pc = "drop" <=> tracks[current].status = "Confirmed"
        /\ pc = "error" => ~(OneLess(tracks[current].unanswered) > 0)
        /\ UNCHANGED <<current, made, aliases, connected, req, closing>>
        /\ tracks' = [tracks EXCEPT ![current].unanswered = OneLess(@)]
        /\ exch' = [exch EXCEPT ![x].track = current, ![x].pc = pc]
  BY <1>c DEF EndUpstream
<1>2. /\ \A y \in Exchanges : y # x => exch'[y] = exch[y]
      /\ exch'[x].cancel = exch[x].cancel /\ exch'[x].unsupported = exch[x].unsupported
      /\ exch'[x].accepted = exch[x].accepted /\ exch'[x].answered = exch[x].answered
      /\ exch'[x].track = current /\ exch'[x].pc = pc
  BY <1>a, <1>1 DEF Exchange
<1>3. /\ \A t \in TrackIds :
            /\ t # current => tracks'[t] = tracks[t]
            /\ tracks'[t].origin = tracks[t].origin /\ tracks'[t].subs = tracks[t].subs
            /\ tracks'[t].cached = tracks[t].cached /\ tracks'[t].status = tracks[t].status
            /\ tracks'[t].waiting = tracks[t].waiting /\ tracks'[t].pubs = tracks[t].pubs
      /\ tracks'[current].unanswered = OneLess(tracks[current].unanswered)
  BY <1>c, <1>d, <1>1, Zenon DEF Track
<1>4. Stays(x)
  BY <1>b, <1>1, <1>2, <1>3, Known, Zenon DEF Stays
<1>5. ASSUME tracks[current].status # "Confirmed"
      PROVE  /\ Counting'
             /\ exch'[x].pc = "error" =>
                   \A y \in Exchanges : y[1] = x[1] /\ y # x => exch[y].pc = "over"
  <2>1. ~exch[x].accepted
    BY <1>b, <1>5, Known
  <2>2. /\ Counting'
        /\ OneLess(tracks[current].unanswered) > 0
              \/ \A y \in Exchanges : y[1] = x[1] /\ y # x =>
                    exch[y].accepted \/ exch[y].pc \notin Asking
    BY <1>b, <1>1, <1>2, <1>3, <1>4, <1>5, <2>1, OwedOneLess, ZenonT(60) DEF Asking
  <2>3. ASSUME NEW y \in Exchanges, y[1] = x[1], y # x, exch'[x].pc = "error"
        PROVE  exch[y].pc = "over"
    <3>1. exch[y].accepted \/ exch[y].pc \notin Asking
      BY <1>1, <1>2, <2>2, <2>3, Zenon
    <3>2. CASE exch[y].pc = "idle"
      BY <3>1, <3>2, ZenonT(60) DEF SteadyInv, Agreed, Asking
    <3>3. CASE exch[y].pc \notin {"idle", "over"}
      <4>1. ~exch[y].accepted /\ exch[y].pc \notin Serving
        BY <1>5, <3>3, Known, Zenon
      <4>2. exch[y].pc \notin Failing
        BY <1>b, <2>3, <3>3, Known, Zenon
      <4>3. exch[y].pc \in ExchangePcs /\ exch[y].pc \notin {"cancelled", "unalias"}
        BY <1>a, <3>3, Known, Zenon DEF Exchange
      <4> QED
        BY <3>1, <4>1, <4>2, <4>3, Zenon DEF ExchangePcs, Serving, Failing, Asking
    <3> QED
      BY <3>2, <3>3, Zenon
  <2> QED
    BY <2>2, <2>3, ZenonT(60)
<1>6. Sound(x)
  BY <1>b, <1>c, <1>1, <1>2, <1>3, <1>5, Known, ZenonT(60)
  DEF Sound, Found, Early, Asking, Serving, Failing, Refusing
<1>7. Counting'
  BY <1>c, <1>3, <1>4, <1>5, StaysCounted, Zenon
<1>8. Answering'
  BY <1>c, <1>1, <1>2, <1>3, <1>4, <1>6, StaysAnswered, ZenonT(60)
<1>9. Reached'
  <2>1. tracks[current].pubs \subseteq aliases
    BY <1>c DEF SteadyInv, Reached, AliasServes
  <2>2. \A y \in Exchanges : exch'[y].pc = "confirm" => y[2] \in aliases'
    BY <1>1, <1>2, ZenonT(60) DEF SteadyInv, Reached
  <2> QED
    BY <1>b, <1>c, <1>1, <1>3, <1>4, <1>6, <2>1, <2>2, StaysReached, ZenonT(60)
<1> QED
  BY <1>4, <1>6, <1>7, <1>8, <1>9, StaysAtHome, StaysAgreed, ZenonT(60) DEF SteadyInv

\* The track is marked Rejected, which nobody had answered for.
LEMMA RejectKeeps ==
    ASSUME Countable, SteadyInv, TypeOK', NEW x \in Exchanges, Reject(x)
    PROVE  SteadyInv'
<1>a. exch \in [Exchanges -> Exchange] /\ exch[x] \in Exchange
  BY DEF SteadyInv, TypeOK
<1>b. exch[x].pc = "reject" /\ exch[x].track = current
  BY Known, Zenon DEF Reject, At, Found
<1>c. current \in TrackIds /\ current # NoTrack
  BY <1>b, Home, ZenonT(60)
<1>d. tracks \in [TrackIds -> Track] /\ tracks[current] \in Track
  BY <1>c DEF SteadyInv, TypeOK
<1>e. tracks[current].status = "Pending"
  BY <1>b, <1>d, Known DEF Track, Statuses, Failing, Refusing
<1>1. /\ UNCHANGED <<current, made, aliases, connected, req, closing>>
      /\ tracks' = [tracks EXCEPT ![current].status = "Rejected"]
      /\ exch' = [exch EXCEPT ![x].pc = "tellError"]
  BY <1>b, <1>c DEF Reject, Goes
<1>2. /\ \A y \in Exchanges : y # x => exch'[y] = exch[y]
      /\ exch'[x].cancel = exch[x].cancel /\ exch'[x].unsupported = exch[x].unsupported
      /\ exch'[x].accepted = exch[x].accepted /\ exch'[x].answered = exch[x].answered
      /\ exch'[x].track = current /\ exch'[x].pc = "tellError"
  BY <1>a, <1>b, <1>1 DEF Exchange
<1>3. /\ \A t \in TrackIds :
            /\ t # current => tracks'[t] = tracks[t]
            /\ tracks'[t].origin = tracks[t].origin /\ tracks'[t].subs = tracks[t].subs
            /\ tracks'[t].cached = tracks[t].cached
            /\ tracks'[t].unanswered = tracks[t].unanswered
            /\ tracks'[t].waiting = tracks[t].waiting /\ tracks'[t].pubs = tracks[t].pubs
      /\ tracks'[current].status = "Rejected"
  BY <1>c, <1>d, <1>1, Zenon DEF Track
<1>4. Stays(x)
  BY <1>b, <1>1, <1>2, <1>3, Known, Zenon DEF Stays
<1>5. Sound(x)
  BY <1>b, <1>c, <1>e, <1>2, <1>3, Known, ZenonT(60)
  DEF Sound, Found, Early, Asking, Serving, Failing, Refusing
<1>6. Counting'
  BY <1>c, <1>2, <1>3, <1>4, <1>e, OwedNoMore, Zenon DEF Asking
<1>7. Answering'
  BY <1>1, <1>2, <1>3, <1>4, <1>5, <1>e, StaysAnswered, SMTT(60)
<1>8. Reached'
  <2>1. tracks[current].pubs \subseteq aliases
    BY <1>c, Zenon DEF SteadyInv, Reached, AliasServes
  <2>2. \A y \in Exchanges : exch'[y].pc = "confirm" => y[2] \in aliases'
    BY <1>1, <1>2, ZenonT(60) DEF SteadyInv, Reached
  <2> QED
    BY <1>b, <1>c, <1>1, <1>3, <1>4, <1>5, <2>1, <2>2, StaysReached, ZenonT(60)
<1> QED
  BY <1>4, <1>5, <1>6, <1>7, <1>8, StaysAtHome, StaysAgreed, ZenonT(60) DEF SteadyInv

(***************************************************************************)
(* The steps that answer.                                                   *)
(***************************************************************************)

\* Those who are answered had not been, wait no longer, and a creator among them
\* gets the answer that the track's status stands for.
Tells(x, to, kind) ==
    /\ req' = Responding(to, kind)
    /\ exch'[x].pc \notin {"tell", "tellError"}
    /\ \A r \in to : req[r].responses = <<>> /\ req[r].pc \in {"forward", "live"}
    /\ \A r \in to : req[r].creator /\ kind = "ok" =>
          /\ tracks'[req[r].track].status = "Confirmed"
          /\ \A y \in Exchanges : y[1] = r => exch'[y].pc # "tell"
    /\ \A r \in to : req[r].creator /\ kind = "error" =>
          /\ tracks'[req[r].track].status = "Rejected"
          /\ \A y \in Exchanges : y[1] = r => exch'[y].pc # "tellError"
    /\ \A t \in TrackIds : tracks'[t].waiting \subseteq tracks[t].waiting \ to

\* Such a step leaves everyone answered once, by whom the track's status names.
LEMMA StaysTold ==
    ASSUME SteadyInv, NEW x \in Exchanges, Stays(x), Sound(x),
           NEW to \in SUBSET Requests, NEW kind \in {"ok", "error"}, Tells(x, to, kind)
    PROVE  Answering'
<1>a. /\ x[1] \in Requests /\ req[x[1]].creator /\ req[x[1]].track = current
      /\ req[x[1]].pc \in {"forward", "live"} /\ current \in TrackIds
      /\ \A r \in Requests : req[r].creator /\ req[r].track = current => r = x[1]
  BY Home, Zenon DEF Stays
<1>b. \A r \in Requests : req[r].creator => req[r].track \in TrackIds
  BY ZenonT(60) DEF SteadyInv, TypeOK, Creating, Request, TrackRef
<1>c. \A r \in Requests :
        /\ r \notin to => req'[r].responses = req[r].responses
        /\ r \in to => req'[r].responses = <<kind>>
  <2>1. \A r \in Requests :
          /\ r \notin to => Responding(to, kind)[r].responses = req[r].responses
          /\ r \in to /\ req[r].responses = <<>> => Responding(to, kind)[r].responses = <<kind>>
    BY RespondingAdds, SMTT(60)
  <2>2. req' = Responding(to, kind) /\ \A r \in to : req[r].responses = <<>>
    BY Zenon DEF Tells
  <2> QED
    BY <2>1, <2>2, ZenonT(60)
<1>d. exch'[x].pc \notin {"tell", "tellError"}
  BY Zenon DEF Tells
<1>1. ASSUME NEW r \in Requests
      PROVE  /\ Len(req'[r].responses) <= 1
             /\ req'[r].pc \in {"start", "join", "assign", "answer"} => req'[r].responses = <<>>
  <2>1. CASE r \in to
    <3>1. req'[r].responses = <<kind>>
      BY <1>c, <2>1
    <3>2. Len(req'[r].responses) = 1
      BY <3>1
    <3>3. req'[r].pc \in {"forward", "live"}
      BY <2>1, Zenon DEF Stays, Tells
    <3> QED
      BY <3>2, <3>3
  <2>2. CASE r \notin to
    <3>1. req'[r].responses = req[r].responses /\ req'[r].pc = req[r].pc
      BY <1>c, <2>2, Zenon DEF Stays
    <3> QED
      BY <3>1, Zenon DEF SteadyInv, Answering
  <2> QED
    BY <2>1, <2>2
<1>2. ASSUME NEW r \in Requests, req'[r].creator, req'[r].pc # "end"
      PROVE  \/ req'[r].responses = <<>>
             \/ /\ req'[r].responses = <<"ok">>
                /\ tracks'[req'[r].track].status = "Confirmed"
                /\ \A y \in Exchanges : y[1] = r => exch'[y].pc # "tell"
             \/ /\ req'[r].responses = <<"error">>
                /\ tracks'[req'[r].track].status = "Rejected"
                /\ \A y \in Exchanges : y[1] = r => exch'[y].pc # "tellError"
  <2>1. req[r].creator /\ req[r].pc # "end" /\ req'[r].track = req[r].track
    BY <1>2, Zenon DEF Stays
  <2>2. CASE r \in to
    <3>1. /\ kind = "ok" => /\ tracks'[req[r].track].status = "Confirmed"
                            /\ \A y \in Exchanges : y[1] = r => exch'[y].pc # "tell"
          /\ kind = "error" => /\ tracks'[req[r].track].status = "Rejected"
                               /\ \A y \in Exchanges : y[1] = r => exch'[y].pc # "tellError"
      BY <2>1, <2>2, Zenon DEF Tells
    <3> QED
      BY <1>c, <2>1, <2>2, <3>1, Zenon
  <2>3. CASE r \notin to
    <3>1. \/ req[r].responses = <<>>
          \/ /\ req[r].responses = <<"ok">>
             /\ tracks[req[r].track].status = "Confirmed"
             /\ \A y \in Exchanges : y[1] = r => exch[y].pc # "tell"
          \/ /\ req[r].responses = <<"error">>
             /\ tracks[req[r].track].status = "Rejected"
             /\ \A y \in Exchanges : y[1] = r => exch[y].pc # "tellError"
      BY <2>1, SMTT(60) DEF SteadyInv, Answering
    <3>2. \A y \in Exchanges :
            /\ exch[y].pc # "tell" => exch'[y].pc # "tell"
            /\ exch[y].pc # "tellError" => exch'[y].pc # "tellError"
      BY <1>d, Zenon DEF Stays
    <3>3. /\ tracks[req[r].track].status = "Confirmed"
                => tracks'[req[r].track].status = "Confirmed"
          /\ tracks[req[r].track].status = "Rejected"
                => tracks'[req[r].track].status = "Rejected"
      BY <1>a, <1>b, <2>1, ZenonT(60) DEF Stays, Sound
    <3>4. req'[r].responses = req[r].responses
      BY <1>c, <2>3, Zenon
    <3> QED
      BY <2>1, <3>1, <3>2, <3>3, <3>4, ZenonT(60)
  <2> QED
    BY <2>2, <2>3, ZenonT(60)
<1>3. ASSUME NEW y \in Exchanges, NEW z \in Exchanges,
             exch'[y].pc = "tell", exch'[z].pc = "tell", y[1] = z[1]
      PROVE  y = z
  <2>1. exch[y].pc = "tell" /\ exch[z].pc = "tell"
    BY <1>d, <1>3, Zenon DEF Stays
  <2> QED
    BY <1>3, <2>1, ZenonT(60) DEF SteadyInv, Answering
<1>4. ASSUME NEW t \in TrackIds, NEW r \in tracks'[t].waiting
      PROVE  /\ req'[r].track = t /\ req'[r].pc = "live" /\ ~req'[r].creator
             /\ req'[r].responses = <<>>
  <2>1. r \in tracks[t].waiting /\ r \notin to
    BY <1>4, Zenon DEF Tells
  <2>2. r \in Requests
    BY <2>1, Zenon DEF SteadyInv, TypeOK, Track
  <2>3. /\ req[r].track = t /\ req[r].pc = "live" /\ ~req[r].creator
        /\ req[r].responses = <<>>
    BY <2>1, ZenonT(60) DEF SteadyInv, Answering
  <2>4. req'[r].track = req[r].track /\ req'[r].pc = req[r].pc /\ req'[r].creator = req[r].creator
    BY <2>2, Zenon DEF Stays
  <2> QED
    BY <1>c, <2>1, <2>2, <2>3, <2>4, Zenon
<1> QED
  BY <1>1, <1>2, <1>3, <1>4, SMTT(60) DEF Answering

\* Such a step keeps the rest if it touches nothing but the waiting list.
LEMMA ToldKeeps ==
    ASSUME Countable, SteadyInv, TypeOK', NEW x \in Exchanges, Stays(x), Sound(x), Answering',
           tracks'[current].status = tracks[current].status,
           tracks'[current].unanswered = tracks[current].unanswered,
           tracks'[current].pubs = tracks[current].pubs,
           UNCHANGED aliases,
           exch[x].pc # "confirm", exch'[x].pc # "confirm",
           ~exch'[x].accepted /\ exch'[x].pc \in Asking
               => ~exch[x].accepted /\ exch[x].pc \in Asking
    PROVE  SteadyInv'
<1>1. current # NoTrack
  BY Home, Zenon DEF Stays
<1>2. tracks'[current].pubs \subseteq aliases'
  BY <1>1, Zenon DEF SteadyInv, Reached, AliasServes
<1>3. \A y \in Exchanges : exch'[y].pc = "confirm" => y[2] \in aliases'
  BY ZenonT(60) DEF SteadyInv, Reached, Stays
<1>4. Reached'
  BY <1>2, <1>3, StaysReached, ZenonT(60)
<1>5. Counting'
  BY OwedNoMore
<1> QED
  BY <1>4, <1>5, StaysAtHome, StaysAgreed, Zenon DEF SteadyInv

\* SUBSCRIBE_OK to the creator.
LEMMA TellCreatorKeeps ==
    ASSUME Countable, SteadyInv, TypeOK', NEW x \in Exchanges, TellCreator(x)
    PROVE  SteadyInv'
<1>a. exch \in [Exchanges -> Exchange] /\ exch[x] \in Exchange
  BY DEF SteadyInv, TypeOK
<1>b. exch[x].pc = "tell" /\ exch[x].track = current /\ tracks[current].status = "Confirmed"
  BY Known, Zenon DEF TellCreator, At, Found, Serving
<1>c. /\ current \in TrackIds /\ current # NoTrack /\ x[1] \in Requests
      /\ req[x[1]].creator /\ req[x[1]].track = current
      /\ req[x[1]].pc \in {"forward", "live"}
  BY <1>b, Home
<1> DEFINE to == {x[1]} \intersect tracks[current].subs
<1>1. /\ UNCHANGED <<current, made, tracks, aliases, connected, closing>>
      /\ exch' = [exch EXCEPT ![x].pc = "tellWaiting"]
      /\ req' = Responding(to, "ok")
  BY <1>b DEF TellCreator, Goes
<1>2. /\ \A y \in Exchanges : y # x => exch'[y] = exch[y]
      /\ exch'[x].cancel = exch[x].cancel /\ exch'[x].unsupported = exch[x].unsupported
      /\ exch'[x].accepted = exch[x].accepted /\ exch'[x].answered = exch[x].answered
      /\ exch'[x].pc = "tellWaiting" /\ exch'[x].track = current
  BY <1>a, <1>b, <1>1, Zenon DEF Exchange
<1>t. to \in SUBSET Requests /\ \A r \in to : r = x[1]
  BY <1>c, Zenon
<1> HIDE DEF to
<1>3. Stays(x)
  BY <1>b, <1>1, <1>2, Known, RespondingAdds, SMTT(60) DEF Stays
<1>4. Sound(x)
  BY <1>b, <1>c, <1>1, <1>2, Known, ZenonT(60)
  DEF Sound, Found, Early, Asking, Serving, Failing, Refusing
<1>5. req[x[1]].responses = <<>>
  BY <1>b, <1>c, ZenonT(60) DEF SteadyInv, Answering
<1>6. \A y \in Exchanges : y[1] = x[1] => exch'[y].pc # "tell"
  BY <1>b, <1>2, ZenonT(60) DEF SteadyInv, Answering
<1>7. ASSUME NEW t \in TrackIds PROVE tracks'[t].waiting \subseteq tracks[t].waiting \ to
  <2>1. x[1] \notin tracks[t].waiting
    BY <1>c, Zenon DEF SteadyInv, Answering
  <2> QED
    BY <1>1, <1>t, <2>1, Zenon
<1>8. Answering'
  <2>1. \A r \in to : /\ req[r].responses = <<>> /\ req[r].pc \in {"forward", "live"}
                      /\ tracks'[req[r].track].status = "Confirmed"
                      /\ \A y \in Exchanges : y[1] = r => exch'[y].pc # "tell"
    BY <1>b, <1>c, <1>t, <1>1, <1>5, <1>6, ZenonT(60)
  <2>2. Tells(x, to, "ok")
    BY <1>1, <1>2, <1>7, <2>1, Zenon DEF Tells
  <2> QED
    BY <1>t, <1>3, <1>4, <2>2, StaysTold, ZenonT(60)
<1> QED
  BY <1>b, <1>1, <1>2, <1>3, <1>4, <1>8, ToldKeeps, ZenonT(60) DEF Asking

\* SUBSCRIBE_OK to everyone who waits.
LEMMA TellWaitingKeeps ==
    ASSUME Countable, SteadyInv, TypeOK', NEW x \in Exchanges, TellWaiting(x)
    PROVE  SteadyInv'
<1>a. exch \in [Exchanges -> Exchange] /\ exch[x] \in Exchange
  BY DEF SteadyInv, TypeOK
<1>b. /\ exch[x].pc = "tellWaiting" /\ exch[x].track = current
      /\ tracks[current].status = "Confirmed"
  BY Known, Zenon DEF TellWaiting, At, Found, Serving
<1>c. current \in TrackIds /\ current # NoTrack
  BY <1>b, Home, Zenon
<1>d. tracks \in [TrackIds -> Track] /\ tracks[current] \in Track
  BY <1>c DEF SteadyInv, TypeOK
<1>e. exch[x].accepted
  BY <1>b, Zenon DEF SteadyInv, Agreed
<1> DEFINE to == tracks[current].waiting \intersect tracks[current].subs
<1>1. /\ UNCHANGED <<current, made, aliases, connected, closing>>
      /\ exch' = [exch EXCEPT ![x].pc = "wait"]
      /\ tracks' = [tracks EXCEPT ![current].waiting = {}]
      /\ req' = Responding(to, "ok")
  BY <1>b DEF TellWaiting, Goes
<1>2. /\ \A y \in Exchanges : y # x => exch'[y] = exch[y]
      /\ exch'[x].cancel = exch[x].cancel /\ exch'[x].unsupported = exch[x].unsupported
      /\ exch'[x].accepted = exch[x].accepted /\ exch'[x].answered = exch[x].answered
      /\ exch'[x].pc = "wait"
  BY <1>a, <1>b, <1>1, ZenonT(60) DEF Exchange
<1>t. to \in SUBSET Requests /\ to \subseteq tracks[current].waiting
  BY <1>d DEF Track
<1> HIDE DEF to
<1>3. /\ \A t \in TrackIds :
            /\ t # current => tracks'[t] = tracks[t]
            /\ tracks'[t].origin = tracks[t].origin /\ tracks'[t].subs = tracks[t].subs
            /\ tracks'[t].cached = tracks[t].cached /\ tracks'[t].status = tracks[t].status
            /\ tracks'[t].unanswered = tracks[t].unanswered
            /\ tracks'[t].pubs = tracks[t].pubs
      /\ tracks'[current].waiting = {}
  BY <1>c, <1>d, <1>1, ZenonT(60) DEF Track
<1>4. Stays(x)
  BY <1>b, <1>1, <1>2, <1>3, Known, RespondingAdds, SMTT(60) DEF Stays
<1>5. Sound(x)
  BY <1>b, <1>c, <1>e, <1>2, <1>3, Known, ZenonT(60)
  DEF Sound, Found, Early, Asking, Serving, Failing, Refusing
<1>6. \A r \in to : req[r].track = current /\ req[r].responses = <<>>
                    /\ req[r].pc = "live" /\ ~req[r].creator
  BY <1>c, <1>t, ZenonT(60) DEF SteadyInv, Answering
<1>7. ASSUME NEW t \in TrackIds PROVE tracks'[t].waiting \subseteq tracks[t].waiting \ to
  <2>1. CASE t = current
    BY <1>3, <2>1, Zenon
  <2>2. CASE t # current
    <3>1. \A r \in tracks[t].waiting : req[r].track # current
      BY <2>2, Zenon DEF SteadyInv, Answering
    <3>2. \A r \in to : r \notin tracks[t].waiting
      BY <1>6, <3>1, Zenon
    <3> QED
      BY <1>3, <2>2, <3>2, Zenon
  <2> QED
    BY <2>1, <2>2, Zenon
<1>8. Answering'
  <2>1. Tells(x, to, "ok")
    BY <1>1, <1>2, <1>6, <1>7, Zenon DEF Tells
  <2> QED
    BY <1>t, <1>4, <1>5, <2>1, StaysTold, Zenon
<1> QED
  BY <1>b, <1>c, <1>e, <1>1, <1>2, <1>3, <1>4, <1>5, <1>8, ToldKeeps, ZenonT(60) DEF Asking

\* REQUEST_ERROR to the creator, which nobody has answered.
LEMMA TellErrorCreatorKeeps ==
    ASSUME Countable, SteadyInv, TypeOK', NEW x \in Exchanges, TellErrorCreator(x)
    PROVE  SteadyInv'
<1>a. exch \in [Exchanges -> Exchange] /\ exch[x] \in Exchange
  BY DEF SteadyInv, TypeOK
<1>b. /\ exch[x].pc = "tellError" /\ exch[x].track = current
      /\ tracks[current].status = "Rejected"
  BY Known, Zenon DEF TellErrorCreator, At, Found, Refusing
<1>c. /\ current \in TrackIds /\ current # NoTrack /\ x[1] \in Requests
      /\ req[x[1]].creator /\ req[x[1]].track = current
      /\ req[x[1]].pc \in {"forward", "live"}
  BY <1>b, Home
<1>1. /\ UNCHANGED <<current, made, tracks, aliases, connected, closing>>
      /\ exch' = [exch EXCEPT ![x].pc = "tellErrorWaiting"]
      /\ req' = Responding({x[1]}, "error")
  BY <1>b, <1>c DEF TellErrorCreator, Goes
<1>2. /\ \A y \in Exchanges : y # x => exch'[y] = exch[y]
      /\ exch'[x].cancel = exch[x].cancel /\ exch'[x].unsupported = exch[x].unsupported
      /\ exch'[x].accepted = exch[x].accepted /\ exch'[x].answered = exch[x].answered
      /\ exch'[x].pc = "tellErrorWaiting" /\ exch'[x].track = current
  BY <1>a, <1>b, <1>1, Zenon DEF Exchange
<1>3. Stays(x)
  BY <1>b, <1>1, <1>2, Known, RespondingAdds, SMTT(60) DEF Stays
<1>4. Sound(x)
  BY <1>b, <1>c, <1>1, <1>2, Known, ZenonT(60)
  DEF Sound, Found, Early, Asking, Serving, Failing, Refusing
<1>5. req[x[1]].responses = <<>>
  BY <1>b, <1>c, ZenonT(60) DEF SteadyInv, Answering
<1>6. \A y \in Exchanges : y[1] = x[1] => exch'[y].pc # "tellError"
  BY <1>b, <1>2, Known, Zenon DEF Failing
<1>7. ASSUME NEW t \in TrackIds
      PROVE  tracks'[t].waiting \subseteq tracks[t].waiting \ {x[1]}
  <2>1. x[1] \notin tracks[t].waiting
    BY <1>c DEF SteadyInv, Answering
  <2> QED
    BY <1>1, <2>1, ZenonT(60)
<1>8. Answering'
  <2>1. \A r \in {x[1]} : /\ req[r].responses = <<>> /\ req[r].pc \in {"forward", "live"}
                          /\ tracks'[req[r].track].status = "Rejected"
                          /\ \A y \in Exchanges : y[1] = r => exch'[y].pc # "tellError"
    BY <1>b, <1>c, <1>1, <1>5, <1>6, ZenonT(60)
  <2>2. {x[1]} \in SUBSET Requests
    BY <1>c, Zenon
  <2>3. Tells(x, {x[1]}, "error")
    BY <1>1, <1>2, <1>7, <2>1, Zenon DEF Tells
  <2> QED
    BY <1>3, <1>4, <2>2, <2>3, StaysTold, Zenon
<1> QED
  BY <1>b, <1>1, <1>2, <1>3, <1>4, <1>8, ToldKeeps, ZenonT(60) DEF Asking

\* REQUEST_ERROR to everyone who waits.
LEMMA TellErrorWaitingKeeps ==
    ASSUME Countable, SteadyInv, TypeOK', NEW x \in Exchanges, TellErrorWaiting(x)
    PROVE  SteadyInv'
<1>a. exch \in [Exchanges -> Exchange] /\ exch[x] \in Exchange
  BY DEF SteadyInv, TypeOK
<1>b. /\ exch[x].pc = "tellErrorWaiting" /\ exch[x].track = current
      /\ tracks[current].status = "Rejected"
  BY Known, Zenon DEF TellErrorWaiting, At, Found, Refusing
<1>c. current \in TrackIds /\ current # NoTrack
  BY <1>b, Home, Zenon
<1>d. tracks \in [TrackIds -> Track] /\ tracks[current] \in Track
  BY <1>c DEF SteadyInv, TypeOK
<1> DEFINE to == tracks[current].waiting
<1>1. /\ UNCHANGED <<current, made, aliases, connected, closing>>
      /\ exch' = [exch EXCEPT ![x].pc = "retire"]
      /\ tracks' = [tracks EXCEPT ![current].waiting = {}]
      /\ req' = Responding(to, "error")
  BY <1>b DEF TellErrorWaiting, Goes
<1>2. /\ \A y \in Exchanges : y # x => exch'[y] = exch[y]
      /\ exch'[x].cancel = exch[x].cancel /\ exch'[x].unsupported = exch[x].unsupported
      /\ exch'[x].accepted = exch[x].accepted /\ exch'[x].answered = exch[x].answered
      /\ exch'[x].pc = "retire"
  BY <1>a, <1>b, <1>1, Zenon DEF Exchange
<1>t. to \in SUBSET Requests /\ to \subseteq tracks[current].waiting
  BY <1>d DEF Track
<1> HIDE DEF to
<1>3. /\ \A t \in TrackIds :
            /\ t # current => tracks'[t] = tracks[t]
            /\ tracks'[t].origin = tracks[t].origin /\ tracks'[t].subs = tracks[t].subs
            /\ tracks'[t].cached = tracks[t].cached /\ tracks'[t].status = tracks[t].status
            /\ tracks'[t].unanswered = tracks[t].unanswered
            /\ tracks'[t].pubs = tracks[t].pubs
      /\ tracks'[current].waiting = {}
  BY <1>c, <1>d, <1>1, ZenonT(60) DEF Track
<1>4. Stays(x)
  BY <1>b, <1>1, <1>2, <1>3, Known, RespondingAdds, SMTT(60) DEF Stays
<1>5. Sound(x)
  BY <1>b, <1>c, <1>2, <1>3, Known, ZenonT(60)
  DEF Sound, Found, Early, Asking, Serving, Failing, Refusing
<1>6. \A r \in to : req[r].track = current /\ req[r].responses = <<>>
                    /\ req[r].pc = "live" /\ ~req[r].creator
  BY <1>c, <1>t, SMTT(60) DEF SteadyInv, Answering
<1>7. ASSUME NEW t \in TrackIds PROVE tracks'[t].waiting \subseteq tracks[t].waiting \ to
  <2>1. CASE t = current
    BY <1>3, <2>1
  <2>2. CASE t # current
    <3>1. \A r \in tracks[t].waiting : req[r].track # current
      BY <2>2 DEF SteadyInv, Answering
    <3>2. \A r \in to : r \notin tracks[t].waiting
      BY <1>6, <3>1
    <3> QED
      BY <1>3, <2>2, <3>2, SMTT(60)
  <2> QED
    BY <2>1, <2>2
<1>8. Answering'
  <2>1. Tells(x, to, "error")
    BY <1>1, <1>2, <1>6, <1>7, Zenon DEF Tells
  <2> QED
    BY <1>t, <1>4, <1>5, <2>1, StaysTold, Zenon
<1> QED
  BY <1>b, <1>c, <1>1, <1>2, <1>3, <1>4, <1>5, <1>8, ToldKeeps, ZenonT(60) DEF Asking

\* The track that was refused leaves the map: every exchange of it is over.
LEMMA CleanUpKeeps ==
    ASSUME Countable, SteadyInv, TypeOK', NEW x \in Exchanges, CleanUp(x)
    PROVE  SteadyInv'
<1>a. exch \in [Exchanges -> Exchange] /\ exch[x] \in Exchange
  BY DEF SteadyInv, TypeOK
<1>b. exch[x].pc = "remove"
  BY Known, Zenon DEF CleanUp, At
<1>c. /\ x[1] \in Requests /\ req[x[1]].creator /\ req[x[1]].track = current
      /\ current \in TrackIds /\ current # NoTrack
      /\ \A r \in Requests : req[r].creator /\ req[r].track = current => r = x[1]
  BY <1>b, Home, Zenon
<1>d. /\ tracks[current].status # "Confirmed" /\ ~exch[x].unsupported /\ ~exch[x].cancel
      /\ \A y \in Exchanges : y[1] = x[1] /\ y # x => exch[y].pc = "over"
  BY <1>b, Known, Zenon DEF Failing
<1>e. ASSUME NEW y \in Exchanges, y # x PROVE exch[y].pc \in {"idle", "over"}
  <2>1. CASE exch[y].pc \notin {"idle", "over"}
    <3>1. y[1] = x[1]
      BY <1>c, <2>1, Home, Zenon
    <3> QED
      BY <1>d, <1>e, <2>1, <3>1, Zenon
  <2> QED
    BY <2>1, Zenon
<1>f. ~Served
  BY <1>b, <1>d, <1>e, Zenon DEF Served
<1>g. aliases = {} /\ \A t \in TrackIds : ~tracks[t].cached
  BY <1>f, Zenon DEF SteadyInv, Reached
<1>1. /\ UNCHANGED <<made, tracks, connected, req, closing>>
      /\ exch' = [exch EXCEPT ![x].pc = "over"]
      /\ current' = NoTrack /\ aliases' = {}
  BY <1>b, <1>c, <1>d, <1>g, ZenonT(60) DEF CleanUp, At, RemoveTrack, Goes, Returns
<1>2. /\ \A y \in Exchanges : y # x => exch'[y] = exch[y]
      /\ exch'[x].cancel = exch[x].cancel /\ exch'[x].unsupported = exch[x].unsupported
      /\ exch'[x].accepted = exch[x].accepted /\ exch'[x].answered = exch[x].answered
      /\ exch'[x].pc = "over"
  BY <1>a, <1>1, Zenon DEF Exchange
<1>3. Calm'
  BY <1>1, <1>2, <1>d, ZenonT(60) DEF SteadyInv, Calm
<1>4. Creating'
  <2>1. ASSUME NEW r \in Requests, req[r].creator
        PROVE  req[r].pc \notin {"join", "assign", "forward"}
    <3> SUFFICES ASSUME req[r].pc \in {"join", "assign", "forward"} PROVE FALSE
      BY Zenon
    <3>1. r = x[1]
      BY <1>c, <2>1, ZenonT(60) DEF SteadyInv, Creating
    <3>2. req[r].pc = "forward"
      BY <1>b, <3>1, Home, ZenonT(60)
    <3>3. PICK p \in Publishers : exch[<<r, p>>].pc = "idle"
      BY <3>2, ZenonT(60) DEF SteadyInv, Creating
    <3>4. <<r, p>> \in Exchanges /\ <<r, p>>[1] = x[1]
      BY <3>1, Pairs, ZenonT(60)
    <3> QED
      BY <1>b, <1>d, <3>3, <3>4, Zenon
  <2>2. made \in Nat
    BY LifecycleAssumption, SMTT(60) DEF SteadyInv, TypeOK
  <2>3. \A r \in Requests : req[r].pc # "forward"
    BY <2>1, ZenonT(60) DEF SteadyInv, Creating
  <2>4. NoTrack <= made
    BY <2>2 DEF NoTrack
  <2> QED
    BY <1>1, <2>1, <2>3, <2>4, ZenonT(60) DEF SteadyInv, Creating
<1>5. AtHome'
  <2>1. AtHome
    BY Zenon DEF SteadyInv
  <2> QED
    BY <1>b, <1>1, <1>2, <1>e, <2>1 DEF AtHome, Found
<1>6. Agreed'
  <2> SUFFICES ASSUME NEW y \in Exchanges
               PROVE  /\ exch'[y].accepted =>
                            /\ exch'[y].answered
                            /\ exch'[y].pc \notin Asking \ {"wait", "ended"}
                            /\ tracks[req[y[1]].track].status = "Confirmed"
                      /\ exch'[y].pc \in Early /\ exch'[y].answered => exch'[y].accepted
                      /\ exch'[y].pc \in {"idle", "over"}
                      /\ req[y[1]].creator /\ tracks[req[y[1]].track].status = "Rejected"
                            => exch'[y].pc \in Refusing
    BY <1>1, ZenonT(60) DEF Agreed, Serving, Failing, Refusing
  <2>1. CASE y = x
    BY <1>2, <2>1, Zenon DEF SteadyInv, Agreed, Asking, Early, Refusing
  <2>2. CASE y # x
    BY <1>2, <1>e, <2>2, ZenonT(60) DEF SteadyInv, Agreed
  <2> QED
    BY <2>1, <2>2, Zenon
<1>7. Counting'
  <2> SUFFICES ASSUME NEW r \in Requests, req[r].creator, req[r].pc \in {"forward", "live"},
                      tracks[req[r].track].status # "Confirmed"
               PROVE  Cardinality(Owed(r)') <= tracks[req[r].track].unanswered
    BY <1>1, Zenon DEF Counting
  <2>1. \A y \in Exchanges : /\ exch'[y].accepted = exch[y].accepted
                             /\ exch'[y].pc \in Asking <=> exch[y].pc \in Asking
    BY <1>b, <1>2, Zenon DEF Asking
  <2>2. \A p \in Publishers : <<r, p>> \in Exchanges
    BY Pairs, SMTT(60)
  <2>3. Owed(r)' = Owed(r)
    BY <2>1, <2>2, ZenonT(60) DEF Owed
  <2> QED
    BY <2>3, Zenon DEF SteadyInv, Counting
<1>8. Answering'
  <2>1. \A y \in Exchanges : /\ exch[y].pc # "tell" => exch'[y].pc # "tell"
                             /\ exch[y].pc # "tellError" => exch'[y].pc # "tellError"
    BY <1>2, Zenon
  <2>2. Answering
    BY Zenon DEF SteadyInv
  <2>3. \A r \in Requests :
          /\ Len(req'[r].responses) <= 1
          /\ req'[r].pc \in {"start", "join", "assign", "answer"} => req'[r].responses = <<>>
    BY <1>1, <2>2, Zenon DEF Answering
  <2>4. ASSUME NEW r \in Requests, req'[r].creator, req'[r].pc # "end"
        PROVE  \/ req'[r].responses = <<>>
               \/ /\ req'[r].responses = <<"ok">>
                  /\ tracks'[req'[r].track].status = "Confirmed"
                  /\ \A y \in Exchanges : y[1] = r => exch'[y].pc # "tell"
               \/ /\ req'[r].responses = <<"error">>
                  /\ tracks'[req'[r].track].status = "Rejected"
                  /\ \A y \in Exchanges : y[1] = r => exch'[y].pc # "tellError"
    BY <1>1, <2>1, <2>2, <2>4, ZenonT(60) DEF Answering
  <2>5. \A y, z \in Exchanges :
          exch'[y].pc = "tell" /\ exch'[z].pc = "tell" /\ y[1] = z[1] => y = z
    BY <2>1, <2>2, Zenon DEF Answering
  <2>6. \A t \in TrackIds : \A r \in tracks'[t].waiting :
          /\ req'[r].track = t /\ req'[r].pc = "live" /\ ~req'[r].creator
          /\ req'[r].responses = <<>>
    BY <1>1, <2>2, ZenonT(60) DEF Answering
  <2> QED
    BY <2>3, <2>4, <2>5, <2>6, Zenon DEF Answering
<1>9. Reached'
  BY <1>1, <1>2, <1>e, <1>g DEF Reached, AliasServes
<1> QED
  BY <1>3, <1>4, <1>5, <1>6, <1>7, <1>8, <1>9, ZenonT(60) DEF SteadyInv
=============================================================================
