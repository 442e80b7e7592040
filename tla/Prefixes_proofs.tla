-------------------------- MODULE Prefixes_proofs --------------------------
(***************************************************************************)
(* For any clients, requests, Tuples and settings: the registry of prefix  *)
(* subscriptions and the requests it serves agree.                         *)
(***************************************************************************)
EXTENDS Prefixes, TLAPS

Subscribes(r) == Kind(r) \in {"SubscribeNamespace", "SubscribeTracks"}

\* Where a subscription is: not in the registry yet, or in it.
Before == {"new", "let in", "SubscribeNamespace", "SubscribeTracks", "clear"}
Within == {"registered", "catching up", "caught up", "serving", "updating", "moving",
           "rekeying", "pushing", "push", "raise"}

\* Where only a subscription is.
OnlySubscribed == {"SubscribeNamespace", "SubscribeTracks", "clear",
           "registered", "catching up", "caught up", "updating", "moving", "rekeying"}

Counts(c, kind) == c \in conn /\ InTime(c, kind)

\* A client that no longer counts does not count again.
Narrows == \A c, k : Counts(c, k)' => Counts(c, k)

Own(r) == Entry(req[r].prefix, By(r), SubscribeKind(r), r)

\* Where a request is, and what it has.
Places ==
    /\ setting \in Settings
    /\ req = [r \in Requests |-> req[r]]
    /\ \A r \in Requests :
          /\ {"pc", "prefix", "next", "late"} \subseteq DOMAIN req[r]
          /\ req[r].late \in BOOLEAN
          /\ Subscribes(r) => req[r].pc \in Before \cup Within \cup Finished
          /\ ~Subscribes(r) => req[r].pc \notin OnlySubscribed
          /\ req[r].pc \in Before => req[r].prefix = At(r)

\* What makes RegisteredIsServed inductive: a subscription that is within has its own
\* entry, and there is one entry for a prefix, a client and a kind.
Registry ==
    /\ \A e \in subscribers :
          /\ e = Entry(e.prefix, e.by, e.kind, e.tx)
          /\ e.tx \in Requests /\ Subscribes(e.tx)
          /\ By(e.tx) = e.by /\ SubscribeKind(e.tx) = e.kind
          /\ Counts(e.by, e.kind) => req[e.tx].pc \in Within /\ req[e.tx].prefix = e.prefix
    /\ \A r \in Requests :
          (Subscribes(r) /\ req[r].pc \in Within /\ Counts(By(r), SubscribeKind(r)))
          => Own(r) \in subscribers
    /\ \A e, f \in subscribers :
          (e.prefix = f.prefix /\ e.by = f.by /\ e.kind = f.kind /\ Counts(e.by, e.kind))
          => e = f

\* What the registry keeps of a subscription's parameters is what was asked for, unless
\* the client had entries of both kinds at a prefix when it updated them.
Parameters ==
    \A r \in Requests :
        (Subscribes(r) /\ Counts(By(r), SubscribeKind(r)) /\ By(r) \notin params.beside)
        => (r \in params.kept <=> r \in params.asked)

Closings == {"open", "publishers", "announcements", "tell", "client", "done"}

\* A client is connected until its session begins to close.
Sessions ==
    /\ closing \in [Clients -> [pc : Closings, names : SUBSET Namespaces]]
    /\ \A c \in Clients : c \in conn => closing[c].pc = "open"

Agrees == Places /\ Registry /\ Sessions /\ Parameters

\* The invariant says what is claimed.
LEMMA AgreesSuffices == Agrees => RegisteredIsServed
  <1> SUFFICES ASSUME Agrees, NEW e \in subscribers, e.by \in conn, InTime(e.by, e.kind)
               PROVE  /\ req[e.tx].pc \notin Finished
                      /\ req[e.tx].prefix = e.prefix
                      /\ By(e.tx) = e.by /\ SubscribeKind(e.tx) = e.kind
                      /\ e.by \notin params.beside =>
                            (e.tx \in params.kept <=> e.tx \in params.asked)
    BY DEF RegisteredIsServed
  <1>1. /\ e.tx \in Requests /\ Subscribes(e.tx) /\ Counts(e.by, e.kind)
        /\ By(e.tx) = e.by /\ SubscribeKind(e.tx) = e.kind
        /\ req[e.tx].pc \in Within /\ req[e.tx].prefix = e.prefix
    BY Zenon DEF Agrees, Registry, Counts
  <1>2. req[e.tx].pc \notin Finished
    BY <1>1, Zenon DEF Within, Finished
  <1>3. e.by \notin params.beside => (e.tx \in params.kept <=> e.tx \in params.asked)
    BY <1>1 DEF Agrees, Parameters
  <1> QED
    BY <1>1, <1>2, <1>3

\* It holds while the registry is empty.
LEMMA AgreesInit == Init => Agrees
  <1> SUFFICES ASSUME Init PROVE Agrees
    OBVIOUS
  <1>1. Places
    BY Zenon DEF Init, Places, Subscribes, Before, Within, Finished, OnlySubscribed, At
  <1>2. Registry
    BY Zenon DEF Init, Registry, Within
  <1>3. Sessions
    <2>1. closing = [c \in Clients |-> [pc |-> "open", names |-> {}]]
      BY DEF Init
    <2>2. {} \in SUBSET Namespaces
      BY Zenon
    <2> QED
      BY <2>1, <2>2 DEF Sessions, Closings
  <1>4. Parameters
    BY Zenon DEF Init, Parameters
  <1> QED
    BY <1>1, <1>2, <1>3, <1>4 DEF Agrees

\* What one request did not have, the others keep; nobody becomes early again.
LEMMA Kept ==
    ASSUME Places, Registry, NEW r \in Requests, NEW x,
           req' = [req EXCEPT ![r] = x],
           UNCHANGED <<setting, conn, subscribers>>,
           {"pc", "prefix", "next", "late"} \subseteq DOMAIN x,
           x.prefix = req[r].prefix, x.late = req[r].late,
           Subscribes(r) => x.pc \in Before \cup Within \cup Finished,
           ~Subscribes(r) => x.pc \notin OnlySubscribed,
           x.pc \in Before => req[r].pc \in Before,
           (Subscribes(r) /\ x.pc \in Within) => req[r].pc \in Within,
           (Subscribes(r) /\ req[r].pc \in Within /\ x.pc \notin Within)
               => By(r) \notin conn \/ \A e \in subscribers : e.tx # r
    PROVE  Places' /\ Registry' /\ Narrows
  <1>1. /\ req' = [s \in Requests |-> req'[s]]
        /\ req'[r] = x
        /\ \A s \in Requests : s # r => req'[s] = req[s]
    BY DEF Places
  <1>2. /\ \A s : Subscribes(s)' = Subscribes(s) /\ By(s)' = By(s) /\ At(s)' = At(s)
        /\ \A s : SubscribeKind(s)' = SubscribeKind(s)
    BY DEF Subscribes, By, At, SubscribeKind, Kind
  <1>3. \A s \in Requests : req'[s].prefix = req[s].prefix /\ req'[s].late = req[s].late
    BY <1>1
  <1>4. \A c, k : Counts(c, k)' = Counts(c, k)
    BY <1>2, <1>3 DEF Counts, InTime
  <1>5. Places'
    BY <1>1, <1>2, <1>3 DEF Places
  <1>6. \A s \in Requests : Own(s)' = Own(s)
    BY <1>2, <1>3 DEF Own
  <1>7. Registry'
    <2>1. ASSUME NEW e \in subscribers'
          PROVE  /\ e = Entry(e.prefix, e.by, e.kind, e.tx)
                 /\ e.tx \in Requests /\ Subscribes(e.tx)'
                 /\ By(e.tx)' = e.by /\ SubscribeKind(e.tx)' = e.kind
      BY <1>2 DEF Registry
    <2>2. ASSUME NEW e \in subscribers', Counts(e.by, e.kind)'
          PROVE  req'[e.tx].pc \in Within /\ req'[e.tx].prefix = e.prefix
      <3>1. /\ e \in subscribers /\ e.tx \in Requests /\ Subscribes(e.tx) /\ By(e.tx) = e.by
            /\ req[e.tx].pc \in Within /\ req[e.tx].prefix = e.prefix
            /\ e.by \in conn
        BY <1>4, <2>2 DEF Registry, Counts
      <3>2. CASE e.tx = r
        BY <1>1, <1>3, <3>1, <3>2
      <3>3. CASE e.tx # r
        BY <1>1, <1>3, <3>1, <3>3
      <3> QED
        BY <3>2, <3>3
    <2>3. ASSUME NEW s \in Requests, Subscribes(s)', req'[s].pc \in Within,
                 Counts(By(s), SubscribeKind(s))'
          PROVE  Own(s)' \in subscribers'
      <3>1. Subscribes(s) /\ req[s].pc \in Within
        BY <1>1, <1>2, <2>3
      <3>2. Counts(By(s), SubscribeKind(s))
        BY <1>2, <1>4, <2>3
      <3> QED
        BY <1>6, <3>1, <3>2 DEF Registry
    <2>4. ASSUME NEW e \in subscribers', NEW f \in subscribers', e.prefix = f.prefix,
                 e.by = f.by, e.kind = f.kind, Counts(e.by, e.kind)'
          PROVE  e = f
      BY <1>4, <2>4 DEF Registry
    <2> QED
      BY <2>1, <2>2, <2>3, <2>4 DEF Registry
  <1>8. Narrows
    BY <1>4 DEF Narrows
  <1> QED
    BY <1>5, <1>7, <1>8

\* A step that moves only the place of a request.
LEMMA Steps ==
    ASSUME Places, Registry, NEW r \in Requests, NEW pc, Goes(r, pc),
           UNCHANGED <<setting, conn, subscribers>>,
           Subscribes(r) => pc \in Before \cup Within \cup Finished,
           ~Subscribes(r) => pc \notin OnlySubscribed,
           pc \in Before => req[r].pc \in Before,
           (Subscribes(r) /\ pc \in Within) => req[r].pc \in Within,
           (Subscribes(r) /\ req[r].pc \in Within /\ pc \notin Within)
               => By(r) \notin conn \/ \A e \in subscribers : e.tx # r
    PROVE  Places' /\ Registry' /\ Narrows
  <1> DEFINE x == [req[r] EXCEPT !.pc = pc]
  <1>1. req' = [req EXCEPT ![r] = x]
    BY Zenon DEF Goes
  <1>2. /\ DOMAIN x = DOMAIN req[r]
        /\ x.pc = pc /\ x.prefix = req[r].prefix /\ x.late = req[r].late
    <2>1. {"pc", "prefix", "next", "late"} \subseteq DOMAIN req[r]
      BY DEF Places
    <2> QED
      BY <2>1, Zenon
  <1>3. {"pc", "prefix", "next", "late"} \subseteq DOMAIN x
    BY <1>2, Zenon DEF Places
  <1> HIDE DEF x
  <1> QED
    BY <1>1, <1>2, <1>3, Kept, Zenon

\* Nothing of a request or the registry changes; a client may leave.
LEMMA Untouched ==
    ASSUME Places, Registry, UNCHANGED <<setting, req, subscribers>>, conn' \subseteq conn
    PROVE  Places' /\ Registry' /\ Narrows
  <1>1. /\ \A s : Subscribes(s)' = Subscribes(s) /\ By(s)' = By(s) /\ At(s)' = At(s)
        /\ \A s : SubscribeKind(s)' = SubscribeKind(s)
        /\ \A s : Own(s)' = Own(s)
    BY DEF Subscribes, By, At, SubscribeKind, Kind, Own
  <1>2. \A c, k : Counts(c, k)' => Counts(c, k)
    BY <1>1 DEF Counts, InTime
  <1>3. Places'
    BY <1>1 DEF Places
  <1>4. Registry'
    <2>1. ASSUME NEW e \in subscribers'
          PROVE  /\ e = Entry(e.prefix, e.by, e.kind, e.tx)
                 /\ e.tx \in Requests /\ Subscribes(e.tx)'
                 /\ By(e.tx)' = e.by /\ SubscribeKind(e.tx)' = e.kind
                 /\ Counts(e.by, e.kind)' =>
                       req'[e.tx].pc \in Within /\ req'[e.tx].prefix = e.prefix
      BY <1>1, <1>2 DEF Registry
    <2>2. ASSUME NEW s \in Requests, Subscribes(s)', req'[s].pc \in Within,
                 Counts(By(s), SubscribeKind(s))'
          PROVE  Own(s)' \in subscribers'
      BY <1>1, <1>2, <2>2 DEF Registry
    <2>3. ASSUME NEW e \in subscribers', NEW f \in subscribers', e.prefix = f.prefix,
                 e.by = f.by, e.kind = f.kind, Counts(e.by, e.kind)'
          PROVE  e = f
      BY <1>2, <2>3 DEF Registry
    <2> QED
      BY <2>1, <2>2, <2>3 DEF Registry
  <1>5. Narrows
    BY <1>2 DEF Narrows
  <1> QED
    BY <1>3, <1>4, <1>5

\* The subscription enters the registry.
LEMMA Enters ==
    ASSUME Places, Registry, NEW r \in Requests, Register(r)
    PROVE  Places' /\ Registry' /\ Narrows
  <1> DEFINE found == find_overlapping_namespace_subscription(By(r), At(r), SubscribeKind(r), {})
             x == [req[r] EXCEPT !.pc = "registered", !.late = @ \/ found # {}]
             mine == Entry(At(r), By(r), SubscribeKind(r), r)
  <1>1. /\ UNCHANGED <<setting, conn>> /\ req[r].pc = "clear"
        /\ subscribers' = add_namespace_subscriber(At(r), By(r), SubscribeKind(r), r)
    BY DEF Register, sessions, At_
  <1>2. req' = [req EXCEPT ![r] = x]
    BY Zenon DEF Register
  <1>3. /\ DOMAIN x = DOMAIN req[r]
        /\ x.pc = "registered" /\ x.prefix = req[r].prefix
        /\ x.late = (req[r].late \/ found # {})
    <2>1. {"pc", "prefix", "next", "late"} \subseteq DOMAIN req[r]
      BY DEF Places
    <2> QED
      BY <2>1, Zenon
  <1>4. {"pc", "prefix", "next", "late"} \subseteq DOMAIN x
    BY <1>3, Zenon DEF Places
  <1>5. x.late \in BOOLEAN /\ (x.late = FALSE => req[r].late = FALSE /\ found = {})
    <2>1. req[r].late \in BOOLEAN
      BY DEF Places
    <2> HIDE DEF x, found
    <2> QED
      BY <1>3, <2>1, Zenon
  <1> HIDE DEF x
  <1>6. /\ req' = [s \in Requests |-> req'[s]]
        /\ req'[r] = x
        /\ \A s \in Requests : s # r => req'[s] = req[s]
    BY <1>2 DEF Places
  <1>7. /\ \A s : Subscribes(s)' = Subscribes(s) /\ By(s)' = By(s) /\ At(s)' = At(s)
        /\ \A s : SubscribeKind(s)' = SubscribeKind(s)
    BY <1>1 DEF Subscribes, By, At, SubscribeKind, Kind
  <1>8. /\ \A s \in Requests : req'[s].prefix = req[s].prefix
        /\ Subscribes(r) /\ req[r].prefix = At(r)
    BY <1>1, <1>3, <1>6, Zenon DEF Places, OnlySubscribed, Before
  <1>9. Places'
    BY <1>3, <1>4, <1>5, <1>6, <1>7, <1>8, <1>1, ZenonT(60)
    DEF Places, Before, Within, Finished, OnlySubscribed
  <1>10. /\ \A c, k : Counts(c, k)' => Counts(c, k)
         /\ Counts(By(r), SubscribeKind(r))' => found = {}
    <2>1. \A s \in Requests : ~req'[s].late => ~req[s].late
      BY <1>5, <1>6
    <2>2. \A c, k : Counts(c, k)' => Counts(c, k)
      BY <1>1, <1>7, <2>1 DEF Counts, InTime
    <2>3. Counts(By(r), SubscribeKind(r))' => ~req'[r].late
      BY <1>7 DEF Counts, InTime
    <2> HIDE DEF found
    <2> QED
      BY <1>5, <1>6, <2>2, <2>3
  <1>11. \A s \in Requests : Own(s)' = Own(s)
    BY <1>7, <1>8 DEF Own
  <1>12. /\ subscribers' \subseteq subscribers \cup {mine}
         /\ subscribers \subseteq subscribers'
         /\ found = {} => mine \in subscribers'
         /\ Own(r) = mine
         /\ mine.prefix = At(r) /\ mine.by = By(r) /\ mine.kind = SubscribeKind(r)
         /\ mine.tx = r
    BY <1>1, <1>8 DEF add_namespace_subscriber, Entry, Own,
                      find_overlapping_namespace_subscription, namespace_prefixes_overlap
  <1>13. ASSUME NEW e \in subscribers, e.by = By(r), e.kind = SubscribeKind(r),
                e.prefix = At(r)
         PROVE  found # {}
    BY <1>13 DEF find_overlapping_namespace_subscription, namespace_prefixes_overlap
  <1> HIDE DEF mine, found
  <1>14. Registry'
    <2>1. ASSUME NEW e \in subscribers'
          PROVE  /\ e = Entry(e.prefix, e.by, e.kind, e.tx)
                 /\ e.tx \in Requests /\ Subscribes(e.tx)'
                 /\ By(e.tx)' = e.by /\ SubscribeKind(e.tx)' = e.kind
      <3>1. CASE e \in subscribers
        BY <1>7, <3>1 DEF Registry
      <3>2. CASE e = mine
        BY <1>7, <1>8, <1>12, <3>2 DEF mine
      <3> QED
        BY <1>12, <3>1, <3>2
    <2>2. ASSUME NEW e \in subscribers', Counts(e.by, e.kind)'
          PROVE  req'[e.tx].pc \in Within /\ req'[e.tx].prefix = e.prefix
      <3>1. CASE e \in subscribers
        <4>1. req[e.tx].pc \in Within /\ req[e.tx].prefix = e.prefix /\ e.tx \in Requests
          BY <1>10, <2>2, <3>1 DEF Registry
        <4>2. e.tx # r
          BY <1>1, <4>1, Zenon DEF Within
        <4> QED
          BY <1>6, <4>1, <4>2
      <3>2. CASE e = mine
        BY <1>3, <1>6, <1>8, <1>12, <3>2, Zenon DEF Within
      <3> QED
        BY <1>12, <3>1, <3>2
    <2>3. ASSUME NEW s \in Requests, Subscribes(s)', req'[s].pc \in Within,
                 Counts(By(s), SubscribeKind(s))'
          PROVE  Own(s)' \in subscribers'
      <3>1. CASE s = r
        BY <1>10, <1>11, <1>12, <2>3, <3>1
      <3>2. CASE s # r
        <4>1. Subscribes(s) /\ req[s].pc \in Within /\ Counts(By(s), SubscribeKind(s))
          BY <1>6, <1>7, <1>10, <2>3, <3>2
        <4> QED
          BY <1>11, <1>12, <4>1 DEF Registry
      <3> QED
        BY <3>1, <3>2
    <2>4. ASSUME NEW e \in subscribers', NEW f \in subscribers', e.prefix = f.prefix,
                 e.by = f.by, e.kind = f.kind, Counts(e.by, e.kind)'
          PROVE  e = f
      <3>1. Counts(e.by, e.kind)
        BY <1>10, <2>4
      <3>2. CASE e \in subscribers /\ f \in subscribers
        BY <2>4, <3>1, <3>2 DEF Registry
      <3>3. CASE e = mine /\ f = mine
        BY <3>3
      <3>4. CASE e = mine /\ f \in subscribers
        BY <1>7, <1>10, <1>12, <1>13, <2>4, <3>4
      <3>5. CASE f = mine /\ e \in subscribers
        BY <1>7, <1>10, <1>12, <1>13, <2>4, <3>5
      <3> QED
        BY <1>12, <3>2, <3>3, <3>4, <3>5
    <2> QED
      BY <2>1, <2>2, <2>3, <2>4 DEF Registry
  <1>15. Narrows
    BY <1>10 DEF Narrows
  <1> QED
    BY <1>9, <1>14, <1>15

\* The subscription moves: it is its own entry that it takes along.
LEMMA Moves ==
    ASSUME Places, Registry, NEW r \in Requests, apply_subscription_update(r)
    PROVE  Places' /\ Registry' /\ Narrows
  <1> DEFINE refused == prefix_move_rejection(r, req[r].next)
             x == [req[r] EXCEPT !.pc = "serving", !.prefix = req[r].next, !.moved = TRUE,
                                 !.late = @ \/ refused]
             held == {e \in subscribers : /\ e.prefix = req[r].prefix
                                          /\ e.by = By(r) /\ e.kind = SubscribeKind(r)}
             mine == Entry(req[r].next, By(r), SubscribeKind(r), r)
  <1>1. /\ UNCHANGED <<setting, conn>> /\ req[r].pc = "rekeying"
        /\ subscribers' \in rekey_namespace_subscriber(req[r].prefix, req[r].next, By(r),
                                                       SubscribeKind(r))
    BY DEF apply_subscription_update, sessions, At_
  <1>2. req' = [req EXCEPT ![r] = x]
    BY Zenon DEF apply_subscription_update
  <1>3. /\ DOMAIN x = DOMAIN req[r]
        /\ x.pc = "serving" /\ x.prefix = req[r].next
        /\ x.late = (req[r].late \/ refused)
    <2>1. {"pc", "prefix", "next", "late"} \subseteq DOMAIN req[r]
      BY DEF Places
    <2> QED
      BY <2>1, Zenon
  <1>4. {"pc", "prefix", "next", "late"} \subseteq DOMAIN x
    BY <1>3, Zenon DEF Places
  <1>5. x.late \in BOOLEAN /\ (x.late = FALSE => req[r].late = FALSE /\ ~refused)
    <2>1. req[r].late \in BOOLEAN
      BY DEF Places
    <2> HIDE DEF x, refused
    <2> QED
      BY <1>3, <2>1, Zenon
  <1> HIDE DEF x
  <1>6. /\ req' = [s \in Requests |-> req'[s]]
        /\ req'[r] = x
        /\ \A s \in Requests : s # r => req'[s] = req[s]
    BY <1>2 DEF Places
  <1>7. /\ \A s : Subscribes(s)' = Subscribes(s) /\ By(s)' = By(s) /\ At(s)' = At(s)
        /\ \A s : SubscribeKind(s)' = SubscribeKind(s)
    BY <1>1 DEF Subscribes, By, At, SubscribeKind, Kind
  <1>8. Subscribes(r)
    BY <1>1, Zenon DEF Places, OnlySubscribed
  <1>9. Places'
    BY <1>3, <1>4, <1>5, <1>6, <1>7, <1>8, <1>1, Zenon
    DEF Places, Before, Within, Finished, OnlySubscribed
  <1>10. /\ \A c, k : Counts(c, k)' => Counts(c, k)
         /\ Counts(By(r), SubscribeKind(r))' => ~refused
    <2>1. \A s \in Requests : ~req'[s].late => ~req[s].late
      BY <1>5, <1>6
    <2>2. \A c, k : Counts(c, k)' => Counts(c, k)
      BY <1>1, <1>7, <2>1 DEF Counts, InTime
    <2>3. Counts(By(r), SubscribeKind(r))' => ~req'[r].late
      BY <1>7 DEF Counts, InTime
    <2> HIDE DEF refused
    <2> QED
      BY <1>5, <1>6, <2>2, <2>3
  <1>11. \A s \in Requests : s # r => Own(s)' = Own(s)
    BY <1>6, <1>7 DEF Own
  <1>12. /\ Own(r)' = mine
         /\ mine.prefix = req[r].next /\ mine.by = By(r) /\ mine.kind = SubscribeKind(r)
         /\ mine.tx = r
    BY <1>3, <1>6, <1>7 DEF Own, Entry
  <1>13. \/ held = {} /\ subscribers' = subscribers
         \/ \E e \in held :
               subscribers' = (subscribers \ {e})
                              \cup {Entry(req[r].next, By(r), SubscribeKind(r), e.tx)}
    BY <1>1 DEF rekey_namespace_subscriber
  <1>14. ASSUME Counts(By(r), SubscribeKind(r))
         PROVE  /\ Own(r) \in held /\ \A e \in held : e = Own(r)
                /\ subscribers' = (subscribers \ {Own(r)}) \cup {mine}
    <2>1. Own(r) \in subscribers
      BY <1>1, <1>8, <1>14, Zenon DEF Registry, Within
    <2>2. /\ Own(r).prefix = req[r].prefix /\ Own(r).by = By(r)
          /\ Own(r).kind = SubscribeKind(r) /\ Own(r).tx = r
      BY DEF Own, Entry
    <2>3. Own(r) \in held
      BY <2>1, <2>2
    <2>4. ASSUME NEW e \in held PROVE e = Own(r)
      BY <1>14, <2>1, <2>2 DEF Registry
    <2> HIDE DEF held
    <2> QED
      BY <1>13, <2>2, <2>3, <2>4
  <1>15. ASSUME NEW e \in subscribers, e.by = By(r), e.kind = SubscribeKind(r),
                e.prefix = req[r].next, e.prefix # req[r].prefix
         PROVE  refused
    BY <1>15 DEF prefix_move_rejection, find_overlapping_namespace_subscription,
                 namespace_prefixes_overlap
  <1> HIDE DEF mine, refused
  <1>16. ASSUME NEW e \in subscribers'
         PROVE  /\ e = Entry(e.prefix, e.by, e.kind, e.tx)
                /\ e.tx \in Requests /\ Subscribes(e.tx)'
                /\ By(e.tx)' = e.by /\ SubscribeKind(e.tx)' = e.kind
    <2>1. CASE e \in subscribers
      BY <1>7, <2>1 DEF Registry
    <2>2. CASE e \notin subscribers
      <3>1. PICK f \in held : e = Entry(req[r].next, By(r), SubscribeKind(r), f.tx)
        BY <1>13, <2>2
      <3>2. f \in subscribers /\ f.by = By(r) /\ f.kind = SubscribeKind(r)
        OBVIOUS
      <3> HIDE DEF held
      <3>3. /\ e.by = By(r) /\ e.kind = SubscribeKind(r) /\ e.tx = f.tx
            /\ e.prefix = req[r].next
        BY <3>1 DEF Entry
      <3>4. /\ f.tx \in Requests /\ Subscribes(f.tx) /\ By(f.tx) = f.by
            /\ SubscribeKind(f.tx) = f.kind
        BY <3>2 DEF Registry
      <3> QED
        BY <1>7, <3>1, <3>2, <3>3, <3>4
    <2> QED
      BY <2>1, <2>2
  <1> DEFINE Same(c, k) == c = By(r) /\ k = SubscribeKind(r)
  <1>17. ASSUME NEW c, NEW k, ~Same(c, k)
         PROVE  \A e : (e.by = c /\ e.kind = k) => (e \in subscribers' <=> e \in subscribers)
    <2>1. ASSUME NEW e, e.by = c, e.kind = k, NEW f \in held
          PROVE  e # f /\ e # Entry(req[r].next, By(r), SubscribeKind(r), f.tx)
      BY <1>17, <2>1 DEF Entry
    <2> HIDE DEF held
    <2> QED
      BY <1>13, <2>1
  <1>18. Registry'
    <2>2. ASSUME NEW e \in subscribers', Counts(e.by, e.kind)'
          PROVE  req'[e.tx].pc \in Within /\ req'[e.tx].prefix = e.prefix
      <3>1. Counts(e.by, e.kind)
        BY <1>10, <2>2
      <3>2. CASE ~Same(e.by, e.kind)
        <4>1. /\ e \in subscribers /\ e.tx \in Requests /\ By(e.tx) = e.by
              /\ SubscribeKind(e.tx) = e.kind
              /\ req[e.tx].pc \in Within /\ req[e.tx].prefix = e.prefix
          BY <1>17, <3>1, <3>2 DEF Registry
        <4>2. e.tx # r
          BY <3>2, <4>1
        <4> QED
          BY <1>6, <4>1, <4>2
      <3>3. CASE Same(e.by, e.kind) /\ e # mine
        <4>1. e \in subscribers /\ e # Own(r) /\ Own(r) \in subscribers
          BY <1>14, <3>1, <3>3
        <4>2. e.tx \in Requests /\ req[e.tx].pc \in Within /\ req[e.tx].prefix = e.prefix
          BY <3>1, <4>1 DEF Registry
        <4>3. e.tx # r
          <5>1. Own(r).prefix = req[r].prefix /\ Own(r).by = By(r) /\ Own(r).kind = SubscribeKind(r)
            BY DEF Own, Entry
          <5> QED
            BY <3>1, <3>3, <4>1, <4>2, <5>1 DEF Registry
        <4> QED
          BY <1>6, <4>2, <4>3
      <3>4. CASE e = mine
        BY <1>3, <1>6, <1>12, <3>4, Zenon DEF Within
      <3> QED
        BY <3>2, <3>3, <3>4
    <2>3. ASSUME NEW s \in Requests, Subscribes(s)', req'[s].pc \in Within,
                 Counts(By(s), SubscribeKind(s))'
          PROVE  Own(s)' \in subscribers'
      <3>1. CASE s = r
        BY <1>7, <1>10, <1>12, <1>14, <2>3, <3>1
      <3>2. CASE s # r
        <4>1. /\ Subscribes(s) /\ req[s].pc \in Within /\ Counts(By(s), SubscribeKind(s))
          BY <1>6, <1>7, <1>10, <2>3, <3>2
        <4>2. /\ Own(s) \in subscribers
              /\ Own(s).by = By(s) /\ Own(s).kind = SubscribeKind(s) /\ Own(s).tx = s
              /\ Own(r).tx = r
          BY <4>1 DEF Registry, Own, Entry
        <4>3. Own(s) \in subscribers'
          BY <1>14, <1>17, <3>2, <4>1, <4>2
        <4> QED
          BY <1>11, <3>2, <4>3
      <3> QED
        BY <3>1, <3>2
    <2>4. ASSUME NEW e \in subscribers', NEW f \in subscribers', e.prefix = f.prefix,
                 e.by = f.by, e.kind = f.kind, Counts(e.by, e.kind)'
          PROVE  e = f
      <3>1. Counts(e.by, e.kind)
        BY <1>10, <2>4
      <3>2. CASE ~Same(e.by, e.kind)
        BY <1>17, <2>4, <3>1, <3>2 DEF Registry
      <3>3. CASE Same(e.by, e.kind)
        <4>1. ~refused /\ subscribers' = (subscribers \ {Own(r)}) \cup {mine}
          BY <1>7, <1>10, <1>14, <2>4, <3>1, <3>3
        <4>2. /\ Own(r).prefix = req[r].prefix /\ Own(r).by = By(r)
              /\ Own(r).kind = SubscribeKind(r) /\ Own(r) \in subscribers
          BY <1>14, <3>1, <3>3 DEF Own, Entry
        <4>3. ASSUME NEW g \in subscribers, g # Own(r), g.by = By(r), g.kind = SubscribeKind(r)
              PROVE  g.prefix # req[r].next
          BY <1>15, <3>1, <3>3, <4>1, <4>2, <4>3 DEF Registry
        <4>4. CASE e \in subscribers /\ f \in subscribers
          BY <2>4, <3>1, <4>4 DEF Registry
        <4>5. CASE e = mine /\ f # mine
          BY <1>12, <2>4, <3>3, <4>1, <4>3, <4>5, Zenon
        <4>6. CASE f = mine /\ e # mine
          BY <1>12, <2>4, <3>3, <4>1, <4>3, <4>6
        <4> QED
          BY <4>1, <4>4, <4>5, <4>6
      <3> QED
        BY <3>2, <3>3
    <2> QED
      BY <1>16, <2>2, <2>3, <2>4 DEF Registry
  <1>19. Narrows
    BY <1>10 DEF Narrows
  <1> QED
    BY <1>9, <1>18, <1>19

\* Entries go, of one client and kind or of a client that is gone, and with them the
\* request they belong to.
LEMMA Shrinks ==
    ASSUME Places, Registry, UNCHANGED <<setting, conn>>,
           req' = [s \in Requests |-> req'[s]],
           \A s \in Requests :
              /\ {"pc", "prefix", "next", "late"} \subseteq DOMAIN req'[s]
              /\ req'[s].prefix = req[s].prefix /\ req'[s].late = req[s].late
              /\ req'[s].pc = req[s].pc \/ req'[s].pc = "ended",
           subscribers' \subseteq subscribers,
           \A e \in subscribers' : Counts(e.by, e.kind) => req'[e.tx].pc = req[e.tx].pc,
           \A e \in subscribers \ subscribers' :
              Counts(e.by, e.kind) => req'[e.tx].pc = "ended"
    PROVE  Places' /\ Registry' /\ Narrows
  <1>1. /\ \A s : Subscribes(s)' = Subscribes(s) /\ By(s)' = By(s) /\ At(s)' = At(s)
        /\ \A s : SubscribeKind(s)' = SubscribeKind(s)
    BY DEF Subscribes, By, At, SubscribeKind, Kind
  <1>2. \A c, k : Counts(c, k)' = Counts(c, k)
    BY <1>1 DEF Counts, InTime
  <1>3. \A s \in Requests : Own(s)' = Own(s) /\ Own(s).tx = s
                            /\ Own(s).by = By(s) /\ Own(s).kind = SubscribeKind(s)
    BY <1>1 DEF Own, Entry
  <1>4. Places'
    BY <1>1, ZenonT(60) DEF Places, Before, Finished, OnlySubscribed
  <1>5. Registry'
    <2>1. ASSUME NEW e \in subscribers'
          PROVE  /\ e = Entry(e.prefix, e.by, e.kind, e.tx)
                 /\ e.tx \in Requests /\ Subscribes(e.tx)'
                 /\ By(e.tx)' = e.by /\ SubscribeKind(e.tx)' = e.kind
      BY <1>1 DEF Registry
    <2>2. ASSUME NEW e \in subscribers', Counts(e.by, e.kind)'
          PROVE  req'[e.tx].pc \in Within /\ req'[e.tx].prefix = e.prefix
      BY <1>2, <2>2 DEF Registry
    <2>3. ASSUME NEW s \in Requests, Subscribes(s)', req'[s].pc \in Within,
                 Counts(By(s), SubscribeKind(s))'
          PROVE  Own(s)' \in subscribers'
      <3>1. req'[s].pc # "ended" /\ req'[s].pc = req[s].pc
        BY <2>3, Zenon DEF Within
      <3>2. Own(s) \in subscribers
        BY <1>1, <1>2, <2>3, <3>1 DEF Registry
      <3> QED
        BY <1>1, <1>2, <1>3, <2>3, <3>1, <3>2
    <2>4. ASSUME NEW e \in subscribers', NEW f \in subscribers', e.prefix = f.prefix,
                 e.by = f.by, e.kind = f.kind, Counts(e.by, e.kind)'
          PROVE  e = f
      BY <1>2, <2>4 DEF Registry
    <2> QED
      BY <2>1, <2>2, <2>3, <2>4 DEF Registry
  <1>6. Narrows
    BY <1>2 DEF Narrows
  <1> QED
    BY <1>4, <1>5, <1>6

\* The subscription leaves the registry: it is its own entry that it takes out.
LEMMA Leaves ==
    ASSUME Places, Registry, NEW r \in Requests, CancelPrefix(r)
    PROVE  Places' /\ Registry' /\ Narrows
  <1> DEFINE x == [req[r] EXCEPT !.pc = "ended"]
  <1>1. /\ UNCHANGED <<setting, conn>> /\ req[r].pc = "serving" /\ Subscribes(r)
        /\ subscribers' = {e \in subscribers :
              ~(e.prefix = req[r].prefix /\ e.by = By(r) /\ e.kind = SubscribeKind(r))}
    BY DEF CancelPrefix, sessions, StreamEnds, At_, Subscribes,
           remove_namespace_subscriber_by_prefix
  <1>2. req' = [req EXCEPT ![r] = x]
    BY Zenon DEF CancelPrefix, Goes
  <1>3. /\ DOMAIN x = DOMAIN req[r]
        /\ x.pc = "ended" /\ x.prefix = req[r].prefix /\ x.late = req[r].late
    <2>1. {"pc", "prefix", "next", "late"} \subseteq DOMAIN req[r]
      BY DEF Places
    <2> QED
      BY <2>1, Zenon
  <1>4. {"pc", "prefix", "next", "late"} \subseteq DOMAIN x
    BY <1>3, Zenon DEF Places
  <1> HIDE DEF x
  <1>5. /\ req' = [s \in Requests |-> req'[s]]
        /\ req'[r] = x
        /\ \A s \in Requests : s # r => req'[s] = req[s]
    BY <1>2 DEF Places
  <1>6. \A s \in Requests :
           /\ {"pc", "prefix", "next", "late"} \subseteq DOMAIN req'[s]
           /\ req'[s].prefix = req[s].prefix /\ req'[s].late = req[s].late
           /\ req'[s].pc = req[s].pc \/ req'[s].pc = "ended"
    BY <1>3, <1>4, <1>5 DEF Places
  <1>7. ASSUME NEW e \in subscribers, Counts(e.by, e.kind)
        PROVE  e.tx = r <=> e.prefix = req[r].prefix /\ e.by = By(r) /\ e.kind = SubscribeKind(r)
    <2>1. /\ e.tx \in Requests /\ By(e.tx) = e.by /\ SubscribeKind(e.tx) = e.kind
          /\ req[e.tx].prefix = e.prefix
      BY <1>7 DEF Registry
    <2>2. ASSUME e.prefix = req[r].prefix, e.by = By(r), e.kind = SubscribeKind(r)
          PROVE  e.tx = r
      <3>1. Own(r) \in subscribers
        BY <1>1, <1>7, <2>2, Zenon DEF Registry, Within
      <3>2. /\ Own(r).prefix = req[r].prefix /\ Own(r).by = By(r)
            /\ Own(r).kind = SubscribeKind(r) /\ Own(r).tx = r
        BY DEF Own, Entry
      <3> QED
        BY <1>7, <2>2, <3>1, <3>2 DEF Registry
    <2> QED
      BY <2>1, <2>2
  <1>8. \A e \in subscribers' : Counts(e.by, e.kind) => req'[e.tx].pc = req[e.tx].pc
    BY <1>1, <1>5, <1>7 DEF Registry
  <1>9. \A e \in subscribers \ subscribers' : Counts(e.by, e.kind) => req'[e.tx].pc = "ended"
    BY <1>1, <1>3, <1>5, <1>7
  <1> QED
    BY <1>1, <1>5, <1>6, <1>8, <1>9, Shrinks

\* What a session leaves behind is of no client that is still there.
LEMMA Forgets ==
    ASSUME Agrees, NEW c \in Clients, remove_namespace_subscriber(c)
    PROVE  Places' /\ Registry' /\ Narrows
  <1>1. /\ UNCHANGED <<setting, conn, req>> /\ closing[c].pc = "tell"
        /\ subscribers' = {e \in subscribers : e.by # c}
    BY DEF remove_namespace_subscriber
  <1>2. c \notin conn
    BY <1>1 DEF Agrees, Sessions
  <1>3. \A e \in subscribers \ subscribers' : ~Counts(e.by, e.kind)
    BY <1>1, <1>2, SMTT(60) DEF Counts
  <1> QED
    BY <1>1, <1>3, Shrinks DEF Agrees, Places


\* One step per action of a request's task; a push first.
LEMMA Pushes ==
    ASSUME Places, Registry, NEW r \in Requests, NEW p, NextPush(r, p)
    PROVE  Places' /\ Registry' /\ Narrows
  <1> DEFINE goes == [req[r] EXCEPT !.todo = @ \ {p}]
             blocked == [goes EXCEPT !.todo = {}, !.skipped = TRUE]
             fails == [goes EXCEPT !.pc = "failed"]
             takes == [goes EXCEPT !.pc = "push", !.to = p]
             Fields == {"pc", "prefix", "next", "late"}
  <1>1. PICK x : /\ req' = [req EXCEPT ![r] = x]
                 /\ x \in {goes, blocked, takes} \/ (x = fails /\ By(r) \notin conn)
    BY Zenon DEF NextPush
  <1>2. req[r].pc = "pushing" /\ UNCHANGED <<setting, conn, subscribers>>
    BY DEF NextPush, At_, sessions
  <1>3. Fields \subseteq DOMAIN req[r]
    BY DEF Places
  <1>4. /\ Fields \subseteq DOMAIN goes /\ goes.pc = req[r].pc
        /\ goes.prefix = req[r].prefix /\ goes.late = req[r].late
    BY <1>3, Zenon
  <1> HIDE DEF goes
  <1>5. /\ Fields \subseteq DOMAIN blocked /\ blocked.pc = goes.pc
        /\ blocked.prefix = goes.prefix /\ blocked.late = goes.late
    BY <1>4, Zenon
  <1>6. /\ Fields \subseteq DOMAIN fails /\ fails.pc = "failed"
        /\ fails.prefix = goes.prefix /\ fails.late = goes.late
    BY <1>4, Zenon
  <1>7. /\ Fields \subseteq DOMAIN takes /\ takes.pc = "push"
        /\ takes.prefix = goes.prefix /\ takes.late = goes.late
    BY <1>4, Zenon
  <1> HIDE DEF blocked, fails, takes
  <1>8. /\ Fields \subseteq DOMAIN x /\ x.prefix = req[r].prefix /\ x.late = req[r].late
        /\ x.pc \in {"pushing", "push"} \/ (x.pc = "failed" /\ By(r) \notin conn)
    BY <1>1, <1>2, <1>4, <1>5, <1>6, <1>7, SMTT(60)
  <1> QED
    BY <1>1, <1>2, <1>8, Kept, Zenon DEF Before, Within, Finished, OnlySubscribed, Places

\* Whatever the task of a request does next.
LEMMA Serves ==
    ASSUME Places, Registry, NEW r \in Requests, Serve(r)
    PROVE  Places' /\ Registry' /\ Narrows
  <1>1. CASE accept(r)
    <2>1. \E pc \in {"refused", "let in"} : Goes(r, pc)
      BY <1>1, Zenon DEF accept
    <2>2. /\ req[r].pc = "new"
          /\ UNCHANGED <<setting, conn, subscribers>>
      BY <1>1, Zenon DEF accept, At_, sessions
    <2> QED
      BY <2>1, <2>2, Steps, Zenon DEF Before, Within, Finished, OnlySubscribed, Places
  <1>2. CASE dispatch(r)
    <2>1. Kind(r) \in Kinds
      BY PrefixesAssumption DEF Places, Kind
    <2>2. /\ req[r].pc = "let in" /\ Goes(r, Kind(r))
          /\ UNCHANGED <<setting, conn, subscribers>>
      BY <1>2, Zenon DEF dispatch, At_, sessions
    <2> QED
      BY <2>1, <2>2, Steps, Zenon DEF Subscribes, Kinds, Before, Within, Finished, OnlySubscribed
  <1>3. CASE Reject(r)
    <2>1. /\ req[r].pc \in Kinds /\ Goes(r, "refused")
          /\ UNCHANGED <<setting, conn, subscribers>>
      BY <1>3 DEF Reject, sessions
    <2> QED
      BY <2>1, Steps, Zenon DEF Kinds, Before, Within, Finished, OnlySubscribed
  <1>4. CASE add_announced_track_namespace(r)
    <2>1. \E pc \in {"announced"} : Goes(r, pc)
      BY <1>4, Zenon DEF add_announced_track_namespace
    <2>2. /\ req[r].pc = "PublishNamespace"
          /\ UNCHANGED <<setting, conn, subscribers>>
      BY <1>4 DEF add_announced_track_namespace, At_, sessions
    <2> QED
      BY <2>1, <2>2, Steps, Zenon DEF Before, Within, Finished, OnlySubscribed, Places
  <1>5. CASE add_announcement(r)
    <2>1. \E pc \in {"stored"} : Goes(r, pc)
      BY <1>5, Zenon DEF add_announcement
    <2>2. /\ req[r].pc = "announced"
          /\ UNCHANGED <<setting, conn, subscribers>>
      BY <1>5 DEF add_announcement, At_, sessions
    <2> QED
      BY <2>1, <2>2, Steps, Zenon DEF Before, Within, Finished, OnlySubscribed, Places
  <1>6. CASE TellNamespace(r)
    <2>1. \E pc \in {"told"} : Goes(r, pc)
      BY <1>6, Zenon DEF TellNamespace
    <2>2. /\ req[r].pc = "stored"
          /\ UNCHANGED <<setting, conn, subscribers>>
      BY <1>6 DEF TellNamespace, At_, sessions
    <2> QED
      BY <2>1, <2>2, Steps, Zenon DEF Before, Within, Finished, OnlySubscribed, Places
  <1>7. CASE NamespaceOk(r)
    <2>1. \E pc \in {"serving", "failed"} : Goes(r, pc)
      BY <1>7, Zenon DEF NamespaceOk, RequestOk, Goes
    <2>2. /\ req[r].pc = "told"
          /\ UNCHANGED <<setting, conn, subscribers>>
      BY <1>7 DEF NamespaceOk, RequestOk, Goes, At_, sessions
    <2> QED
      BY <2>1, <2>2, Steps, Zenon DEF Before, Within, Finished, OnlySubscribed, Places
  <1>8. CASE CancelNamespace(r)
    <2>1. \E pc \in {"cancelled"} : Goes(r, pc)
      BY <1>8, Zenon DEF CancelNamespace, StreamEnds, Subscribes
    <2>2. /\ req[r].pc = "serving" /\ ~Subscribes(r)
          /\ UNCHANGED <<setting, conn, subscribers>>
      BY <1>8 DEF CancelNamespace, StreamEnds, Subscribes, At_, sessions
    <2> QED
      BY <2>1, <2>2, Steps, Zenon DEF Before, Within, Finished, OnlySubscribed, Places
  <1>9. CASE remove_announcement(r)
    <2>1. \E pc \in {"withdrawn", "ended"} : Goes(r, pc)
      BY <1>9, Zenon DEF remove_announcement
    <2>2. /\ req[r].pc = "cancelled"
          /\ UNCHANGED <<setting, conn, subscribers>>
      BY <1>9 DEF remove_announcement, At_, sessions
    <2> QED
      BY <2>1, <2>2, Steps, Zenon DEF Before, Within, Finished, OnlySubscribed, Places
  <1>10. CASE TellDone(r)
    <2>1. \E pc \in {"ended"} : Goes(r, pc)
      BY <1>10, Zenon DEF TellDone
    <2>2. /\ req[r].pc = "withdrawn"
          /\ UNCHANGED <<setting, conn, subscribers>>
      BY <1>10 DEF TellDone, At_, sessions
    <2> QED
      BY <2>1, <2>2, Steps, Zenon DEF Before, Within, Finished, OnlySubscribed, Places
  <1>11. CASE handle_subscribe_namespace(r)
    <2>1. \E pc \in {"refused", "clear"} : Goes(r, pc)
      BY <1>11, Zenon DEF handle_subscribe_namespace, CheckPrefix
    <2>2. /\ req[r].pc = "SubscribeNamespace"
          /\ UNCHANGED <<setting, conn, subscribers>>
      BY <1>11 DEF handle_subscribe_namespace, CheckPrefix, At_, sessions
    <2> QED
      BY <2>1, <2>2, Steps, Zenon DEF Before, Within, Finished, OnlySubscribed, Places
  <1>12. CASE handle_subscribe_tracks(r)
    <2>1. \E pc \in {"refused", "clear"} : Goes(r, pc)
      BY <1>12, Zenon DEF handle_subscribe_tracks, CheckPrefix
    <2>2. /\ req[r].pc = "SubscribeTracks"
          /\ UNCHANGED <<setting, conn, subscribers>>
      BY <1>12 DEF handle_subscribe_tracks, CheckPrefix, At_, sessions
    <2> QED
      BY <2>1, <2>2, Steps, Zenon DEF Before, Within, Finished, OnlySubscribed, Places
  <1>13. CASE Register(r)
    BY <1>13, Enters
  <1>14. CASE SubscribeOk(r)
    <2>1. Goes(r, "catching up") \/ (Goes(r, "failed") /\ By(r) \notin conn)
      BY <1>14, Zenon DEF SubscribeOk, RequestOk, Goes
    <2>2. req[r].pc = "registered" /\ UNCHANGED <<setting, conn, subscribers>>
      BY <1>14, Zenon DEF SubscribeOk, RequestOk, At_, sessions
    <2> QED
      BY <2>1, <2>2, Steps, Zenon DEF Before, Within, Finished, OnlySubscribed, Places
  <1>15. CASE send_namespace_catchup(r)
    <2>1. \/ Goes(r, "caught up") \/ Goes(r, "serving")
          \/ Goes(r, "failed") /\ By(r) \notin conn
      BY <1>15, Zenon DEF send_namespace_catchup
    <2>2. /\ req[r].pc \in {"catching up", "caught up"}
          /\ UNCHANGED <<setting, conn, subscribers>>
      BY <1>15, ZenonT(60) DEF send_namespace_catchup, At_, sessions
    <2> QED
      BY <2>1, <2>2, Steps, ZenonT(60) DEF Before, Within, Finished, OnlySubscribed, Places
  <1>16. CASE WriteNamespace(r)
    BY <1>16, Untouched DEF WriteNamespace, sessions
  <1>17. CASE ChannelDropped(r)
    <2>1. /\ req[r].pc = "serving" /\ Goes(r, "ended") /\ \A e \in subscribers : e.tx # r
          /\ UNCHANGED <<setting, conn, subscribers>>
      BY <1>17, SMTT(60) DEF ChannelDropped, At_, sessions
    <2> QED
      BY <2>1, Steps, Zenon DEF Before, Within, Finished, OnlySubscribed, Places
  <1>18. CASE apply_subscription_update(r)
    BY <1>18, Moves
  <1>19. CASE CancelPrefix(r)
    BY <1>19, Leaves
  <1>20. CASE get_or_create_track(r)
    <2> DEFINE x == [req[r] EXCEPT !.pc = "joining", !.created = ~track[At(r)].made]
    <2>1. req' = [req EXCEPT ![r] = x]
      BY <1>20, Zenon DEF get_or_create_track
    <2>2. /\ req[r].pc = "Publish"
          /\ UNCHANGED <<setting, conn, subscribers>>
      BY <1>20 DEF get_or_create_track, At_, sessions
    <2>3. /\ x.pc = "joining" /\ x.prefix = req[r].prefix /\ x.late = req[r].late
          /\ {"pc", "prefix", "next", "late"} \subseteq DOMAIN x
      <3>1. {"pc", "prefix", "next", "late"} \subseteq DOMAIN req[r]
        BY DEF Places
      <3> QED
        BY <3>1, Zenon
    <2> HIDE DEF x
    <2> QED
      BY <2>1, <2>2, <2>3, Kept, Zenon DEF Before, Within, Finished, OnlySubscribed, Places
  <1>21. CASE add_publisher(r)
    <2>1. \E pc \in {"joined"} : Goes(r, pc)
      BY <1>21, Zenon DEF add_publisher
    <2>2. /\ req[r].pc = "joining"
          /\ UNCHANGED <<setting, conn, subscribers>>
      BY <1>21, SMTT(60) DEF add_publisher, At_, sessions
    <2> QED
      BY <2>1, <2>2, Steps, Zenon DEF Before, Within, Finished, OnlySubscribed, Places
  <1>22. CASE add_publish_message(r)
    <2>1. \E pc \in {"pushes", "pushed"} : Goes(r, pc)
      BY <1>22, Zenon DEF add_publish_message
    <2>2. /\ req[r].pc = "joined"
          /\ UNCHANGED <<setting, conn, subscribers>>
      BY <1>22, SMTT(60) DEF add_publish_message, At_, sessions
    <2> QED
      BY <2>1, <2>2, Steps, Zenon DEF Before, Within, Finished, OnlySubscribed, Places
  <1>23. CASE ToPush(r)
    <2>1. PICK t : req' = [req EXCEPT ![r].pc = "pushing", ![r].todo = t]
      BY <1>23, Zenon DEF ToPush
    <2> DEFINE x == [req[r] EXCEPT !.pc = "pushing", !.todo = t]
    <2>2. req' = [req EXCEPT ![r] = x]
      BY <2>1, Zenon
    <2>3. /\ req[r].pc \in {"pushes", "catching up"}
          /\ UNCHANGED <<setting, conn, subscribers>>
      BY <1>23, Zenon DEF ToPush, At_, sessions
    <2>4. /\ x.pc = "pushing" /\ x.prefix = req[r].prefix /\ x.late = req[r].late
          /\ {"pc", "prefix", "next", "late"} \subseteq DOMAIN x
      <3>1. {"pc", "prefix", "next", "late"} \subseteq DOMAIN req[r]
        BY DEF Places
      <3> QED
        BY <3>1, ZenonT(60)
    <2> HIDE DEF x
    <2> QED
      BY <2>2, <2>3, <2>4, Kept, Zenon DEF Before, Within, Finished, OnlySubscribed, Places
  <1>24. CASE push_track_to_subscriber(r)
    <2> DEFINE x == [req[r] EXCEPT !.pc = "raise", !.pushed = @ + 1]
    <2>1. req' = [req EXCEPT ![r] = x]
      BY <1>24, ZenonT(60) DEF push_track_to_subscriber
    <2>2. /\ req[r].pc = "push"
          /\ UNCHANGED <<setting, conn, subscribers>>
      BY <1>24, Zenon DEF push_track_to_subscriber, At_, sessions
    <2>3. /\ x.pc = "raise" /\ x.prefix = req[r].prefix /\ x.late = req[r].late
          /\ {"pc", "prefix", "next", "late"} \subseteq DOMAIN x
      <3>1. {"pc", "prefix", "next", "late"} \subseteq DOMAIN req[r]
        BY DEF Places
      <3> QED
        BY <3>1, ZenonT(60)
    <2> HIDE DEF x
    <2> QED
      BY <2>1, <2>2, <2>3, Kept, Zenon DEF Before, Within, Finished, OnlySubscribed, Places
  <1>25. CASE RaiseForPush(r)
    <2> DEFINE x == [req[r] EXCEPT !.pc = "pushing", !.to = <<>>]
    <2>1. req' = [req EXCEPT ![r] = x]
      BY <1>25, Zenon DEF RaiseForPush
    <2>2. /\ req[r].pc = "raise"
          /\ UNCHANGED <<setting, conn, subscribers>>
      BY <1>25 DEF RaiseForPush, At_, sessions
    <2>3. /\ x.pc = "pushing" /\ x.prefix = req[r].prefix /\ x.late = req[r].late
          /\ {"pc", "prefix", "next", "late"} \subseteq DOMAIN x
      <3>1. {"pc", "prefix", "next", "late"} \subseteq DOMAIN req[r]
        BY DEF Places
      <3> QED
        BY <3>1, Zenon
    <2> HIDE DEF x
    <2> QED
      BY <2>1, <2>2, <2>3, Kept, Zenon DEF Before, Within, Finished, OnlySubscribed, Places
  <1>26. CASE PushedAll(r)
    <2>1. \/ Goes(r, "pushed") /\ ~Subscribes(r)
          \/ Goes(r, "serving")
      BY <1>26, Zenon DEF PushedAll, Subscribes
    <2>2. req[r].pc = "pushing" /\ UNCHANGED <<setting, conn, subscribers>>
      BY <1>26 DEF PushedAll, At_, sessions
    <2> QED
      BY <2>1, <2>2, Steps, Zenon DEF Before, Within, Finished, OnlySubscribed, Places
  <1>27. CASE PublishOk(r)
    <2>1. \E pc \in {"accepted", "failed"} : Goes(r, pc)
      BY <1>27, Zenon DEF PublishOk, RequestOk, Goes
    <2>2. /\ req[r].pc = "pushed"
          /\ UNCHANGED <<setting, conn, subscribers>>
      BY <1>27 DEF PublishOk, RequestOk, Goes, At_, sessions
    <2> QED
      BY <2>1, <2>2, Steps, Zenon DEF Before, Within, Finished, OnlySubscribed, Places
  <1>28. CASE RaiseAfterOk(r)
    <2>1. \E pc \in {"serving"} : Goes(r, pc)
      BY <1>28, Zenon DEF RaiseAfterOk
    <2>2. /\ req[r].pc = "accepted"
          /\ UNCHANGED <<setting, conn, subscribers>>
      BY <1>28 DEF RaiseAfterOk, At_, sessions
    <2> QED
      BY <2>1, <2>2, Steps, Zenon DEF Before, Within, Finished, OnlySubscribed, Places
  <1>29. CASE cleanup_published_track(r)
    <2>1. \E pc \in {"ended"} : Goes(r, pc)
      BY <1>29, Zenon DEF cleanup_published_track, StreamEnds, Subscribes
    <2>2. /\ req[r].pc = "serving" /\ ~Subscribes(r)
          /\ UNCHANGED <<setting, conn, subscribers>>
      BY <1>29 DEF cleanup_published_track, StreamEnds, Subscribes, At_, sessions
    <2> QED
      BY <2>1, <2>2, Steps, Zenon DEF Before, Within, Finished, OnlySubscribed, Places
  <1>30. CASE ClosePublish(r)
    <2>1. \E pc \in {"ended"} : Goes(r, pc)
      BY <1>30, Zenon DEF ClosePublish, StreamEnds, Subscribes
    <2>2. /\ req[r].pc = "serving" /\ ~Subscribes(r)
          /\ UNCHANGED <<setting, conn, subscribers>>
      BY <1>30 DEF ClosePublish, StreamEnds, Subscribes, At_, sessions
    <2> QED
      BY <2>1, <2>2, Steps DEF Before, Within, Finished, OnlySubscribed, Places
  <1>31. ASSUME NEW p \in req[r].todo, NextPush(r, p) PROVE Places' /\ Registry' /\ Narrows
    BY <1>31, Pushes, SMTT(60)
  <1>32. ASSUME NEW p \in setting.moves, UpdatePrefix(r, p) PROVE Places' /\ Registry' /\ Narrows
    <2> DEFINE x == [req[r] EXCEPT !.pc = "moving", !.next = p]
    <2>1. req' = [req EXCEPT ![r] = x]
      BY <1>32, Zenon DEF UpdatePrefix, Subscribes
    <2>2. /\ req[r].pc = "serving" /\ Subscribes(r)
          /\ UNCHANGED <<setting, conn, subscribers>>
      BY <1>32 DEF UpdatePrefix, Subscribes, At_, sessions
    <2>3. /\ x.pc = "moving" /\ x.prefix = req[r].prefix /\ x.late = req[r].late
          /\ {"pc", "prefix", "next", "late"} \subseteq DOMAIN x
      <3>1. {"pc", "prefix", "next", "late"} \subseteq DOMAIN req[r]
        BY DEF Places
      <3> QED
        BY <3>1, Zenon
    <2> HIDE DEF x
    <2> QED
      BY <2>1, <2>2, <2>3, Kept, Zenon DEF Before, Within, Finished, OnlySubscribed, Places
  <1>33. CASE UpdateForward(r)
    <2>1. /\ req[r].pc = "serving" /\ Goes(r, "updating") /\ Subscribes(r)
          /\ UNCHANGED <<setting, conn, subscribers>>
      BY <1>33 DEF UpdateForward, At_, sessions, Subscribes
    <2> QED
      BY <2>1, Steps, Zenon DEF Before, Within, Finished, OnlySubscribed, Places
  <1>34. CASE update_namespace_subscription_parameters(r)
    <2>1. Goes(r, "rekeying") \/ Goes(r, "serving")
      BY <1>34, Zenon DEF update_namespace_subscription_parameters, WriteParameters
    <2>2. /\ req[r].pc \in {"moving", "updating"}
          /\ UNCHANGED <<setting, conn, subscribers>>
      BY <1>34, ZenonT(60)
      DEF update_namespace_subscription_parameters, WriteParameters, At_, sessions
    <2> QED
      BY <2>1, <2>2, Steps, ZenonT(60) DEF Before, Within, Finished, OnlySubscribed, Places
  <1> QED
    BY <1>1, <1>2, <1>3, <1>4, <1>5, <1>6, <1>7, <1>8, <1>9, <1>10, <1>11, <1>12,
       <1>13, <1>14, <1>15, <1>16, <1>17, <1>18, <1>19, <1>20, <1>21, <1>22, <1>23,
       <1>24, <1>25, <1>26, <1>27, <1>28, <1>29, <1>30, <1>31, <1>32, <1>33, <1>34,
       ZenonT(60)
    DEF Serve

\* A session closes, or a pushed track goes on: no request of a client still there
\* loses its entry.
LEMMA Closes ==
    ASSUME Agrees, NEW c \in Clients, Close(c)
    PROVE  Places' /\ Registry' /\ Narrows
  <1>1. CASE remove_namespace_subscriber(c)
    BY <1>1, Forgets
  <1>2. CASE ~remove_namespace_subscriber(c)
    <2>1. UNCHANGED <<setting, req, subscribers>> /\ conn' \subseteq conn
      BY <1>2, Zenon DEF Close, Disconnect, ClosePublishers, remove_announcements_by_connection,
                  CloseForgets, CloseTells, forward_publish_downstream, apply_pushed_update,
                  end_pushed_subscription, sessions
    <2> QED
      BY <2>1, Untouched, SMTT(60) DEF Agrees
  <1> QED
    BY <1>1, <1>2

\* A session closes step by step, and only after its client has gone.
LEMMA SessionsKept ==
    ASSUME Sessions, [Next]_vars
    PROVE  Sessions'
  <1>1. CASE UNCHANGED vars
    BY <1>1 DEF Sessions, vars
  <1>2. CASE Drain
    BY <1>2 DEF Drain, Sessions
  <1>3. ASSUME NEW r \in Requests, Serve(r) PROVE Sessions'
    <2>1. UNCHANGED <<conn, closing>>
      BY <1>3, Zenon DEF Serve, accept, dispatch, Reject, RequestOk, add_announced_track_namespace,
         add_announcement, TellNamespace, NamespaceOk, CancelNamespace, remove_announcement,
         TellDone, CheckPrefix, handle_subscribe_namespace, handle_subscribe_tracks, Register,
         SubscribeOk, send_namespace_catchup, WriteNamespace, ChannelDropped, UpdatePrefix,
         UpdateForward, update_namespace_subscription_parameters, WriteParameters,
         apply_subscription_update, CancelPrefix, get_or_create_track, add_publisher,
         add_publish_message, ToPush, NextPush, push_track_to_subscriber, RaiseForPush,
         PushedAll, PublishOk, RaiseAfterOk, cleanup_published_track, ClosePublish, sessions
    <2> QED
      BY <2>1, SMTT(60) DEF Sessions
  <1>4. ASSUME NEW c \in Clients, Close(c) PROVE Sessions'
    <2>1. CASE UNCHANGED <<conn, closing>>
      BY <2>1 DEF Sessions
    <2>2. CASE Disconnect(c)
      BY <2>2 DEF Disconnect, Sessions, Closings
    <2>3. CASE ClosePublishers(c)
      BY <2>3 DEF ClosePublishers, Sessions, Closings
    <2>4. CASE remove_announcements_by_connection(c)
      BY <2>4 DEF remove_announcements_by_connection, Sessions, Closings
    <2>5. ASSUME NEW n \in Namespaces, CloseTells(c, n) PROVE Sessions'
      BY <2>5 DEF CloseTells, Sessions, Closings
    <2>6. CASE remove_namespace_subscriber(c)
      BY <2>6, SMTT(60) DEF remove_namespace_subscriber, Sessions, Closings
    <2>7. CASE CloseForgets(c)
      BY <2>7, Zenon DEF CloseForgets, Sessions, Closings
    <2>8. ASSUME NEW n \in Namespaces,
                 \/ forward_publish_downstream(c, n) \/ apply_pushed_update(c, n)
                 \/ end_pushed_subscription(c, n)
          PROVE  UNCHANGED <<conn, closing>>
      BY <2>8 DEF forward_publish_downstream, apply_pushed_update, end_pushed_subscription,
                  sessions
    <2> QED
      BY <1>4, <2>1, <2>2, <2>3, <2>4, <2>5, <2>6, <2>7, <2>8 DEF Close
  <1> QED
    BY <1>1, <1>2, <1>3, <1>4 DEF Next

\* An update of the parameters reaches the entry of the request that was updated.
LEMMA Writes ==
    ASSUME Agrees, Narrows, setting' = setting, NEW r \in Requests,
           update_namespace_subscription_parameters(r)
    PROVE  Parameters'
  <1> DEFINE found == {e \in subscribers : e.prefix = req[r].prefix /\ e.by = By(r)}
             others == {e \in found : e.kind # SubscribeKind(r)}
  <1>1. /\ \A s : Subscribes(s)' = Subscribes(s) /\ By(s)' = By(s)
        /\ \A s : SubscribeKind(s)' = SubscribeKind(s)
    BY DEF Subscribes, By, SubscribeKind, Kind
  <1>2. /\ req[r].pc \in Within /\ Subscribes(r)
        /\ \/ params' = params
           \/ \E tx \in IF found = {} THEN {{}} ELSE {{e.tx} : e \in found} :
                 params' = [asked  |-> params.asked \cup {r},
                            kept   |-> params.kept \cup tx,
                            beside |-> params.beside \cup {e.by : e \in others}]
    <2>1. req[r].pc \in {"moving", "updating"}
      BY ZenonT(60) DEF update_namespace_subscription_parameters, WriteParameters, At_
    <2>2. req[r].pc \in Within /\ Subscribes(r)
      BY <2>1, Zenon DEF Agrees, Places, Within, OnlySubscribed
    <2> QED
      BY <2>2, Zenon DEF update_namespace_subscription_parameters, WriteParameters
  <1>3. CASE params' = params
    BY <1>1, <1>3 DEF Agrees, Parameters, Narrows
  <1>4. ASSUME NEW tx \in IF found = {} THEN {{}} ELSE {{e.tx} : e \in found},
               params' = [asked  |-> params.asked \cup {r},
                          kept   |-> params.kept \cup tx,
                          beside |-> params.beside \cup {e.by : e \in others}]
        PROVE  Parameters'
    <2> SUFFICES ASSUME NEW s \in Requests, Subscribes(s)', Counts(By(s), SubscribeKind(s))',
                        By(s)' \notin params'.beside
                 PROVE  s \in params'.kept <=> s \in params'.asked
      BY DEF Parameters
    <2>1. /\ params'.asked = params.asked \cup {r}
          /\ params'.kept = params.kept \cup tx
          /\ params'.beside = params.beside \cup {e.by : e \in others}
      BY <1>4
    <2>2. /\ Subscribes(s) /\ Counts(By(s), SubscribeKind(s))
          /\ By(s) \notin params.beside
          /\ \A e \in others : e.by # By(s)
      <3>1. Counts(By(s), SubscribeKind(s))
        BY <1>1 DEF Narrows
      <3> HIDE DEF others
      <3> QED
        BY <1>1, <2>1, <3>1
    <2>3. s \in params.kept <=> s \in params.asked
      BY <2>2 DEF Agrees, Parameters
    <2>4. \A e \in found : e.by = By(r) /\ By(e.tx) = By(r) /\ SubscribeKind(e.tx) = e.kind
      BY DEF Agrees, Registry
    <2>5. ASSUME By(s) = By(r), SubscribeKind(s) = SubscribeKind(r) PROVE tx = {r}
      <3>1. /\ Own(r) \in subscribers /\ Own(r).prefix = req[r].prefix
            /\ Own(r).by = By(r) /\ Own(r).kind = SubscribeKind(r) /\ Own(r).tx = r
        BY <1>2, <2>2, <2>5 DEF Agrees, Registry, Own, Entry
      <3>2. \A e \in found : e.kind = SubscribeKind(r)
        BY <2>2, <2>4, <2>5
      <3>3. Own(r) \in found
        BY <3>1
      <3>4. \A e \in found : e = Own(r)
        BY <2>2, <2>5, <3>1, <3>2 DEF Agrees, Registry
      <3> HIDE DEF found
      <3> QED
        BY <3>1, <3>3, <3>4
    <2>6. CASE s = r
      BY <2>1, <2>5, <2>6
    <2>7. CASE s # r
      <3>1. s \notin tx
        <4>1. ASSUME s \in tx PROVE FALSE
          <5>1. PICK e \in found : tx = {e.tx}
            <6> HIDE DEF found
            <6> QED
              BY <4>1
          <5>2. e.tx = s
            BY <4>1, <5>1
          <5>3. By(s) = By(r) /\ SubscribeKind(s) = e.kind /\ e.by = By(r)
            BY <2>4, <5>2
          <5>4. e.kind = SubscribeKind(r)
            BY <2>2, <5>3
          <5> QED
            BY <2>5, <2>7, <5>1, <5>2, <5>3, <5>4
        <4> QED
          BY <4>1
      <3> QED
        BY <2>1, <2>3, <2>7, <3>1
    <2> QED
      BY <2>6, <2>7
  <1> QED
    BY <1>2, <1>3, <1>4

\* Nothing else touches what the registry keeps of the parameters.
LEMMA ParametersKept ==
    ASSUME Agrees, [Next]_vars, Narrows
    PROVE  Parameters'
  <1>1. CASE setting' = setting /\ params' = params
    <2>1. /\ \A s : Subscribes(s)' = Subscribes(s) /\ By(s)' = By(s)
          /\ \A s : SubscribeKind(s)' = SubscribeKind(s)
      BY <1>1 DEF Subscribes, By, SubscribeKind, Kind
    <2> QED
      BY <1>1, <2>1 DEF Agrees, Parameters, Narrows
  <1>2. CASE UNCHANGED vars
    BY <1>1, <1>2 DEF vars
  <1>3. CASE Drain
    BY <1>1, <1>3 DEF Drain
  <1>4. ASSUME NEW c \in Clients, Close(c) PROVE Parameters'
    <2>1. setting' = setting /\ params' = params
      BY <1>4, Zenon DEF Close, Disconnect, ClosePublishers, remove_announcements_by_connection,
                  CloseForgets, CloseTells, forward_publish_downstream, apply_pushed_update,
                  end_pushed_subscription, remove_namespace_subscriber, sessions
    <2> QED
      BY <1>1, <2>1
  <1>5. ASSUME NEW r \in Requests, Serve(r) PROVE Parameters'
    <2>1. setting' = setting /\ (params' = params \/ update_namespace_subscription_parameters(r))
      BY <1>5, Zenon DEF Serve, accept, dispatch, Reject, RequestOk, add_announced_track_namespace,
         add_announcement, TellNamespace, NamespaceOk, CancelNamespace, remove_announcement,
         TellDone, CheckPrefix, handle_subscribe_namespace, handle_subscribe_tracks, Register,
         SubscribeOk, send_namespace_catchup, WriteNamespace, ChannelDropped, UpdatePrefix,
         UpdateForward, update_namespace_subscription_parameters, WriteParameters,
         apply_subscription_update, CancelPrefix, get_or_create_track, add_publisher,
         add_publish_message, ToPush, NextPush, push_track_to_subscriber, RaiseForPush,
         PushedAll, PublishOk, RaiseAfterOk, cleanup_published_track, ClosePublish, sessions
    <2> QED
      BY <1>1, <1>5, <2>1, Writes
  <1> QED
    BY <1>2, <1>3, <1>4, <1>5 DEF Next

\* Whatever the handlers of SUBSCRIBE_NAMESPACE and SUBSCRIBE_TRACKS, their updates and
\* their cancellation do against each other and against closing sessions, an entry of
\* the registry is the one its request would move or take out, unless two requests of
\* one client passed the overlap check at once; and it keeps the FORWARD last asked for,
\* unless its client updated parameters at a prefix where it had entries of both kinds.
THEOREM RegistryServes == Spec => []RegisteredIsServed
  <1>1. Init => Agrees
    BY AgreesInit
  <1>2. Agrees /\ [Next]_vars => Agrees'
    <2> SUFFICES ASSUME Agrees, [Next]_vars PROVE Agrees'
      OBVIOUS
    <2>1. Sessions'
      BY SessionsKept DEF Agrees
    <2>2. ASSUME UNCHANGED vars PROVE Places' /\ Registry' /\ Narrows
      BY <2>2, Untouched DEF Agrees, vars
    <2>3. ASSUME Drain PROVE Places' /\ Registry' /\ Narrows
      BY <2>3, Untouched DEF Agrees, Drain
    <2>4. ASSUME NEW r \in Requests, Serve(r) PROVE Places' /\ Registry' /\ Narrows
      BY <2>4, Serves DEF Agrees
    <2>5. ASSUME NEW c \in Clients, Close(c) PROVE Places' /\ Registry' /\ Narrows
      BY <2>5, Closes
    <2>6. Places' /\ Registry' /\ Narrows
      BY <2>2, <2>3, <2>4, <2>5 DEF Next
    <2>7. Parameters'
      BY <2>6, ParametersKept
    <2> QED
      BY <2>1, <2>6, <2>7 DEF Agrees
  <1>3. Agrees => RegisteredIsServed
    BY AgreesSuffices
  <1> QED
    BY <1>1, <1>2, <1>3, PTL DEF Spec
============================================================================
