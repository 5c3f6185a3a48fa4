---------------------------- MODULE DaemonProofs ----------------------------
(***************************************************************************)
(* Proofs about a daemon's surface and about the commands that start and   *)
(* stop daemons.                                                           *)
(*                                                                         *)
(* Surface: whatever the account directory answers, however late, and      *)
(* whichever call raises, a connection's chains tell who it is, its        *)
(* requests are served under an identity no staler than a lifetime, and    *)
(* each of them is answered once.  SurfaceInv is inductive.  A handler is  *)
(* judged by itself (HandlerInv), with its chains (ChainShape) and with    *)
(* the consultations of the pool (JobShape).  A step of a thread changes   *)
(* one handler: the lemmas that end in Keeps show what the other           *)
(* connections keep once, in ServingKeeps for a step that neither waits    *)
(* nor records and in OutcomeKeeps for one that ends a wait or writes, and *)
(* each action adds what it makes of its own connection.                   *)
(*                                                                         *)
(* Quickstart: QuickInv is inductive.  A step is a birth, a step of a      *)
(* life, or a step of a command.  Lives age (Ages): what was born keeps    *)
(* its process id and nobody comes to life again, so that what was owed to *)
(* a child was owed before (OwedBefore).  MoveKeeps and PerishKeeps take   *)
(* the steps of a life, CommandStepKeeps those of a command: its own place *)
(* must fit the lock and its child (InPlace), the children of the others   *)
(* must stay, and the record must stay (RecordStays) or be owed to nobody  *)
(* (RecordGoes).                                                           *)
(***************************************************************************)
EXTENDS Surface, Quickstart, SequenceTheorems, FiniteSetTheorems, TLAPS

Env ==
  /\ clock \in 0..Horizon /\ clock \in Nat /\ dir \in Answers /\ changes \in 0..MaxChanges
  /\ revoked \in Nat \cup {None} /\ stopped \in BOOLEAN
Jobs == [conn : Conns, live : BOOLEAN, stage : {"queued", "admitted"},
         admitted : BOOLEAN, answer : Answers \cup {None}]
Chains == [Scopes -> Seq(Records)]

(* The type of every variable, in groups.                                  *)
LEMMA TypeGroups ==
  TypeOK <=> /\ Env /\ jobs \in Seq(Jobs) /\ conn \in [Conns -> Handlers]
             /\ chain \in [Conns -> Chains]
<1>1. Horizon \in Nat
  BY SurfaceAssumption
<1>2. QED
  BY <1>1 DEF TypeOK, Env, Jobs, Chains

(* The same of the next state.                                             *)
LEMMA TypeGroupsNext ==
  TypeOK' <=> /\ Env' /\ jobs' \in Seq(Jobs) /\ conn' \in [Conns -> Handlers]
              /\ chain' \in [Conns -> Chains]
<1>1. Horizon \in Nat
  BY SurfaceAssumption
<1>2. QED
  BY <1>1 DEF TypeOK, Env, Jobs, Chains

(* What is put in place of a handler is the only thing that changes.       *)
LEMMA Placing ==
  ASSUME conn \in [Conns -> Handlers], NEW c \in Conns, NEW h \in Handlers,
         conn' = [conn EXCEPT ![c] = h]
  PROVE  /\ conn' \in [Conns -> Handlers] /\ conn'[c] = h
         /\ \A d \in Conns : d # c => conn'[d] = conn[d]
  BY Zenon

(* A handler is as good at the next instant if neither the clock nor the   *)
(* directory's revocation has moved.                                       *)
LEMMA SameInstant ==
  ASSUME NEW h, HandlerInv(h), UNCHANGED <<clock, revoked>>
  PROVE  HandlerInv(h)'
  BY DEF HandlerInv, Timely, RequestShape, IdentityShape, AnsweredOnce, AnswerFollows

(* The identities the operations on a connection's identity give.          *)
LEMMA IdentityTypes ==
  /\ \A peer \in Peers \cup {None} :
       ConnectionIdentity(peer) \in Identities
  /\ \A id \in Identities, at \in Nat :
       /\ mark_unknown(id, at) \in Identities /\ begin_request(id) \in Identities
       /\ \A p \in Principals : bind(id, p, at) \in Identities
       /\ \A code \in Refusals : refuse(id, code) \in Identities
       /\ \A s \in Scopes : Touched(id, s) \in Identities
<1>1. Lifetime \in Nat /\ {} \in SUBSET Scopes
  BY IdentityAssumption
<1>2. \A peer \in Peers \cup {None} : ConnectionIdentity(peer) \in Identities
  BY <1>1 DEF ConnectionIdentity, Identities
<1>3. ASSUME NEW id \in Identities, NEW at \in Nat
      PROVE  /\ mark_unknown(id, at) \in Identities /\ begin_request(id) \in Identities
             /\ \A p \in Principals : bind(id, p, at) \in Identities
             /\ \A code \in Refusals : refuse(id, code) \in Identities
             /\ \A s \in Scopes : Touched(id, s) \in Identities
  <2>1. mark_unknown(id, at) \in Identities
    <3>1. at + Lifetime \in Nat /\ id.begun \in Nat
      BY <1>1, <1>3 DEF Identities
    <3>2. QED
      BY <1>3, <3>1 DEF mark_unknown, Identities
  <2>2. begin_request(id) \in Identities
    BY <1>1, <1>3 DEF begin_request, Identities
  <2>3. \A p \in Principals : bind(id, p, at) \in Identities
    <3>1. at + Lifetime \in Nat
      BY <1>1
    <3>2. QED
      BY <1>3, <3>1 DEF bind, Identities
  <2>4. \A code \in Refusals : refuse(id, code) \in Identities
    BY <1>1, <1>3 DEF refuse, Identities
  <2>5. \A s \in Scopes : Touched(id, s) \in Identities
    BY <1>1, <1>3 DEF Touched, Identities
  <2>6. QED
    BY <2>1, <2>2, <2>3, <2>4, <2>5
<1>4. QED
  BY <1>2, <1>3

(* A handler with another phase is a handler.                              *)
LEMMA HandlerTypes ==
  ASSUME NEW h \in Handlers
  PROVE  /\ \A id \in Identities : [h EXCEPT !.id = id] \in Handlers
         /\ \A phase \in Phases : [h EXCEPT !.phase = phase] \in Handlers
         /\ EndOfRequest(h) \in Handlers /\ Close(h) \in Handlers
         /\ \A code : Kept(code) \in Replies =>
              Sent(h, code) \in Handlers /\ Reply(h, code) \in Handlers
<1>1. \A id \in Identities : [h EXCEPT !.id = id] \in Handlers
  BY DEF Handlers
<1>2. \A phase \in Phases : [h EXCEPT !.phase = phase] \in Handlers
  BY DEF Handlers
<1>3. ASSUME NEW g \in Handlers PROVE EndOfRequest(g) \in Handlers
  BY DEF Handlers, EndOfRequest, Phases
<1>4. Close(h) \in Handlers
  BY DEF Handlers, Close
<1>5. ASSUME NEW code, Kept(code) \in Replies PROVE Sent(h, code) \in Handlers
  <2>1. h.replies + 1 \in Nat
    BY DEF Handlers
  <2>2. QED
    BY <1>5, <2>1 DEF Handlers, Sent
<1>6. QED
  BY <1>1, <1>2, <1>3, <1>4, <1>5, Zenon DEF Reply

(* What an answer leaves of its handler.                                   *)
LEMMA Replying ==
  ASSUME NEW h \in Handlers, NEW code
  PROVE  LET g == Reply(h, code)
         IN  /\ g.phase = IF h.closing THEN "finish" ELSE "idle"
             /\ g.answered /\ g.replies = h.replies + 1 /\ g.reply = Kept(code)
             /\ g.id = h.id /\ g.after = h.after /\ g.asked = h.asked /\ g.closing = h.closing
             /\ g.defect = h.defect /\ g.requests = h.requests /\ g.unread = h.unread
             /\ g.begunAt = h.begunAt /\ g.failed = h.failed
  BY DEF Handlers, Reply, EndOfRequest, Sent

(* What a handler writes on a connection's chains, it writes nowhere else. *)
Wrote(ch, c, S, r) ==
  /\ ch \in [Conns -> Chains]
  /\ \A d \in Conns : d # c => ch[d] = chain[d]
  /\ \A s \in Scopes : ch[c][s] = IF s \in S THEN Append(chain[c][s], r) ELSE chain[c][s]

(* AppendTo writes so.                                                     *)
LEMMA Appending ==
  ASSUME chain \in [Conns -> Chains], NEW c \in Conns, NEW S, S \subseteq Scopes,
         NEW r, r \in Records, NEW ch, ch = AppendTo(chain, c, S, r)
  PROVE  Wrote(ch, c, S, r)
<1> DEFINE f == [s \in Scopes |-> IF s \in S THEN Append(chain[c][s], r) ELSE chain[c][s]]
<1>1. ch = [chain EXCEPT ![c] = f]
  BY Zenon DEF AppendTo
<1>2. f \in Chains
  <2>1. ASSUME NEW s \in Scopes PROVE f[s] \in Seq(Records)
    <3>1. chain[c][s] \in Seq(Records)
      BY DEF Chains
    <3>2. Append(chain[c][s], r) \in Seq(Records)
      BY <3>1, AppendProperties
    <3>3. QED
      BY <3>1, <3>2
  <2>2. QED
    BY <2>1 DEF Chains
<1>3. \A s \in Scopes : f[s] = IF s \in S THEN Append(chain[c][s], r) ELSE chain[c][s]
  OBVIOUS
<1> HIDE DEF f
<1>4. ch[c] = f
  BY <1>1, Zenon
<1>5. QED
  BY <1>1, <1>2, <1>3, <1>4, Zenon DEF Wrote

(* A chain that was opened and says one change more tells it.              *)
LEMMA OneMoreChange ==
  ASSUME NEW told \in Seq(Records), NEW id, NEW s, Tells(told, id, s),
         NEW r \in Records, r.kind = "changed", NEW next,
         next.principal # None => r.principal = next.principal,
         (next.refusal = "peer_not_admitted" /\ r.principal # None) =>
             ~admit(next.peer, IF r.principal.named THEN r.principal.groups ELSE None)
  PROVE  Tells(Append(told, r), next, s) /\ Last(Append(told, r)) = r
<1> DEFINE a == Append(told, r)
<1>1. /\ Len(a) = Len(told) + 1 /\ Len(told) \in Nat /\ a \in Seq(Records)
      /\ \A i \in 1..Len(told) : a[i] = told[i]
      /\ a[Len(told) + 1] = r
  BY AppendProperties
<1> HIDE DEF a
<1>2. Len(told) >= 1 /\ a # <<>>
  <2>1. told # <<>>
    BY DEF Tells
  <2>2. Len(told) # 0 /\ Len(<<>>) = 0
    BY <2>1, EmptySeq
  <2>3. QED
    BY <1>1, <2>2
<1>3. Last(a) = r
  BY <1>1 DEF Last
<1>4. a[1].kind = "opened"
  <2>1. told[1].kind = "opened"
    BY DEF Tells
  <2>2. QED
    BY <1>1, <1>2, <2>1
<1>5. \A i \in 2..Len(a) : a[i].kind = "changed"
  <2>1. \A i \in 2..Len(told) : told[i].kind = "changed"
    BY DEF Tells
  <2>2. QED
    BY <1>1, <2>1
<1>6. Tells(a, next, s)
  BY <1>2, <1>3, <1>4, <1>5, Zenon DEF Tells
<1>7. QED
  BY <1>3, <1>6 DEF a

(* A chain that opens tells what it was opened with.                       *)
LEMMA Opening ==
  ASSUME NEW id, NEW s, id.principal # None \/ s = "local",
         id.refusal = "peer_not_admitted" => id.principal = None
  PROVE  /\ Tells(Append(<<>>, Opened(id)), id, s)
         /\ Last(Append(<<>>, Opened(id))) = Opened(id)
<1> DEFINE a == Append(<<>>, Opened(id))
<1>1. a = <<Opened(id)>>
  OBVIOUS
<1>2. Len(a) = 1 /\ a[1] = Opened(id) /\ a # <<>>
  BY <1>1
<1>3. Opened(id).kind = "opened" /\ Opened(id).principal = id.principal
  BY DEF Opened
<1> HIDE DEF a
<1>4. Last(a) = Opened(id)
  BY <1>2 DEF Last
<1>5. \A i \in 2..Len(a) : a[i].kind = "changed"
  BY <1>2
<1>6. Tells(a, id, s)
  BY <1>2, <1>3, <1>4, <1>5, Zenon DEF Tells
<1>7. QED
  BY <1>3, <1>4, <1>6 DEF a

(* What a chain says is the same whatever an identity changes but whom it  *)
(* names, why it is refused and what it touched.                           *)
LEMMA SameTelling ==
  ASSUME NEW h, NEW g, NEW records, ChainShape(h, records),
         h.phase # "closed", g.phase # "closed",
         g.id.peer = h.id.peer, g.id.principal = h.id.principal,
         g.id.refusal = h.id.refusal, g.id.touched = h.id.touched,
         g.id.status = "refused" <=> h.id.status = "refused"
  PROVE  ChainShape(g, records)
<1>1. /\ \A told, s : Tells(told, h.id, s) => Tells(told, g.id, s)
      /\ Opened(g.id) = Opened(h.id)
  BY DEF Tells, Opened
<1>2. QED
  BY <1>1 DEF ChainShape

(* A record that the connection closed is not told.                        *)
LEMMA ClosingTold ==
  ASSUME NEW told \in Seq(Records)
  PROVE  Told(Append(told, Closed)) = told
<1>1. Closed \in Records /\ Closed.kind = "closed"
  BY DEF Closed, Records
<1> DEFINE a == Append(told, Closed)
<1>2. /\ a \in Seq(Records) /\ Len(a) = Len(told) + 1 /\ Len(told) \in Nat
      /\ \A i \in 1..Len(told) : a[i] = told[i]
      /\ a[Len(told) + 1] = Closed
  BY <1>1, AppendProperties
<1> HIDE DEF a
<1>3. a # <<>> /\ Last(a).kind = "closed"
  <2>1. Len(a) # 0
    BY <1>2
  <2>2. QED
    BY <1>1, <1>2, <2>1, EmptySeq DEF Last
<1>4. Front(a) = told
  <2>1. Front(a) = SubSeq(a, 1, Len(told))
    BY <1>2 DEF Front
  <2>2. /\ SubSeq(a, 1, Len(told)) \in Seq(Records)
        /\ Len(SubSeq(a, 1, Len(told))) = Len(told)
        /\ \A i \in 1..Len(told) : SubSeq(a, 1, Len(told))[i] = a[i]
    BY <1>2, SubSeqProperties
  <2>3. QED
    BY <1>2, <2>1, <2>2, SeqEqual
<1>5. QED
  BY <1>3, <1>4 DEF Told, a

(* What is remembered of each answer.                                      *)
LEMMA KeptCodes ==
  /\ Kept("internal") = "internal" /\ Kept("decided") = "decided"
  /\ Kept("request_malformed") = "about_the_request"
  /\ \A code \in Refusals : Kept(code) = code
  /\ \A code \in Codes :
       Kept(code) = IF code \in AboutTheIdentity THEN code ELSE "about_the_request"
  BY DEF Kept, Codes, AboutTheIdentity, Refusals, Generations, SchemaVerdicts

(* A thread that neither waits for the directory nor writes a record.      *)
LEMMA ServingKeeps ==
  ASSUME SurfaceInv, NEW c \in Conns, NEW h \in Handlers, conn' = [conn EXCEPT ![c] = h],
         UNCHANGED <<clock, dir, changes, revoked, stopped, jobs, chain>>,
         conn[c].phase # "resolving", h.phase # "resolving",
         HandlerInv(h), ChainShape(h, chain[c])
  PROVE  SurfaceInv'
<1>1. /\ Env /\ jobs \in Seq(Jobs) /\ conn \in [Conns -> Handlers] /\ chain \in [Conns -> Chains]
      /\ JobShape /\ (Named(dir) => revoked = None)
      /\ \A d \in Conns : HandlerInv(conn[d]) /\ ChainShape(conn[d], chain[d])
  BY TypeGroups DEF SurfaceInv
<1>2. /\ conn' \in [Conns -> Handlers] /\ conn'[c] = h
      /\ \A d \in Conns : d # c => conn'[d] = conn[d]
  BY <1>1, Placing
<1>3. TypeOK'
  BY <1>1, <1>2, TypeGroupsNext DEF Env
<1>4. JobShape'
  <2>1. \A i \in DOMAIN jobs : jobs[i] \in Jobs
    BY <1>1, ElementOfSeq
  <2>2. \A i \in DOMAIN jobs : jobs[i].live => conn'[jobs[i].conn] = conn[jobs[i].conn]
    BY <1>1, <1>2, <2>1 DEF JobShape, Jobs
  <2>3. \A d \in Conns : Waiting(d)' = Waiting(d)
    BY DEF Waiting
  <2>4. ASSUME NEW d \in Conns, conn'[d].phase = "resolving"
        PROVE  Waiting(d)' \/ conn'[d].id.status = "unknown"
    BY <1>1, <1>2, <2>3, <2>4 DEF JobShape
  <2>5. QED
    <3>1. jobs' = jobs /\ revoked' = revoked
      OBVIOUS
    <3>2. ASSUME NEW i \in DOMAIN jobs, jobs[i].live
          PROVE  LET k == conn'[jobs[i].conn]
                 IN  /\ k.phase = "resolving"
                     /\ jobs[i].stage = "admitted" =>
                            /\ jobs[i].admitted = admit(k.id.peer, jobs[i].answer)
                            /\ Named(jobs[i].answer) /\ revoked # None => k.asked <= revoked
      BY <1>1, <2>2, <3>2, Zenon DEF JobShape
    <3>3. \A i, j \in DOMAIN jobs :
            (jobs[i].live /\ jobs[j].live /\ jobs[i].conn = jobs[j].conn) => i = j
      BY <1>1 DEF JobShape
    <3>4. QED
      BY <2>4, <3>1, <3>2, <3>3, Zenon DEF JobShape, Named
<1>5. ASSUME NEW d \in Conns
      PROVE  HandlerInv(conn[d])' /\ ChainShape(conn[d], chain[d])'
  <2>1. PICK g : g = conn'[d]
    OBVIOUS
  <2>2. HandlerInv(g) /\ ChainShape(g, chain[d])
    BY <1>1, <1>2, <2>1
  <2>3. HandlerInv(g)'
    BY <2>2, SameInstant
  <2>4. HandlerInv(conn[d])'
    BY <2>1, <2>3 DEF HandlerInv, RequestShape, IdentityShape, Timely, AnsweredOnce, AnswerFollows,
       Settling, Asking, ByDirectory
  <2>5. ChainShape(conn'[d], chain'[d])
    BY <2>1, <2>2, Zenon
  <2>6. QED
    BY <2>4, <2>5
<1>6. QED
  BY <1>1, <1>3, <1>4, <1>5 DEF SurfaceInv, Named

(* An answer to the request in hand, on a stream that goes on only if no   *)
(* body is left on it.                                                     *)
LEMMA ReplyKeeps ==
  ASSUME NEW h \in Handlers, HandlerInv(h), Asking(h), h.unread => h.closing,
         NEW code, Kept(code) \in Replies,
         Kept(code) \in {"decided", "policy_unavailable"} => h.id.status = "established",
         Kept(code) = "principal_groups_unavailable" =>
             h.id.status = "unknown" /\ h.id.refusal = None,
         Kept(code) \in Refusals => h.id.refusal = Kept(code) /\ h.closing,
         Kept(code) # "none"
  PROVE  /\ Reply(h, code) \in Handlers /\ HandlerInv(Reply(h, code))
         /\ Reply(h, code).phase \in {"idle", "finish"}
         /\ Reply(h, code).id = h.id
<1> DEFINE g == Reply(h, code)
<1>1. g \in Handlers
  BY HandlerTypes
<1>2. /\ g.phase = IF h.closing THEN "finish" ELSE "idle"
      /\ g.answered /\ g.replies = h.replies + 1 /\ g.reply = Kept(code)
      /\ g.id = h.id /\ g.after = h.after /\ g.asked = h.asked /\ g.closing = h.closing
      /\ g.defect = h.defect /\ g.requests = h.requests /\ g.unread = h.unread
      /\ g.begunAt = h.begunAt /\ g.failed = h.failed
  BY Replying
<1> HIDE DEF g
<1>3. /\ h.replies = 0 /\ h.requests > 0 /\ ~Settling(h) /\ ~h.failed
      /\ h.requests \in Nat
  BY SurfaceAssumption DEF HandlerInv, RequestShape, Asking, Settling, Serving, Handlers
<1>4. RequestShape(g) /\ AnsweredOnce(g)
  BY <1>2, <1>3 DEF RequestShape, AnsweredOnce, Settling, Asking, Serving
<1>5. IdentityShape(g)
  BY <1>2, <1>3 DEF HandlerInv, IdentityShape, Settling, Asking, Serving
<1>6. Timely(g)
  BY <1>2 DEF HandlerInv, Timely, Serving
<1>7. AnswerFollows(g)
  BY <1>2 DEF AnswerFollows
<1>8. QED
  BY <1>1, <1>2, <1>4, <1>5, <1>6, <1>7 DEF HandlerInv, g

(* What the invariant says of one connection.                              *)
LEMMA OneHandler ==
  ASSUME SurfaceInv, NEW c \in Conns
  PROVE  /\ conn[c] \in Handlers /\ conn[c].id \in Identities
         /\ HandlerInv(conn[c]) /\ ChainShape(conn[c], chain[c])
         /\ chain[c] \in Chains /\ chain \in [Conns -> Chains] /\ conn \in [Conns -> Handlers]
         /\ jobs \in Seq(Jobs) /\ clock \in Nat /\ revoked \in Nat \cup {None} /\ dir \in Answers
         /\ JobShape
<1>1. /\ Env /\ jobs \in Seq(Jobs) /\ conn \in [Conns -> Handlers] /\ chain \in [Conns -> Chains]
  BY TypeGroups DEF SurfaceInv
<1>2. conn[c] \in Handlers /\ chain[c] \in Chains
  BY <1>1
<1>3. QED
  BY <1>1, <1>2 DEF SurfaceInv, Env, Handlers

(* get_request and establish.                                              *)
LEMMA AcceptKeeps ==
  ASSUME SurfaceInv, NEW c \in Conns, Accept(c)
  PROVE  SurfaceInv'
<1>1. conn[c] \in Handlers /\ HandlerInv(conn[c]) /\ ChainShape(conn[c], chain[c])
      /\ conn \in [Conns -> Handlers]
  BY OneHandler
<1>2. PICK peer \in PeersSeen :
        conn' = [conn EXCEPT ![c].phase = "setup",
                             ![c].id = IF peer = None
                                       THEN refuse(ConnectionIdentity(peer),
                                                   "peer_credential_unavailable")
                                       ELSE ConnectionIdentity(peer)]
  BY Zenon DEF Accept
<1> DEFINE id == IF peer = None THEN refuse(ConnectionIdentity(peer), "peer_credential_unavailable")
                 ELSE ConnectionIdentity(peer)
           h  == [[conn[c] EXCEPT !.phase = "setup"] EXCEPT !.id = id]
<1>3. peer \in Peers \cup {None} /\ conn[c].phase = "none"
  BY SurfaceAssumption DEF Accept
<1>4. ConnectionIdentity(peer) \in Identities /\ id \in Identities
  BY <1>3, IdentityTypes DEF Refusals
<1>5. /\ id.peer = peer /\ id.principal = None /\ id.touched = {}
      /\ peer = None => id.status = "refused" /\ id.refusal = "peer_credential_unavailable"
      /\ peer # None => id.status = "unknown" /\ id.refusal = None
  BY <1>4 DEF ConnectionIdentity, refuse
<1>6. conn' = [conn EXCEPT ![c] = h]
  BY <1>1, <1>2
<1> HIDE DEF id
<1>7. [conn[c] EXCEPT !.phase = "setup"] \in Handlers /\ h \in Handlers
  <2>1. [conn[c] EXCEPT !.phase = "setup"] \in Handlers
    BY <1>1, HandlerTypes DEF Phases
  <2>2. QED
    BY <2>1, <1>4, HandlerTypes
<1>8. /\ h.phase = "setup" /\ h.id = id /\ h.after = conn[c].after /\ h.asked = conn[c].asked
      /\ h.requests = conn[c].requests /\ h.replies = conn[c].replies /\ h.reply = conn[c].reply
      /\ h.answered = conn[c].answered /\ h.defect = conn[c].defect /\ h.unread = conn[c].unread
      /\ h.failed = conn[c].failed
  BY <1>1 DEF Handlers
<1> HIDE DEF h
<1>9. HandlerInv(h)
  <2>1. RequestShape(h) /\ AnsweredOnce(h)
    BY <1>1, <1>3, <1>8 DEF HandlerInv, RequestShape, AnsweredOnce, Settling, Asking, Serving
  <2>2. IdentityShape(h)
    BY <1>1, <1>3, <1>5, <1>8, NoneAssumption DEF HandlerInv, IdentityShape, Settling, Serving,
       Refusals
  <2>3. Timely(h)
    BY <1>1, <1>5, <1>8 DEF HandlerInv, Timely
  <2>4. AnswerFollows(h)
    BY <1>8 DEF AnswerFollows
  <2>5. QED
    BY <2>1, <2>2, <2>3, <2>4 DEF HandlerInv
<1>10. ChainShape(h, chain[c])
  <2>1. conn[c].id.touched = {}
    BY <1>1, <1>3 DEF HandlerInv, IdentityShape, Settling
  <2>2. QED
    BY <1>1, <1>3, <1>5, <1>8, <2>1 DEF ChainShape
<1>11. QED
  BY <1>3, <1>6, <1>7, <1>8, <1>9, <1>10, ServingKeeps DEF Accept

(* A defect in the set-up is kept for the first request.                   *)
LEMMA SetupDefectKeeps ==
  ASSUME SurfaceInv, NEW c \in Conns, SetupDefect(c)
  PROVE  SurfaceInv'
<1> DEFINE h == [[conn[c] EXCEPT !.phase = "idle"] EXCEPT !.defect = TRUE]
<1>1. conn[c] \in Handlers /\ HandlerInv(conn[c]) /\ ChainShape(conn[c], chain[c])
      /\ conn \in [Conns -> Handlers] /\ conn[c].phase = "setup"
  BY OneHandler DEF SetupDefect
<1>2. conn' = [conn EXCEPT ![c] = h]
  BY <1>1 DEF SetupDefect
<1>3. h \in Handlers
  BY <1>1 DEF Handlers, Phases
<1>4. /\ h.phase = "idle" /\ h.id = conn[c].id /\ h.after = conn[c].after
      /\ h.asked = conn[c].asked
      /\ h.requests = conn[c].requests /\ h.replies = conn[c].replies /\ h.reply = conn[c].reply
      /\ h.answered = conn[c].answered /\ h.defect = TRUE /\ h.unread = conn[c].unread
      /\ h.failed = conn[c].failed
  BY <1>1 DEF Handlers
<1> HIDE DEF h
<1>5. HandlerInv(h)
  <2>1. RequestShape(h) /\ AnsweredOnce(h)
    BY <1>1, <1>4 DEF HandlerInv, RequestShape, AnsweredOnce, Settling, Asking, Serving
  <2>2. IdentityShape(h)
    BY <1>1, <1>4 DEF HandlerInv, IdentityShape, Settling, Serving
  <2>3. Timely(h)
    BY <1>1, <1>4 DEF HandlerInv, Timely, Serving
  <2>4. AnswerFollows(h)
    BY <1>1, <1>4 DEF HandlerInv, RequestShape, AnswerFollows, Settling, Refusals
  <2>5. QED
    BY <2>1, <2>2, <2>3, <2>4 DEF HandlerInv
<1>6. ChainShape(h, chain[c])
  BY <1>1, <1>4, SameTelling
<1>7. QED
  BY <1>1, <1>2, <1>3, <1>4, <1>5, <1>6, ServingKeeps DEF SetupDefect

(* A request is read.                                                      *)
LEMMA RequestKeeps ==
  ASSUME SurfaceInv, NEW c \in Conns, Request(c)
  PROVE  SurfaceInv'
<1>1. conn[c] \in Handlers /\ HandlerInv(conn[c]) /\ ChainShape(conn[c], chain[c])
      /\ conn \in [Conns -> Handlers] /\ conn[c].phase = "idle"
      /\ conn[c].requests < MaxRequests
  BY OneHandler DEF Request
<1>2. PICK close \in BOOLEAN, framed \in BOOLEAN :
        conn' = [conn EXCEPT ![c].phase = "guard", ![c].requests = @ + 1, ![c].replies = 0,
                             ![c].reply = "none", ![c].closing = close, ![c].wantsClose = close,
                             ![c].unread = framed]
  BY Zenon DEF Request
<1> DEFINE h == [conn[c] EXCEPT !.phase = "guard", !.requests = @ + 1, !.replies = 0,
                                !.reply = "none", !.closing = close, !.wantsClose = close,
                                !.unread = framed]
<1>3. conn' = [conn EXCEPT ![c] = h]
  BY <1>1, <1>2
<1>4. h \in Handlers /\ h.requests = conn[c].requests + 1 /\ conn[c].requests \in Nat
  <2>1. conn[c].requests + 1 \in 0..MaxRequests /\ conn[c].requests \in Nat
    BY <1>1, SurfaceAssumption DEF Handlers
  <2>2. QED
    BY <1>1, <2>1 DEF Handlers, Phases, Replies
<1>5. /\ h.phase = "guard" /\ h.id = conn[c].id /\ h.after = conn[c].after
      /\ h.asked = conn[c].asked
      /\ h.replies = 0 /\ h.reply = "none"
      /\ h.answered = conn[c].answered /\ h.defect = conn[c].defect
      /\ h.failed = conn[c].failed
  BY <1>1 DEF Handlers
<1> HIDE DEF h
<1>6. HandlerInv(h)
  <2>1. RequestShape(h) /\ AnsweredOnce(h)
    BY <1>1, <1>4, <1>5 DEF HandlerInv, RequestShape, AnsweredOnce, Settling, Asking, Serving
  <2>2. IdentityShape(h)
    BY <1>1, <1>5 DEF HandlerInv, IdentityShape, Settling, Serving
  <2>3. Timely(h)
    BY <1>1, <1>5 DEF HandlerInv, Timely, Serving
  <2>4. AnswerFollows(h)
    BY <1>5 DEF AnswerFollows
  <2>5. QED
    BY <2>1, <2>2, <2>3, <2>4 DEF HandlerInv
<1>7. ChainShape(h, chain[c])
  BY <1>1, <1>5, SameTelling
<1>8. QED
  BY <1>1, <1>3, <1>4, <1>5, <1>6, <1>7, ServingKeeps DEF Request, OnlyConn

(* What ends with a defect was answered once, or not at all behind an      *)
(* answer to an earlier request.                                           *)
LEMMA DefectKeeps ==
  ASSUME NEW h \in Handlers, HandlerInv(h), h.phase \in {"guard", "dispatch", "decide", "effect"}
  PROVE  /\ Defect(h) \in Handlers /\ HandlerInv(Defect(h))
         /\ Defect(h).phase = "finish" /\ Defect(h).id = h.id
<1> DEFINE failing == [Close(h) EXCEPT !.failed = TRUE]
           g == EndOfRequest(IF h.answered THEN failing ELSE Sent(failing, "internal"))
<1>1. failing \in Handlers
  BY DEF Handlers, Close
<1>2. g \in Handlers
  <2>1. Kept("internal") \in Replies
    BY KeptCodes DEF Replies
  <2>2. Sent(failing, "internal") \in Handlers
    BY <1>1, <2>1, HandlerTypes
  <2>3. QED
    BY <1>1, <2>2, HandlerTypes
<1>3. /\ g.phase = "finish" /\ g.id = h.id /\ g.after = h.after /\ g.asked = h.asked
      /\ g.defect = h.defect /\ g.requests = h.requests /\ g.unread = h.unread
      /\ g.begunAt = h.begunAt /\ g.failed
      /\ g.answered
      /\ h.answered => g.replies = h.replies /\ g.reply = h.reply
      /\ ~h.answered => g.replies = h.replies + 1 /\ g.reply = Kept("internal")
  BY DEF Handlers, Close, Sent, EndOfRequest
<1>4. Defect(h) = g
  BY DEF Defect
<1> HIDE DEF g
<1>5. /\ h.requests > 0 /\ ~Settling(h) /\ h.requests \in Nat /\ h.replies \in Nat
      /\ ~h.answered => h.replies = 0
      /\ h.replies = 0 => h.reply = "none"
  BY SurfaceAssumption DEF HandlerInv, RequestShape, AnsweredOnce, Asking, Settling, Serving,
     Handlers
<1>6. RequestShape(g) /\ AnsweredOnce(g)
  BY <1>3, <1>5 DEF HandlerInv, RequestShape, AnsweredOnce, Settling, Asking, Serving
<1>7. IdentityShape(g)
  BY <1>3, <1>5 DEF HandlerInv, IdentityShape, Settling, Asking, Serving
<1>8. Timely(g)
  BY <1>3 DEF HandlerInv, Timely, Serving
<1>9. AnswerFollows(g)
  <2>1. CASE h.phase = "effect"
    BY <1>3, <1>5, <2>1, KeptCodes DEF HandlerInv, RequestShape, AnswerFollows, Refusals
  <2>2. CASE h.phase # "effect"
    <3>1. h.replies = 0
      BY <2>2 DEF HandlerInv, RequestShape, Asking, Serving
    <3>2. g.reply \in {"none", "internal"}
      BY <1>3, <1>5, <3>1, KeptCodes
    <3>3. QED
      BY <3>2 DEF AnswerFollows, Refusals
  <2>3. QED
    BY <2>1, <2>2
<1>10. QED
  BY <1>2, <1>3, <1>4, <1>6, <1>7, <1>8, <1>9 DEF HandlerInv

(* send_error, and a version this binding is not written in.               *)
LEMMA MalformedKeeps ==
  ASSUME SurfaceInv, NEW c \in Conns, Malformed(c)
  PROVE  SurfaceInv'
<1>1. conn[c] \in Handlers /\ HandlerInv(conn[c]) /\ ChainShape(conn[c], chain[c])
      /\ conn \in [Conns -> Handlers] /\ conn[c].phase = "idle"
      /\ conn[c].requests < MaxRequests
  BY OneHandler DEF Malformed
<1> DEFINE k == [conn[c] EXCEPT !.requests = @ + 1, !.replies = 0]
           h == Reply(Close(k), "request_malformed")
<1>2. conn' = [conn EXCEPT ![c] = h]
  BY <1>1 DEF Malformed
<1>3. k \in Handlers /\ Close(k) \in Handlers /\ k.requests = conn[c].requests + 1
      /\ conn[c].requests \in Nat
  <2>1. conn[c].requests + 1 \in 0..MaxRequests /\ conn[c].requests \in Nat
    BY <1>1, SurfaceAssumption DEF Handlers
  <2>2. k \in Handlers /\ k.requests = conn[c].requests + 1
    BY <1>1, <2>1 DEF Handlers
  <2>3. QED
    BY <2>1, <2>2, HandlerTypes
<1>4. Kept("request_malformed") = "about_the_request"
  BY KeptCodes
<1>5. h \in Handlers
  BY <1>3, <1>4, HandlerTypes DEF Replies
<1>6. /\ Close(k).closing /\ Close(k).replies = 0 /\ Close(k).requests = k.requests
      /\ Close(k).id = conn[c].id /\ Close(k).after = conn[c].after
      /\ Close(k).asked = conn[c].asked /\ Close(k).defect = conn[c].defect
      /\ Close(k).failed = conn[c].failed /\ Close(k).unread = conn[c].unread
      /\ Close(k).begunAt = conn[c].begunAt
  BY <1>1, <1>3 DEF Handlers, Close
<1>7. /\ h.phase = "finish" /\ h.replies = 1 /\ h.requests = conn[c].requests + 1
      /\ h.answered /\ h.reply = "about_the_request"
      /\ h.id = conn[c].id /\ h.after = conn[c].after
      /\ h.asked = conn[c].asked /\ h.defect = conn[c].defect
      /\ h.failed = conn[c].failed
  BY <1>3, <1>4, <1>6, Replying
<1> HIDE DEF h, k
<1>8. HandlerInv(h)
  <2>1. RequestShape(h) /\ AnsweredOnce(h)
    BY <1>1, <1>3, <1>7 DEF HandlerInv, RequestShape, AnsweredOnce, Settling, Asking, Serving
  <2>2. IdentityShape(h)
    BY <1>1, <1>7 DEF HandlerInv, IdentityShape, Settling, Serving
  <2>3. Timely(h)
    BY <1>1, <1>7 DEF HandlerInv, Timely, Serving
  <2>4. AnswerFollows(h)
    BY <1>7 DEF AnswerFollows, Refusals
  <2>5. QED
    BY <2>1, <2>2, <2>3, <2>4 DEF HandlerInv
<1>9. ChainShape(h, chain[c])
  BY <1>1, <1>7, SameTelling
<1>10. QED
  BY <1>1, <1>2, <1>5, <1>7, <1>8, <1>9, ServingKeeps DEF Malformed, OnlyConn

(* A stream that ends without an answer, or behind one: a peer that leaves,*)
(* a request that was answered and a hold that ends.                       *)
LEMMA MovesOn ==
  ASSUME SurfaceInv, NEW c \in Conns, NEW closing \in BOOLEAN, NEW phase \in Phases,
         \/ conn[c].phase \in {"idle", "body"} /\ phase = "finish"
         \/ conn[c].phase \in {"effect", "hold"} /\ phase \in {"idle", "finish", "hold"},
         conn' = [conn EXCEPT ![c] = [[conn[c] EXCEPT !.closing = closing] EXCEPT !.phase = phase]],
         OnlyConn
  PROVE  SurfaceInv'
<1> DEFINE h == [[conn[c] EXCEPT !.closing = closing] EXCEPT !.phase = phase]
<1>1. conn[c] \in Handlers /\ HandlerInv(conn[c]) /\ ChainShape(conn[c], chain[c])
      /\ conn \in [Conns -> Handlers]
  BY OneHandler
<1>2. h \in Handlers
  BY <1>1 DEF Handlers
<1>7. conn' = [conn EXCEPT ![c] = h]
  OBVIOUS
<1>3. /\ h.phase = phase /\ h.id = conn[c].id /\ h.after = conn[c].after
      /\ h.asked = conn[c].asked /\ h.requests = conn[c].requests
      /\ h.replies = conn[c].replies /\ h.reply = conn[c].reply
      /\ h.answered = conn[c].answered /\ h.defect = conn[c].defect
      /\ h.failed = conn[c].failed /\ h.unread = conn[c].unread
  BY <1>1 DEF Handlers
<1> HIDE DEF h
<1>4. HandlerInv(h)
  <2>1. RequestShape(h) /\ AnsweredOnce(h)
    BY <1>1, <1>3 DEF HandlerInv, RequestShape, AnsweredOnce, Settling, Asking, Serving
  <2>2. IdentityShape(h)
    BY <1>1, <1>3 DEF HandlerInv, IdentityShape, Settling, Serving
  <2>3. Timely(h)
    BY <1>1, <1>3 DEF HandlerInv, Timely, Serving
  <2>4. AnswerFollows(h)
    <3>1. CASE conn[c].phase = "body"
      BY <1>1, <1>3, <3>1 DEF HandlerInv, RequestShape, AnswerFollows, Asking, Serving, Refusals
    <3>2. CASE conn[c].phase # "body"
      <4>1. conn[c].id.status # "refused" => conn[c].id.refusal = None
        BY <1>1 DEF HandlerInv, IdentityShape
      <4>2. conn[c].phase \in {"effect", "hold"} => conn[c].id.refusal = None
        BY <1>1, <4>1 DEF HandlerInv, IdentityShape
      <4>3. QED
        BY <1>1, <1>3, <3>2, <4>2, NoneAssumption DEF HandlerInv, AnswerFollows
    <3>3. QED
      BY <3>1, <3>2
  <2>5. QED
    BY <2>1, <2>2, <2>3, <2>4 DEF HandlerInv
<1>5. ChainShape(h, chain[c])
  BY <1>1, <1>3, SameTelling
<1>6. QED
  BY <1>1, <1>2, <1>3, <1>4, <1>5, <1>7, ServingKeeps DEF OnlyConn

(* The peer goes away.                                                     *)
LEMMA LeavesKeeps ==
  ASSUME SurfaceInv, NEW c \in Conns, Leaves(c)
  PROVE  SurfaceInv'
<1>1. conn' = [conn EXCEPT ![c] = [[conn[c] EXCEPT !.closing = TRUE] EXCEPT !.phase = "finish"]]
  BY Zenon DEF Leaves, Close
<1>2. QED
  BY <1>1, MovesOn DEF Leaves, Phases

(* The effect is recorded, and the hold ends.                              *)
LEMMA EffectKeeps ==
  ASSUME SurfaceInv, NEW c \in Conns, RecordEffect(c) \/ HoldEnds(c)
  PROVE  SurfaceInv'
<1>1. conn[c] \in Handlers /\ conn \in [Conns -> Handlers] /\ conn[c].closing \in BOOLEAN
      /\ conn[c] = [conn[c] EXCEPT !.closing = conn[c].closing]
  <2>1. conn[c] \in Handlers /\ conn \in [Conns -> Handlers]
    BY OneHandler
  <2>2. QED
    BY <2>1 DEF Handlers
<1>2. conn[c].phase \in {"effect", "hold"} /\ OnlyConn
  BY DEF RecordEffect, HoldEnds
<1>3. \/ conn' = [conn EXCEPT ![c] = EndOfRequest(conn[c])]
      \/ conn' = [conn EXCEPT ![c].phase = "hold"]
  BY Zenon DEF RecordEffect, HoldEnds
<1>4. PICK phase \in {"idle", "finish", "hold"} :
        conn' = [conn EXCEPT ![c] = [conn[c] EXCEPT !.phase = phase]]
  <2>1. CASE conn' = [conn EXCEPT ![c] = EndOfRequest(conn[c])]
    BY <2>1, Zenon DEF EndOfRequest
  <2>2. CASE conn' = [conn EXCEPT ![c].phase = "hold"]
    BY <2>2, Zenon
  <2>3. QED
    BY <1>3, <2>1, <2>2
<1>5. conn' = [conn EXCEPT ![c] = [[conn[c] EXCEPT !.closing = conn[c].closing]
                                     EXCEPT !.phase = phase]]
  BY <1>1, <1>4, Zenon
<1>6. QED
  BY <1>1, <1>2, <1>5, MovesOn DEF Phases

(* A body arrives, or is of a length or a framing that is not read.        *)
LEMMA BodyKeeps ==
  ASSUME SurfaceInv, NEW c \in Conns, ConsumeBody(c)
  PROVE  SurfaceInv'
<1>1. conn[c] \in Handlers /\ HandlerInv(conn[c]) /\ ChainShape(conn[c], chain[c])
      /\ conn \in [Conns -> Handlers] /\ conn[c].phase = "body" /\ OnlyConn
  BY OneHandler DEF ConsumeBody
<1> DEFINE h == conn[c]
<1>2. PICK next : /\ conn' = [conn EXCEPT ![c] = next]
                  /\ \/ next = [h EXCEPT !.phase = "dispatch", !.unread = FALSE]
                     \/ next \in {Reply(Close(h), "request_malformed"), RefuseFraming(h, TRUE),
                                  RefuseFraming(h, FALSE)}
  BY Zenon DEF ConsumeBody
<1>3. \A g \in Handlers : HandlerInv(g) /\ ChainShape(g, chain[c]) /\ g.phase # "resolving"
                          /\ conn' = [conn EXCEPT ![c] = g] => SurfaceInv'
  BY <1>1, ServingKeeps DEF OnlyConn
<1>4. Kept("request_malformed") = "about_the_request"
  BY KeptCodes
<1>5. ASSUME NEW closing \in BOOLEAN, NEW unread \in BOOLEAN, unread => h.unread /\ closing,
             NEW k, k = [[h EXCEPT !.closing = closing] EXCEPT !.unread = unread],
             next = Reply(k, "request_malformed")
      PROVE  SurfaceInv'
  <2>1. k \in Handlers
    BY <1>1, <1>5 DEF Handlers
  <2>2. /\ k.phase = "body" /\ k.id = h.id /\ k.after = h.after /\ k.asked = h.asked
        /\ k.requests = h.requests /\ k.replies = h.replies /\ k.reply = h.reply
        /\ k.answered = h.answered /\ k.defect = h.defect /\ k.failed = h.failed
        /\ k.begunAt = h.begunAt /\ k.closing = closing /\ k.unread = unread
    BY <1>1, <1>5 DEF Handlers
  <2>3. HandlerInv(k)
    <3>1. RequestShape(k) /\ AnsweredOnce(k)
      BY <1>1, <1>5, <2>2 DEF HandlerInv, RequestShape, AnsweredOnce, Settling, Asking, Serving
    <3>2. IdentityShape(k) /\ Timely(k)
      BY <1>1, <2>2 DEF HandlerInv, IdentityShape, Timely, Settling, Serving
    <3>3. QED
      BY <2>2, <3>1, <3>2 DEF HandlerInv, AnswerFollows
  <2>4. next \in Handlers /\ HandlerInv(next) /\ next.phase \in {"idle", "finish"} /\ next.id = k.id
    BY <1>4, <1>5, <2>1, <2>2, <2>3, ReplyKeeps DEF Asking, Serving, Replies, Refusals
  <2>5. ChainShape(next, chain[c])
    BY <1>1, <2>2, <2>4, SameTelling
  <2>6. QED
    BY <1>2, <1>3, <2>4, <2>5
<1>6. CASE next = [h EXCEPT !.phase = "dispatch", !.unread = FALSE]
  <2>1. next \in Handlers
    BY <1>1, <1>6 DEF Handlers, Phases
  <2>2. /\ next.phase = "dispatch" /\ next.id = h.id /\ next.after = h.after
        /\ next.asked = h.asked /\ next.begunAt = h.begunAt
        /\ next.requests = h.requests /\ next.replies = h.replies /\ next.reply = h.reply
        /\ next.answered = h.answered /\ next.defect = h.defect /\ next.failed = h.failed
        /\ ~next.unread
    BY <1>1, <1>6 DEF Handlers
  <2>3. HandlerInv(next)
    <3>1. RequestShape(next) /\ AnsweredOnce(next)
      BY <1>1, <2>2 DEF HandlerInv, RequestShape, AnsweredOnce, Settling, Asking, Serving
    <3>2. IdentityShape(next)
      BY <1>1, <2>2 DEF HandlerInv, IdentityShape, Settling, Serving
    <3>3. Timely(next)
      BY <1>1, <2>2 DEF HandlerInv, Timely, Serving
    <3>4. QED
      BY <2>2, <3>1, <3>2, <3>3 DEF HandlerInv, AnswerFollows
  <2>4. ChainShape(next, chain[c])
    BY <1>1, <2>2, SameTelling
  <2>5. QED
    BY <1>2, <1>3, <2>1, <2>2, <2>3, <2>4
<1>7. CASE next = Reply(Close(h), "request_malformed")
  <2>1. Close(h) = [[h EXCEPT !.closing = TRUE] EXCEPT !.unread = h.unread] /\ h.unread \in BOOLEAN
    BY <1>1 DEF Handlers, Close
  <2>2. QED
    BY <1>5, <1>7, <2>1
<1>8. CASE \E skipped \in BOOLEAN : next = RefuseFraming(h, skipped)
  <2>1. PICK skipped \in BOOLEAN : next = RefuseFraming(h, skipped)
    BY <1>8
  <2>2. [h EXCEPT !.closing = ~skipped, !.unread = @ /\ ~skipped]
          = [[h EXCEPT !.closing = ~skipped] EXCEPT !.unread = h.unread /\ ~skipped]
        /\ h.unread \in BOOLEAN
    BY <1>1 DEF Handlers
  <2>3. next = Reply([[h EXCEPT !.closing = ~skipped] EXCEPT !.unread = h.unread /\ ~skipped],
                     "request_malformed")
    BY <2>1, <2>2 DEF RefuseFraming
  <2>4. QED
    BY <1>5, <2>2, <2>3
<1>9. QED
  BY <1>2, <1>6, <1>7, <1>8

(* A document or a stream is answered, once, to whom is established.       *)
LEMMA DecideKeeps ==
  ASSUME SurfaceInv, NEW c \in Conns, Decide(c)
  PROVE  SurfaceInv'
<1>1. conn[c] \in Handlers /\ HandlerInv(conn[c]) /\ ChainShape(conn[c], chain[c])
      /\ conn \in [Conns -> Handlers] /\ conn[c].phase = "decide" /\ OnlyConn
  BY OneHandler DEF Decide
<1>2. PICK streamed \in BOOLEAN :
        conn' = [conn EXCEPT ![c] = [Sent(conn[c], "decided") EXCEPT !.phase = "effect",
                                                       !.closing = streamed \/ @]]
  BY Zenon DEF Decide
<1> DEFINE h == [Sent(conn[c], "decided") EXCEPT !.phase = "effect", !.closing = streamed \/ @]
<1>3. conn' = [conn EXCEPT ![c] = h]
  BY <1>2
<1>4. Kept("decided") = "decided"
  BY KeptCodes
<1>5. Sent(conn[c], "decided") \in Handlers
  BY <1>1, <1>4, HandlerTypes DEF Replies
<1>6. h \in Handlers
  BY <1>5 DEF Handlers, Phases
<1>7. /\ h.phase = "effect" /\ h.id = conn[c].id /\ h.after = conn[c].after
      /\ h.asked = conn[c].asked /\ h.begunAt = conn[c].begunAt
      /\ h.requests = conn[c].requests /\ h.replies = conn[c].replies + 1 /\ h.reply = "decided"
      /\ h.answered /\ h.defect = conn[c].defect /\ h.failed = conn[c].failed
      /\ h.unread = conn[c].unread
  BY <1>1, <1>4 DEF Handlers, Sent
<1> HIDE DEF h
<1>8. HandlerInv(h)
  <2>1. RequestShape(h) /\ AnsweredOnce(h)
    BY <1>1, <1>7 DEF HandlerInv, RequestShape, AnsweredOnce, Settling, Asking, Serving
  <2>2. IdentityShape(h)
    BY <1>1, <1>7 DEF HandlerInv, IdentityShape, Settling, Serving
  <2>3. Timely(h)
    BY <1>1, <1>7 DEF HandlerInv, Timely, Serving
  <2>4. AnswerFollows(h)
    BY <1>1, <1>7 DEF HandlerInv, IdentityShape, AnswerFollows, Refusals
  <2>5. QED
    BY <2>1, <2>2, <2>3, <2>4 DEF HandlerInv
<1>9. ChainShape(h, chain[c])
  BY <1>1, <1>7, SameTelling
<1>10. QED
  BY <1>1, <1>3, <1>6, <1>7, <1>8, <1>9, ServingKeeps DEF OnlyConn

(* Any of a request's calls raises.                                        *)
LEMMA RequestDefectKeeps ==
  ASSUME SurfaceInv, NEW c \in Conns, RequestDefect(c)
  PROVE  SurfaceInv'
<1>1. conn[c] \in Handlers /\ HandlerInv(conn[c]) /\ ChainShape(conn[c], chain[c])
      /\ conn[c].phase \in {"dispatch", "decide", "effect"} /\ OnlyConn
      /\ conn' = [conn EXCEPT ![c] = Defect(conn[c])]
  BY OneHandler, Zenon DEF RequestDefect
<1>2. /\ Defect(conn[c]) \in Handlers /\ HandlerInv(Defect(conn[c]))
      /\ Defect(conn[c]).phase = "finish" /\ Defect(conn[c]).id = conn[c].id
  BY <1>1, DefectKeeps
<1>3. ChainShape(Defect(conn[c]), chain[c])
  BY <1>1, <1>2, SameTelling
<1>4. QED
  BY <1>1, <1>2, <1>3, ServingKeeps DEF OnlyConn

(* The consultations as they are without any that the connection waits for.*)
JobsBut(c) ==
  /\ jobs' \in Seq(Jobs)
  /\ \A n \in DOMAIN jobs' : jobs'[n].live =>
       /\ jobs'[n].conn # c
       /\ \E m \in DOMAIN jobs : jobs[m] = jobs'[n]
  /\ \A n, m \in DOMAIN jobs' :
       (jobs'[n].live /\ jobs'[m].live /\ jobs'[n].conn = jobs'[m].conn) => n = m
  /\ \A d \in Conns : d # c /\ Waiting(d) => Waiting(d)'

(* Whether a consultation, taken with its connection, is as it should be.  *)
Fits(job, h, since) ==
  /\ h.phase = "resolving"
  /\ job.stage = "admitted" =>
       /\ job.admitted = admit(h.id.peer, job.answer)
       /\ (job.answer # None /\ AdmissionGroup \in job.answer /\ since # None) => h.asked <= since

(* What JobShape says, with Fits.                                          *)
LEMMA JobParts ==
  JobShape <=>
    /\ \A i \in DOMAIN jobs : jobs[i].live => Fits(jobs[i], conn[jobs[i].conn], revoked)
    /\ \A i, j \in DOMAIN jobs :
         (jobs[i].live /\ jobs[j].live /\ jobs[i].conn = jobs[j].conn) => i = j
    /\ \A c \in Conns : conn[c].phase = "resolving" => Waiting(c) \/ conn[c].id.status = "unknown"
  BY Zenon DEF JobShape, Fits, Named

(* The same of the next state.                                             *)
LEMMA JobPartsNext ==
  ASSUME \A i \in DOMAIN jobs' : jobs'[i].live => Fits(jobs'[i], conn'[jobs'[i].conn], revoked'),
         \A i, j \in DOMAIN jobs' :
           (jobs'[i].live /\ jobs'[j].live /\ jobs'[i].conn = jobs'[j].conn) => i = j,
         \A c \in Conns : conn'[c].phase = "resolving" =>
           Waiting(c)' \/ conn'[c].id.status = "unknown"
  PROVE  JobShape'
  BY Zenon DEF JobShape, Fits, Named

(* A connection whose wait is over: its answer is applied, or it has none. *)
LEMMA OutcomeKeeps ==
  ASSUME SurfaceInv, NEW c \in Conns, NEW g \in Handlers, conn' = [conn EXCEPT ![c] = g],
         chain' \in [Conns -> Chains], \A d \in Conns : d # c => chain'[d] = chain[d],
         UNCHANGED <<clock, dir, changes, revoked, stopped>>, JobsBut(c),
         g.phase # "resolving", HandlerInv(g), ChainShape(g, chain'[c])
  PROVE  SurfaceInv'
<1>1. /\ Env /\ jobs \in Seq(Jobs) /\ conn \in [Conns -> Handlers] /\ chain \in [Conns -> Chains]
      /\ JobShape /\ (Named(dir) => revoked = None)
      /\ \A d \in Conns : HandlerInv(conn[d]) /\ ChainShape(conn[d], chain[d])
  BY TypeGroups DEF SurfaceInv
<1>2. /\ conn' \in [Conns -> Handlers] /\ conn'[c] = g
      /\ \A d \in Conns : d # c => conn'[d] = conn[d]
  BY <1>1, Placing
<1>3. TypeOK'
  BY <1>1, <1>2, TypeGroupsNext DEF Env, JobsBut
<1>4. JobShape'
  <2>1. \A n \in DOMAIN jobs' : jobs'[n] \in Jobs
    BY ElementOfSeq DEF JobsBut
  <2>2. ASSUME NEW n \in DOMAIN jobs', jobs'[n].live
        PROVE  Fits(jobs'[n], conn'[jobs'[n].conn], revoked')
    <3>1. PICK m \in DOMAIN jobs : jobs[m] = jobs'[n]
      BY <2>2, Zenon DEF JobsBut
    <3>2. jobs'[n].conn \in Conns /\ jobs'[n].conn # c
      BY <2>1, <2>2 DEF JobsBut, Jobs
    <3>3. Fits(jobs[m], conn[jobs[m].conn], revoked)
      BY <1>1, <2>2, <3>1, JobParts
    <3>4. conn'[jobs'[n].conn] = conn[jobs'[n].conn] /\ revoked' = revoked
      BY <1>2, <3>2
    <3>5. QED
      BY <3>1, <3>3, <3>4, Zenon
  <2>3. ASSUME NEW d \in Conns, conn'[d].phase = "resolving"
        PROVE  Waiting(d)' \/ conn'[d].id.status = "unknown"
    <3>1. d # c /\ conn'[d] = conn[d]
      BY <1>2, <2>3
    <3>2. Waiting(d) \/ conn[d].id.status = "unknown"
      BY <1>1, <2>3, <3>1, JobParts
    <3>3. QED
      BY <3>1, <3>2, Zenon DEF JobsBut
  <2>4. \A n, m \in DOMAIN jobs' :
          (jobs'[n].live /\ jobs'[m].live /\ jobs'[n].conn = jobs'[m].conn) => n = m
    BY DEF JobsBut
  <2>5. QED
    BY <2>2, <2>3, <2>4, JobPartsNext
<1>5. ASSUME NEW d \in Conns
      PROVE  HandlerInv(conn[d])' /\ ChainShape(conn[d], chain[d])'
  <2>1. PICK k : k = conn'[d]
    OBVIOUS
  <2>2. HandlerInv(k) /\ ChainShape(k, chain'[d])
    BY <1>1, <1>2, <2>1
  <2>3. HandlerInv(k)'
    BY <2>2, SameInstant
  <2>4. HandlerInv(conn[d])'
    BY <2>1, <2>3 DEF HandlerInv, RequestShape, IdentityShape, Timely, AnsweredOnce, AnswerFollows,
       Settling, Asking, ByDirectory
  <2>5. ChainShape(conn'[d], chain'[d])
    BY <2>1, <2>2, Zenon
  <2>6. QED
    BY <2>4, <2>5
<1>6. QED
  BY <1>1, <1>3, <1>4, <1>5 DEF SurfaceInv, Named

(* A connection nobody consults for has no job.                            *)
LEMMA NoJobs ==
  ASSUME jobs \in Seq(Jobs), JobShape, NEW c \in Conns, UNCHANGED jobs,
         conn[c].phase # "resolving" \/ ~Waiting(c)
  PROVE  JobsBut(c)
<1>1. \A n \in DOMAIN jobs : jobs[n].live => jobs[n].conn # c
  BY JobParts, Zenon DEF Fits, Waiting
<1>2. \A n, m \in DOMAIN jobs :
        (jobs[n].live /\ jobs[m].live /\ jobs[n].conn = jobs[m].conn) => n = m
  BY JobParts
<1>3. jobs' = jobs /\ \A d \in Conns : Waiting(d) => Waiting(d)'
  BY DEF Waiting
<1>4. QED
  BY <1>1, <1>2, <1>3, Zenon DEF JobsBut

(* A consultation that leaves the pool.                                    *)
LEMMA Removing ==
  ASSUME jobs \in Seq(Jobs), NEW i \in DOMAIN jobs, jobs' = RemoveAt(jobs, i)
  PROVE  /\ jobs' \in Seq(Jobs) /\ DOMAIN jobs' = 1..(Len(jobs) - 1)
         /\ \A n \in DOMAIN jobs' : /\ n \in Nat
                                    /\ n < i => n \in DOMAIN jobs /\ jobs'[n] = jobs[n]
                                    /\ n >= i => n + 1 \in DOMAIN jobs /\ jobs'[n] = jobs[n + 1]
<1>1. Len(jobs) \in Nat /\ DOMAIN jobs = 1..Len(jobs) /\ i \in 1..Len(jobs)
  BY LenProperties
<1> DEFINE a == SubSeq(jobs, 1, i - 1)
           b == SubSeq(jobs, i + 1, Len(jobs))
<1>2. /\ a \in Seq(Jobs) /\ Len(a) = i - 1
      /\ \A n \in 1..(i - 1) : a[n] = jobs[n]
  BY <1>1, SubSeqProperties
<1>3. /\ b \in Seq(Jobs) /\ Len(b) = Len(jobs) - i
      /\ \A n \in 1..(Len(jobs) - i) : b[n] = jobs[i + n]
  BY <1>1, SubSeqProperties
<1>4. jobs' = a \o b
  BY DEF RemoveAt
<1> HIDE DEF a, b
<1>5. /\ a \o b \in Seq(Jobs) /\ Len(a \o b) = Len(a) + Len(b)
      /\ \A n \in 1..(Len(a) + Len(b)) :
           (a \o b)[n] = IF n <= Len(a) THEN a[n] ELSE b[n - Len(a)]
  BY <1>2, <1>3, ConcatProperties
<1>6. jobs' \in Seq(Jobs) /\ DOMAIN jobs' = 1..(Len(jobs) - 1)
  <2>1. DOMAIN (a \o b) = 1..Len(a \o b)
    BY <1>5, LenProperties
  <2>2. Len(a \o b) = Len(jobs) - 1
    BY <1>1, <1>2, <1>3, <1>5
  <2>3. QED
    BY <1>4, <1>5, <2>1, <2>2
<1>7. ASSUME NEW n \in 1..(Len(jobs) - 1), n < i PROVE n \in DOMAIN jobs /\ jobs'[n] = jobs[n]
  BY <1>1, <1>2, <1>3, <1>4, <1>5, <1>7
<1>8. ASSUME NEW n \in 1..(Len(jobs) - 1), n >= i
      PROVE  n + 1 \in DOMAIN jobs /\ jobs'[n] = jobs[n + 1]
  <2>1. n - (i - 1) \in 1..(Len(jobs) - i) /\ i + (n - (i - 1)) = n + 1
    BY <1>1, <1>8
  <2>2. b[n - (i - 1)] = jobs[n + 1]
    BY <1>3, <2>1
  <2>3. (a \o b)[n] = b[n - (i - 1)]
    BY <1>1, <1>2, <1>3, <1>5, <1>8
  <2>4. QED
    BY <1>1, <1>4, <1>8, <2>2, <2>3
<1>9. QED
  BY <1>1, <1>6, <1>7, <1>8

(* What is left of the pool's work when one consultation leaves it.        *)
LEMMA Dropping ==
  ASSUME jobs \in Seq(Jobs), JobShape, NEW i \in DOMAIN jobs, jobs' = RemoveAt(jobs, i)
  PROVE  /\ jobs' \in Seq(Jobs)
         /\ \A n \in DOMAIN jobs' : \E m \in DOMAIN jobs : m # i /\ jobs[m] = jobs'[n]
         /\ \A n, m \in DOMAIN jobs' :
              (jobs'[n].live /\ jobs'[m].live /\ jobs'[n].conn = jobs'[m].conn) => n = m
         /\ \A d \in Conns : Waiting(d) => Waiting(d)' \/ (jobs[i].live /\ jobs[i].conn = d)
<1>1. /\ jobs' \in Seq(Jobs) /\ DOMAIN jobs' = 1..(Len(jobs) - 1)
      /\ \A n \in DOMAIN jobs' : /\ n \in Nat
                                 /\ n < i => n \in DOMAIN jobs /\ jobs'[n] = jobs[n]
                                 /\ n >= i => n + 1 \in DOMAIN jobs /\ jobs'[n] = jobs[n + 1]
  BY Removing
<1>2. Len(jobs) \in Nat /\ DOMAIN jobs = 1..Len(jobs) /\ i \in Nat
  BY LenProperties
<1>3. \A n, m \in DOMAIN jobs :
        (jobs[n].live /\ jobs[m].live /\ jobs[n].conn = jobs[m].conn) => n = m
  BY JobParts
<1>4. ASSUME NEW n \in DOMAIN jobs' PROVE \E m \in DOMAIN jobs : m # i /\ jobs[m] = jobs'[n]
  <2>1. CASE n < i
    BY <1>1, <1>2, <2>1
  <2>2. CASE n >= i
    BY <1>1, <1>2, <2>2
  <2>3. QED
    BY <1>1, <1>2, <2>1, <2>2
<1>5. ASSUME NEW n \in DOMAIN jobs', NEW m \in DOMAIN jobs',
             jobs'[n].live, jobs'[m].live, jobs'[n].conn = jobs'[m].conn
      PROVE  n = m
  <2>1. PICK k \in DOMAIN jobs : jobs[k] = jobs'[n] /\ k = IF n < i THEN n ELSE n + 1
    BY <1>1, <1>2
  <2>2. PICK l \in DOMAIN jobs : jobs[l] = jobs'[m] /\ l = IF m < i THEN m ELSE m + 1
    BY <1>1, <1>2
  <2>3. k = l
    BY <1>3, <1>5, <2>1, <2>2
  <2>4. QED
    BY <1>1, <1>2, <2>1, <2>2, <2>3
<1>6. ASSUME NEW d \in Conns, Waiting(d), ~(jobs[i].live /\ jobs[i].conn = d) PROVE Waiting(d)'
  <2>1. PICK m \in DOMAIN jobs : jobs[m].conn = d /\ jobs[m].live
    BY <1>6 DEF Waiting
  <2>2. m # i
    BY <1>6, <2>1
  <2>3. \E n \in DOMAIN jobs' : jobs'[n] = jobs[m]
    <3>1. CASE m < i
      <4>1. m \in DOMAIN jobs'
        BY <1>1, <1>2, <3>1
      <4>2. QED
        BY <1>1, <3>1, <4>1
    <3>2. CASE m > i
      <4>1. m - 1 \in DOMAIN jobs' /\ m - 1 >= i /\ (m - 1) + 1 = m
        BY <1>1, <1>2, <3>2
      <4>2. QED
        BY <1>1, <4>1
    <3>3. QED
      BY <1>2, <2>2, <3>1, <3>2
  <2>4. QED
    BY <2>1, <2>3, Zenon DEF Waiting
<1>7. QED
  BY <1>1, <1>4, <1>5, <1>6

(* resolve up to its wait.                                                 *)
LEMMA ResolveKeeps ==
  ASSUME SurfaceInv, NEW c \in Conns, NEW h \in Handlers, NEW after \in {"setup", "guard"},
         \/ conn[c].phase = "setup" /\ h.phase = "setup" /\ after = "setup"
         \/ conn[c].phase = "guard" /\ h.phase = "guard" /\ after = "guard" /\ h.begunAt = clock,
         HandlerInv(h), ChainShape(h, chain[c]), h.id.status # "refused", ~h.defect,
         Resolve(c, h, after), UNCHANGED <<clock, dir, changes, revoked, stopped, chain>>
  PROVE  SurfaceInv'
<1>1. /\ Env /\ jobs \in Seq(Jobs) /\ conn \in [Conns -> Handlers] /\ chain \in [Conns -> Chains]
      /\ JobShape /\ (Named(dir) => revoked = None)
      /\ \A d \in Conns : HandlerInv(conn[d]) /\ ChainShape(conn[d], chain[d])
  BY TypeGroups DEF SurfaceInv
<1>2. clock \in Nat /\ h.id \in Identities /\ Lifetime \in Nat
  BY <1>1, IdentityAssumption DEF Env, Handlers
<1> DEFINE id == IF stopped THEN mark_unknown(h.id, clock) ELSE h.id
           g == [h EXCEPT !.id = id, !.asked = clock, !.phase = "resolving", !.after = after]
<1>3. conn' = [conn EXCEPT ![c] = g]
  <2>1. CASE stopped
    BY <2>1, Zenon DEF Resolve
  <2>2. CASE ~stopped
    <3>1. conn' = [conn EXCEPT ![c] = [h EXCEPT !.asked = clock, !.phase = "resolving",
                                               !.after = after]]
      BY <2>2, Zenon DEF Resolve
    <3>2. g = [h EXCEPT !.asked = clock, !.phase = "resolving", !.after = after]
      BY <2>2 DEF Handlers
    <3>3. QED
      BY <3>1, <3>2, Zenon
  <2>3. QED
    BY <2>1, <2>2
<1>4. /\ id \in Identities /\ id.peer = h.id.peer /\ id.principal = h.id.principal
      /\ id.refusal = h.id.refusal /\ id.touched = h.id.touched
      /\ id.status \in {"unknown", "established"} /\ (stopped => id.status = "unknown")
      /\ id.status = "established" => id = h.id
  BY <1>2, IdentityTypes DEF Identities, mark_unknown
<1>5. g \in Handlers
  BY <1>2, <1>4 DEF Handlers, Phases
<1>6. /\ g.phase = "resolving" /\ g.id = id /\ g.after = after /\ g.asked = clock
      /\ g.requests = h.requests /\ g.replies = h.replies /\ g.reply = h.reply
      /\ g.answered = h.answered /\ g.defect = h.defect /\ g.failed = h.failed
      /\ g.begunAt = h.begunAt /\ g.unread = h.unread
  BY DEF Handlers
<1> HIDE DEF g, id
<1>7. conn' \in [Conns -> Handlers] /\ conn'[c] = g /\ \A d \in Conns : d # c => conn'[d] = conn[d]
  BY <1>1, <1>3, <1>5, Placing
<1>8. HandlerInv(g)
  <2>1. RequestShape(g) /\ AnsweredOnce(g)
    BY <1>6 DEF HandlerInv, RequestShape, AnsweredOnce, Settling, Asking, Serving
  <2>2. IdentityShape(g)
    BY <1>4, <1>6 DEF HandlerInv, IdentityShape, Settling, Serving
  <2>3. Timely(g)
    <3>1. g.id.status = "established" => g.id = h.id
      BY <1>4, <1>6
    <3>2. QED
      BY <1>2, <1>4, <1>6, <3>1 DEF HandlerInv, Timely, Serving
  <2>4. AnswerFollows(g)
    BY <1>6 DEF AnswerFollows
  <2>5. QED
    BY <2>1, <2>2, <2>3, <2>4 DEF HandlerInv
<1>9. ChainShape(g, chain[c])
  BY <1>4, <1>6, SameTelling
<1>10. /\ jobs' \in Seq(Jobs) /\ JobShape'
  <2>1. \A i \in DOMAIN jobs : jobs[i] \in Jobs
    BY <1>1, ElementOfSeq
  <2>2. /\ \A i \in DOMAIN jobs : jobs[i].live => Fits(jobs[i], conn[jobs[i].conn], revoked)
        /\ \A i, j \in DOMAIN jobs :
             (jobs[i].live /\ jobs[j].live /\ jobs[i].conn = jobs[j].conn) => i = j
        /\ \A d \in Conns : conn[d].phase = "resolving" =>
             Waiting(d) \/ conn[d].id.status = "unknown"
    BY <1>1, JobParts
  <2>3. ASSUME NEW i \in DOMAIN jobs, jobs[i].live
        PROVE  /\ jobs[i].conn # c
               /\ Fits(jobs[i], conn'[jobs[i].conn], revoked')
    <3>1. jobs[i].conn \in Conns /\ jobs[i].conn # c
      BY <2>1, <2>2, <2>3 DEF Jobs, Fits
    <3>2. conn'[jobs[i].conn] = conn[jobs[i].conn] /\ revoked' = revoked
      BY <1>7, <3>1
    <3>3. QED
      BY <2>2, <2>3, <3>1, <3>2, Zenon
  <2>4. CASE stopped
    <3>1. jobs' = jobs
      BY <2>4 DEF Resolve
    <3>2. \A d \in Conns : Waiting(d)' = Waiting(d)
      BY <3>1 DEF Waiting
    <3>3. ASSUME NEW d \in Conns, conn'[d].phase = "resolving"
          PROVE  Waiting(d)' \/ conn'[d].id.status = "unknown"
      BY <1>4, <1>6, <1>7, <2>2, <2>4, <3>2, <3>3
    <3>4. QED
      BY <1>1, <2>2, <2>3, <3>1, <3>3, JobPartsNext
  <2>5. CASE ~stopped
    <3> DEFINE job == [conn |-> c, live |-> TRUE, stage |-> "queued",
                       admitted |-> FALSE, answer |-> None]
    <3>1. jobs' = Append(jobs, job)
      BY <2>5, Zenon DEF Resolve, Submit
    <3>2. job \in Jobs /\ job.conn = c /\ job.live /\ job.stage = "queued"
      BY DEF Jobs
    <3> HIDE DEF job
    <3>3. /\ jobs' \in Seq(Jobs) /\ Len(jobs) \in Nat
          /\ DOMAIN jobs = 1..Len(jobs) /\ DOMAIN jobs' = 1..(Len(jobs) + 1)
          /\ \A i \in DOMAIN jobs : jobs'[i] = jobs[i]
          /\ jobs'[Len(jobs) + 1] = job
      <4>1. /\ jobs' \in Seq(Jobs) /\ Len(jobs') = Len(jobs) + 1 /\ Len(jobs) \in Nat
            /\ \A i \in 1..Len(jobs) : jobs'[i] = jobs[i]
            /\ jobs'[Len(jobs) + 1] = job
        BY <1>1, <3>1, <3>2, AppendProperties
      <4>2. DOMAIN jobs = 1..Len(jobs)
        BY <1>1, LenProperties
      <4>3. DOMAIN jobs' = 1..Len(jobs')
        BY <4>1, LenProperties
      <4>4. QED
        BY <4>1, <4>2, <4>3
    <3>4. \A i \in DOMAIN jobs' : i \in DOMAIN jobs \/ i = Len(jobs) + 1
      BY <3>3
    <3>5. Fits(job, conn'[c], revoked')
      BY <1>6, <1>7, <3>2 DEF Fits
    <3>6. \A i \in DOMAIN jobs' : jobs'[i].live => Fits(jobs'[i], conn'[jobs'[i].conn], revoked')
      BY <2>3, <3>2, <3>3, <3>4, <3>5
    <3>7. \A i, j \in DOMAIN jobs' :
            (jobs'[i].live /\ jobs'[j].live /\ jobs'[i].conn = jobs'[j].conn) => i = j
      BY <2>2, <2>3, <3>2, <3>3, <3>4
    <3>8. ASSUME NEW d \in Conns, conn'[d].phase = "resolving"
          PROVE  Waiting(d)' \/ conn'[d].id.status = "unknown"
      <4>1. CASE d = c
        BY <3>2, <3>3, <4>1 DEF Waiting
      <4>2. CASE d # c
        <5>1. Waiting(d) => Waiting(d)'
          BY <3>3 DEF Waiting
        <5>2. QED
          BY <1>7, <2>2, <3>8, <4>2, <5>1
      <4>3. QED
        BY <4>1, <4>2
    <3>9. QED
      BY <3>3, <3>6, <3>7, <3>8, JobPartsNext
  <2>6. QED
    BY <2>4, <2>5
<1>11. ASSUME NEW d \in Conns
       PROVE  HandlerInv(conn[d])' /\ ChainShape(conn[d], chain[d])'
  <2>1. PICK k : k = conn'[d]
    OBVIOUS
  <2>2. HandlerInv(k) /\ ChainShape(k, chain'[d])
    BY <1>1, <1>7, <1>8, <1>9, <2>1
  <2>3. HandlerInv(k)'
    BY <2>2, SameInstant
  <2>4. HandlerInv(conn[d])'
    BY <2>1, <2>3 DEF HandlerInv, RequestShape, IdentityShape, Timely, AnsweredOnce, AnswerFollows,
       Settling, Asking, ByDirectory
  <2>5. ChainShape(conn'[d], chain'[d])
    BY <2>1, <2>2, Zenon
  <2>6. QED
    BY <2>4, <2>5
<1>12. TypeOK'
  BY <1>1, <1>7, <1>10, TypeGroupsNext DEF Env
<1>13. QED
  BY <1>1, <1>10, <1>11, <1>12 DEF SurfaceInv, Named

(* A request that begins: the identity counts it, and it is dated.         *)
LEMMA Beginning ==
  ASSUME SurfaceInv, NEW c \in Conns, conn[c].phase = "guard", ~conn[c].defect,
         NEW now, now = [conn[c] EXCEPT !.id = begin_request(conn[c].id), !.begunAt = clock]
  PROVE  /\ now \in Handlers /\ HandlerInv(now) /\ ChainShape(now, chain[c])
         /\ now.phase = "guard" /\ now.begunAt = clock /\ ~now.defect
         /\ now.id = begin_request(conn[c].id)
<1> DEFINE h == conn[c]
<1>1. /\ h \in Handlers /\ h.id \in Identities /\ HandlerInv(h) /\ ChainShape(h, chain[c])
      /\ clock \in Nat
  BY OneHandler
<1>2. begin_request(h.id) \in Identities
  BY <1>1, IdentityTypes
<1>3. now \in Handlers
  BY <1>1, <1>2 DEF Handlers
<1>4. /\ now.phase = "guard" /\ now.id = begin_request(h.id) /\ now.after = h.after
      /\ now.asked = h.asked
      /\ now.requests = h.requests /\ now.replies = h.replies /\ now.reply = h.reply
      /\ now.answered = h.answered /\ now.defect = h.defect /\ now.failed = h.failed
      /\ now.begunAt = clock /\ now.unread = h.unread
  BY <1>1 DEF Handlers
<1>5. /\ now.id.peer = h.id.peer /\ now.id.status = h.id.status /\ now.id.due = h.id.due
      /\ now.id.principal = h.id.principal /\ now.id.refusal = h.id.refusal
      /\ now.id.touched = h.id.touched
  BY <1>1, <1>4 DEF begin_request, Identities
<1>6. HandlerInv(now)
  <2>1. RequestShape(now) /\ AnsweredOnce(now)
    BY <1>1, <1>4 DEF HandlerInv, RequestShape, AnsweredOnce, Settling, Asking, Serving
  <2>2. IdentityShape(now)
    BY <1>1, <1>4, <1>5 DEF HandlerInv, IdentityShape, Settling, Serving
  <2>3. Timely(now)
    BY <1>1, <1>4, <1>5 DEF HandlerInv, Timely, Serving, ByDirectory
  <2>4. AnswerFollows(now)
    BY <1>4 DEF AnswerFollows
  <2>5. QED
    BY <2>1, <2>2, <2>3, <2>4 DEF HandlerInv
<1>7. ChainShape(now, chain[c])
  BY <1>1, <1>4, <1>5, SameTelling
<1>8. QED
  BY <1>3, <1>4, <1>6, <1>7

(* _refuse: the connection's own reason, and the end of it.                *)
LEMMA Refusing ==
  ASSUME NEW h \in Handlers, HandlerInv(h), h.phase = "guard", h.id.status = "refused"
  PROVE  /\ Refuse(h) \in Handlers /\ HandlerInv(Refuse(h))
         /\ Refuse(h).phase = "finish" /\ Refuse(h).id = h.id
<1> DEFINE k == Close(h)
<1>1. k \in Handlers
  BY HandlerTypes
<1>2. /\ k.closing /\ k.phase = h.phase /\ k.id = h.id /\ k.after = h.after
      /\ k.asked = h.asked /\ k.begunAt = h.begunAt
      /\ k.requests = h.requests /\ k.replies = h.replies /\ k.reply = h.reply
      /\ k.answered = h.answered /\ k.defect = h.defect /\ k.failed = h.failed
      /\ k.unread = h.unread
  BY DEF Handlers, Close
<1> HIDE DEF k
<1>3. HandlerInv(k)
  <2>1. RequestShape(k) /\ AnsweredOnce(k)
    BY <1>2 DEF HandlerInv, RequestShape, AnsweredOnce, Settling, Asking, Serving
  <2>2. IdentityShape(k) /\ Timely(k) /\ AnswerFollows(k)
    BY <1>2 DEF HandlerInv, IdentityShape, Timely, AnswerFollows, Settling, Serving
  <2>3. QED
    BY <2>1, <2>2 DEF HandlerInv
<1>4. h.id.refusal \in Refusals
  BY DEF HandlerInv, IdentityShape, Handlers, Identities
<1>5. Kept(h.id.refusal) = h.id.refusal
  BY <1>4, KeptCodes
<1>6. /\ Reply(k, h.id.refusal) \in Handlers /\ HandlerInv(Reply(k, h.id.refusal))
      /\ Reply(k, h.id.refusal).id = h.id
  <2>1. Kept(h.id.refusal) \notin {"none", "decided", "policy_unavailable",
                                   "principal_groups_unavailable"}
    BY <1>4, <1>5 DEF Refusals
  <2>2. Kept(h.id.refusal) \in Replies
    BY <1>4, <1>5 DEF Replies
  <2>3. QED
    BY <1>1, <1>2, <1>3, <1>5, <2>1, <2>2, ReplyKeeps DEF Asking
<1>7. Reply(k, h.id.refusal).phase = "finish"
  BY <1>1, <1>2, Replying
<1>8. QED
  BY <1>6, <1>7 DEF Refuse, k

(* _guard.                                                                 *)
LEMMA GuardKeeps ==
  ASSUME SurfaceInv, NEW c \in Conns, Guard(c)
  PROVE  SurfaceInv'
<1> DEFINE h == conn[c]
           now == [h EXCEPT !.id = begin_request(h.id), !.begunAt = clock]
<1>1. /\ h \in Handlers /\ HandlerInv(h) /\ ChainShape(h, chain[c]) /\ h.phase = "guard"
      /\ UNCHANGED <<clock, dir, changes, revoked, stopped, chain>>
  BY OneHandler DEF Guard
<1>2. \/ h.defect /\ conn' = [conn EXCEPT ![c] = Defect(h)] /\ UNCHANGED jobs
      \/ /\ ~h.defect /\ begin_request(h.id).status = "refused"
         /\ conn' = [conn EXCEPT ![c] = Refuse(now)] /\ UNCHANGED jobs
      \/ /\ ~h.defect /\ begin_request(h.id).status # "refused"
         /\ ~needs_lookup(begin_request(h.id), clock)
         /\ conn' = [conn EXCEPT ![c] = [now EXCEPT !.phase = "body"]] /\ UNCHANGED jobs
      \/ /\ ~h.defect /\ begin_request(h.id).status # "refused"
         /\ Resolve(c, now, "guard")
  BY Zenon DEF Guard
<1>3. ~h.defect => /\ now \in Handlers /\ HandlerInv(now) /\ ChainShape(now, chain[c])
                   /\ now.phase = "guard" /\ now.begunAt = clock /\ ~now.defect
                   /\ now.id = begin_request(h.id)
  BY <1>1, Beginning
<1> HIDE DEF now
<1>4. CASE h.defect /\ conn' = [conn EXCEPT ![c] = Defect(h)] /\ UNCHANGED jobs
  <2>1. /\ Defect(h) \in Handlers /\ HandlerInv(Defect(h))
        /\ Defect(h).phase = "finish" /\ Defect(h).id = h.id
    BY <1>1, DefectKeeps
  <2>2. ChainShape(Defect(h), chain[c])
    BY <1>1, <2>1, SameTelling
  <2>3. QED
    BY <1>1, <1>4, <2>1, <2>2, ServingKeeps
<1>5. CASE /\ ~h.defect /\ begin_request(h.id).status = "refused"
           /\ conn' = [conn EXCEPT ![c] = Refuse(now)] /\ UNCHANGED jobs
  <2>1. /\ Refuse(now) \in Handlers /\ HandlerInv(Refuse(now))
        /\ Refuse(now).phase = "finish" /\ Refuse(now).id = now.id
    BY <1>3, <1>5, Refusing
  <2>2. ChainShape(Refuse(now), chain[c])
    BY <1>3, <1>5, <2>1, SameTelling
  <2>3. QED
    BY <1>1, <1>5, <2>1, <2>2, ServingKeeps
<1>6. CASE /\ ~h.defect /\ begin_request(h.id).status # "refused"
           /\ ~needs_lookup(begin_request(h.id), clock)
           /\ conn' = [conn EXCEPT ![c] = [now EXCEPT !.phase = "body"]] /\ UNCHANGED jobs
  <2> DEFINE g == [now EXCEPT !.phase = "body"]
  <2>1. g \in Handlers
    BY <1>3, <1>6, HandlerTypes DEF Phases
  <2>2. /\ g.phase = "body" /\ g.id = now.id /\ g.after = now.after
        /\ g.asked = now.asked /\ g.begunAt = clock
        /\ g.requests = now.requests /\ g.replies = now.replies /\ g.reply = now.reply
        /\ g.answered = now.answered /\ g.defect = now.defect /\ g.failed = now.failed
        /\ g.unread = now.unread
    BY <1>3, <1>6 DEF Handlers
  <2> HIDE DEF g
  <2>3. HandlerInv(g)
    <3>1. RequestShape(g) /\ AnsweredOnce(g)
      BY <1>3, <1>6, <2>2 DEF HandlerInv, RequestShape, AnsweredOnce, Settling, Asking, Serving
    <3>2. IdentityShape(g)
      BY <1>3, <1>6, <2>2 DEF HandlerInv, IdentityShape, Settling, Serving
    <3>3. Timely(g)
      <4>1. clock \in Nat /\ now.id \in Identities
        BY <1>3, <1>6, OneHandler DEF Handlers
      <4>2. now.id.due # None => now.id.due \in Nat /\ clock < now.id.due
        BY <1>3, <1>6, <4>1 DEF needs_lookup, is_due, Identities
      <4>3. now.id.status = "established" => clock < now.id.due
        BY <1>3, <1>6, <4>2 DEF HandlerInv, IdentityShape
      <4>4. QED
        BY <1>3, <1>6, <2>2, <4>3 DEF HandlerInv, Timely, Serving
    <3>4. QED
      BY <2>2, <3>1, <3>2, <3>3 DEF HandlerInv, AnswerFollows
  <2>4. ChainShape(g, chain[c])
    BY <1>3, <1>6, <2>2, SameTelling
  <2>5. QED
    BY <1>1, <1>6, <2>1, <2>2, <2>3, <2>4, ServingKeeps DEF g
<1>7. CASE /\ ~h.defect /\ begin_request(h.id).status # "refused"
           /\ Resolve(c, now, "guard")
  BY <1>1, <1>3, <1>7, ResolveKeeps
<1>8. QED
  BY <1>2, <1>4, <1>5, <1>6, <1>7

(* An identity a resolution leaves: refused for a reason, or bound for a   *)
(* lifetime that no revocation before it was asked for reaches.            *)
Sound(id) ==
  /\ id.status # "refused" => id.peer # None
  /\ id.status = "refused" <=> id.refusal # None
  /\ id.status = "refused" => id.principal = None
  /\ id.status = "established" =>
       /\ id.principal # None /\ id.due # None /\ id.due <= clock + Lifetime
       /\ ByDirectory(id) => /\ AdmissionGroup \in id.principal.groups
                             /\ revoked # None => id.due <= revoked + Lifetime

(* What the chains of an open connection say of its identity.              *)
TellsAll(records, id) ==
  \A s \in Scopes :
    IF s \in id.touched
    THEN /\ Tells(records[s], id, s)
         /\ id.principal = None /\ id.status # "refused" =>
              s = "local" /\ Last(records[s]) = Opened(id)
    ELSE records[s] = <<>>

(* On an open connection the chains say that.                              *)
LEMMA OpenChain ==
  ASSUME NEW h, NEW records, h.phase # "closed"
  PROVE  ChainShape(h, records) <=> TellsAll(records, h.id)
  BY DEF ChainShape, TellsAll

(* on_connection: the connection is recorded with whom it resolved to, or  *)
(* with nobody.                                                            *)
LEMMA SettledKeeps ==
  ASSUME SurfaceInv, NEW c \in Conns, Settling(conn[c]), conn[c].phase # "none",
         NEW id \in Identities, Sound(id), id.touched = {}, JobsBut(c),
         AfterResolve(c, [conn[c] EXCEPT !.id = id], chain),
         UNCHANGED <<clock, dir, changes, revoked, stopped>>
  PROVE  SurfaceInv'
<1> DEFINE h == conn[c]
           k == [h EXCEPT !.id = id]
           g == [k EXCEPT !.phase = "idle", !.id = Touched(@, "local")]
<1>1. /\ h \in Handlers /\ HandlerInv(h) /\ ChainShape(h, chain[c]) /\ chain \in [Conns -> Chains]
      /\ chain[c] \in Chains /\ clock \in Nat
  BY OneHandler
<1>2. h.after = "setup" /\ h.phase # "closed" /\ h.id.touched = {} /\ ~h.defect
  BY <1>1 DEF HandlerInv, RequestShape, IdentityShape, Settling
<1>3. k \in Handlers /\ k.after = "setup" /\ k.id = id
  BY <1>1, <1>2 DEF Handlers
<1>4. conn' = [conn EXCEPT ![c] = g] /\ chain' = TouchChain(chain, c, id, "local")
  BY <1>3, Zenon DEF AfterResolve
<1>5. Touched(id, "local") \in Identities /\ "local" \in Scopes
  BY IdentityTypes, SurfaceAssumption
<1>6. g \in Handlers
  BY <1>1, <1>3, <1>5 DEF Handlers, Phases
<1>7. /\ g.phase = "idle" /\ g.id = Touched(id, "local") /\ g.after = h.after
      /\ g.asked = h.asked
      /\ g.requests = h.requests /\ g.replies = h.replies /\ g.reply = h.reply
      /\ g.answered = h.answered /\ g.defect = h.defect /\ g.failed = h.failed
      /\ g.unread = h.unread
  BY <1>1 DEF Handlers
<1>8. /\ g.id.touched = {"local"} /\ g.id.peer = id.peer /\ g.id.status = id.status
      /\ g.id.principal = id.principal /\ g.id.refusal = id.refusal /\ g.id.due = id.due
  BY <1>7 DEF Touched, Identities
<1> HIDE DEF g, k
<1>9. HandlerInv(g)
  <2>1. RequestShape(g) /\ AnsweredOnce(g)
    BY <1>1, <1>7 DEF HandlerInv, RequestShape, AnsweredOnce, Settling, Asking, Serving
  <2>2. IdentityShape(g)
    BY <1>2, <1>7, <1>8 DEF Sound, IdentityShape, Settling, Serving
  <2>3. Timely(g)
    BY <1>1, <1>7, <1>8 DEF HandlerInv, Timely, Sound, Serving, ByDirectory
  <2>4. AnswerFollows(g)
    BY <1>1, <1>7 DEF HandlerInv, RequestShape, AnswerFollows, Settling, Refusals
  <2>5. QED
    BY <2>1, <2>2, <2>3, <2>4 DEF HandlerInv
<1>10. /\ chain' \in [Conns -> Chains] /\ \A d \in Conns : d # c => chain'[d] = chain[d]
       /\ ChainShape(g, chain'[c])
  <2>1. chain' = AppendTo(chain, c, {"local"}, Opened(id))
    BY <1>4 DEF TouchChain
  <2>2. Opened(id) \in Records
    BY DEF Opened, Records, Identities
  <2>3. /\ chain' \in [Conns -> Chains] /\ \A d \in Conns : d # c => chain'[d] = chain[d]
        /\ \A s \in Scopes : chain'[c][s] = IF s \in {"local"} THEN Append(chain[c][s], Opened(id))
                                            ELSE chain[c][s]
    <3>1. {"local"} \subseteq Scopes /\ chain \in [Conns -> Chains]
      BY <1>1, <1>5
    <3>2. Wrote(chain', c, {"local"}, Opened(id))
      BY <2>1, <2>2, <3>1, Appending
    <3>3. QED
      BY <3>2, Zenon DEF Wrote
  <2>4. \A s \in Scopes : chain[c][s] = <<>>
    BY <1>1, <1>2 DEF ChainShape
  <2>5. chain'[c]["local"] = Append(<<>>, Opened(id))
    BY <1>5, <2>3, <2>4
  <2>6. Opened(g.id) = Opened(id)
    BY <1>8 DEF Opened
  <2>7. Tells(chain'[c]["local"], g.id, "local") /\ Last(chain'[c]["local"]) = Opened(g.id)
    <3>1. g.id.refusal = "peer_not_admitted" => g.id.principal = None
      BY <1>8, NoneAssumption DEF Sound, Refusals
    <3>2. /\ Tells(Append(<<>>, Opened(g.id)), g.id, "local")
          /\ Last(Append(<<>>, Opened(g.id))) = Opened(g.id)
      BY <3>1, Opening
    <3>3. QED
      BY <2>5, <2>6, <3>2
  <2>8. \A s \in Scopes : s # "local" => chain'[c][s] = <<>>
    BY <2>3, <2>4
  <2>9. ChainShape(g, chain'[c])
    BY <1>7, <1>8, <2>7, <2>8 DEF ChainShape
  <2>10. QED
    BY <2>3, <2>9
<1>11. QED
  BY <1>4, <1>6, <1>7, <1>9, <1>10, OutcomeKeeps

(* _guard behind its wait: refused, or on to the body.                     *)
LEMMA GuardedKeeps ==
  ASSUME SurfaceInv, NEW c \in Conns, conn[c].phase = "resolving", conn[c].after = "guard",
         NEW id \in Identities, Sound(id), id.touched = conn[c].id.touched, JobsBut(c),
         id.status = "established" => conn[c].begunAt < id.due,
         NEW ch, ch \in [Conns -> Chains], \A d \in Conns : d # c => ch[d] = chain[d],
         TellsAll(ch[c], id),
         AfterResolve(c, [conn[c] EXCEPT !.id = id], ch),
         UNCHANGED <<clock, dir, changes, revoked, stopped>>
  PROVE  SurfaceInv'
<1> DEFINE h == conn[c]
           k == [h EXCEPT !.id = id]
           w == [k EXCEPT !.phase = "guard"]
           g == [k EXCEPT !.phase = "body"]
<1>1. h \in Handlers /\ HandlerInv(h) /\ clock \in Nat
  BY OneHandler
<1>2. k \in Handlers /\ k.after = "guard" /\ k.id = id /\ w \in Handlers /\ g \in Handlers
  BY <1>1 DEF Handlers, Phases
<1>3. conn' = [conn EXCEPT ![c] = IF id.status = "refused" THEN Refuse(k) ELSE g] /\ chain' = ch
  BY <1>2, Zenon DEF AfterResolve
<1>4. \A f \in {w, g} :
        /\ f.id = id /\ f.after = h.after /\ f.asked = h.asked /\ f.begunAt = h.begunAt
        /\ f.requests = h.requests /\ f.replies = h.replies /\ f.reply = h.reply
        /\ f.answered = h.answered /\ f.defect = h.defect /\ f.failed = h.failed
        /\ f.unread = h.unread
  BY <1>1 DEF Handlers
<1>5. w.phase = "guard" /\ g.phase = "body"
  BY <1>2 DEF Handlers
<1>6. Refuse(k) = Refuse(w)
  BY <1>2 DEF Refuse, Reply, EndOfRequest, Sent, Close, Handlers
<1> HIDE DEF w, g, k
<1>7. ASSUME NEW f \in {w, g}, f = g => id.status # "refused"
      PROVE  HandlerInv(f)
  <2>1. RequestShape(f) /\ AnsweredOnce(f)
    BY <1>1, <1>4, <1>5 DEF HandlerInv, RequestShape, AnsweredOnce, Settling, Asking, Serving
  <2>2. IdentityShape(f)
    BY <1>1, <1>4, <1>5, <1>7 DEF HandlerInv, IdentityShape, Sound, Settling, Serving
  <2>3. Timely(f)
    BY <1>1, <1>4, <1>5 DEF HandlerInv, Timely, Sound, Serving
  <2>4. AnswerFollows(f)
    BY <1>4, <1>5 DEF AnswerFollows
  <2>5. QED
    BY <2>1, <2>2, <2>3, <2>4 DEF HandlerInv
<1>8. CASE id.status = "refused"
  <2>1. HandlerInv(w)
    BY <1>5, <1>7
  <2>2. /\ Refuse(w) \in Handlers /\ HandlerInv(Refuse(w))
        /\ Refuse(w).phase = "finish" /\ Refuse(w).id = id
    BY <1>2, <1>4, <1>5, <1>8, <2>1, Refusing
  <2>3. ChainShape(Refuse(w), chain'[c])
    BY <1>3, <2>2, OpenChain
  <2>4. QED
    BY <1>3, <1>6, <1>8, <2>2, <2>3, OutcomeKeeps
<1>9. CASE id.status # "refused"
  <2>1. HandlerInv(g)
    BY <1>7, <1>9
  <2>2. ChainShape(g, chain'[c])
    BY <1>3, <1>4, <1>5, OpenChain
  <2>3. QED
    BY <1>2, <1>3, <1>5, <1>9, <2>1, <2>2, OutcomeKeeps
<1>10. QED
  BY <1>8, <1>9

(* setup.                                                                  *)
LEMMA SetupKeeps ==
  ASSUME SurfaceInv, NEW c \in Conns, Setup(c)
  PROVE  SurfaceInv'
<1> DEFINE h == conn[c]
           settled == IF h.id.status # "refused" /\ is_unmapped(h.id.peer)
                      THEN refuse(h.id, "peer_uid_unmapped") ELSE h.id
<1>1. /\ h \in Handlers /\ h.id \in Identities /\ HandlerInv(h) /\ ChainShape(h, chain[c])
      /\ jobs \in Seq(Jobs) /\ JobShape
  BY OneHandler
<1>2. h.phase = "setup" /\ UNCHANGED <<clock, dir, changes, revoked, stopped>>
  BY DEF Setup
<1>3. /\ settled \in Identities /\ settled.touched = h.id.touched /\ settled.peer = h.id.peer
      /\ settled = h.id \/ (settled.status = "refused" /\ settled.principal = None
                            /\ settled.refusal = "peer_uid_unmapped")
  <2>1. refuse(h.id, "peer_uid_unmapped") \in Identities
    BY <1>1, IdentityTypes DEF Refusals
  <2>2. QED
    BY <1>1, <2>1 DEF refuse, Identities
<1>4. \/ settled.status = "refused" /\ UNCHANGED jobs
         /\ AfterResolve(c, [h EXCEPT !.id = settled], chain)
      \/ settled.status # "refused" /\ Resolve(c, h, "setup") /\ UNCHANGED chain
  BY Zenon DEF Setup
<1> HIDE DEF settled
<1>5. CASE /\ settled.status = "refused" /\ UNCHANGED jobs
           /\ AfterResolve(c, [h EXCEPT !.id = settled], chain)
  <2>1. Settling(h) /\ settled.touched = {}
    BY <1>1, <1>2, <1>3 DEF HandlerInv, IdentityShape, Settling
  <2>2. Sound(settled)
    BY <1>1, <1>3, <1>5, NoneAssumption DEF Sound, HandlerInv, IdentityShape, Refusals
  <2>3. JobsBut(c)
    BY <1>1, <1>2, <1>5, NoJobs
  <2>4. QED
    BY <1>2, <1>3, <1>5, <2>1, <2>2, <2>3, SettledKeeps
<1>6. CASE settled.status # "refused" /\ Resolve(c, h, "setup") /\ UNCHANGED chain
  <2>1. h.id.status # "refused" /\ ~h.defect
    BY <1>1, <1>2, <1>3, <1>6 DEF HandlerInv, IdentityShape, Settling
  <2>2. QED
    BY <1>1, <1>2, <1>6, <2>1, ResolveKeeps
<1>7. QED
  BY <1>4, <1>5, <1>6

(* Whom the directory's answer makes of a peer.                            *)
LEMMA BuiltPrincipal ==
  ASSUME NEW peer \in Peers, NEW answer \in Answers \cup {None}
  PROVE  LET p == build_principal(peer, answer)
         IN  /\ p \in Principals /\ p # None
             /\ p.named <=> answer # None
             /\ answer # None => p.groups = answer
<1>1. answer # None => answer \in SUBSET Groups
  BY IdentityAssumption
<1>2. build_principal(peer, answer) \in Principals
  BY <1>1 DEF build_principal, Principals, Peers
<1>3. QED
  BY <1>2, NoneAssumption DEF build_principal

(* The end of a wait without a verdict: an unknown, and what was known of  *)
(* the principal stays.                                                    *)
LEMMA UnknownKeeps ==
  ASSUME SurfaceInv, NEW c \in Conns, conn[c].phase = "resolving", JobsBut(c),
         NEW id \in Identities, id.status = "unknown", id.peer = conn[c].id.peer,
         id.principal = conn[c].id.principal, id.refusal = conn[c].id.refusal,
         id.touched = conn[c].id.touched,
         AfterResolve(c, [conn[c] EXCEPT !.id = id], chain),
         UNCHANGED <<clock, dir, changes, revoked, stopped>>
  PROVE  SurfaceInv'
<1> DEFINE h == conn[c]
<1>1. /\ h \in Handlers /\ HandlerInv(h) /\ ChainShape(h, chain[c]) /\ chain \in [Conns -> Chains]
  BY OneHandler
<1>2. h.id.status # "refused" /\ h.after \in {"setup", "guard"}
  BY <1>1 DEF HandlerInv, IdentityShape, Handlers
<1>3. Sound(id)
  BY <1>1, <1>2 DEF Sound, HandlerInv, IdentityShape
<1>4. CASE h.after = "setup"
  <2>1. Settling(h) /\ id.touched = {}
    BY <1>1, <1>4 DEF HandlerInv, IdentityShape, Settling
  <2>2. QED
    BY <1>3, <2>1, SettledKeeps
<1>5. CASE h.after = "guard"
  <2>1. TellsAll(chain[c], h.id)
    BY <1>1, OpenChain
  <2>2. /\ \A told, s : Tells(told, h.id, s) => Tells(told, id, s)
        /\ Opened(id) = Opened(h.id)
    BY DEF Tells, Opened
  <2>3. TellsAll(chain[c], id)
    BY <1>2, <2>1, <2>2 DEF TellsAll
  <2>4. QED
    BY <1>1, <1>3, <1>5, <2>3, GuardedKeeps
<1>6. QED
  BY <1>2, <1>4, <1>5

(* mark_unknown leaves everything but what may be relied on.               *)
LEMMA Unknowing ==
  ASSUME NEW id \in Identities, NEW at \in Nat
  PROVE  LET u == mark_unknown(id, at)
         IN  /\ u \in Identities /\ u.status = "unknown" /\ u.peer = id.peer
             /\ u.principal = id.principal /\ u.refusal = id.refusal /\ u.touched = id.touched
<1>1. mark_unknown(id, at) \in Identities
  BY IdentityTypes
<1>2. QED
  BY <1>1 DEF mark_unknown, Identities

(* The pool has no more work for a connection whose consultation left it.  *)
LEMMA Abandoning ==
  ASSUME SurfaceInv, NEW i \in DOMAIN jobs, jobs[i].live, jobs' = RemoveAt(jobs, i)
  PROVE  jobs[i].conn \in Conns /\ JobsBut(jobs[i].conn) /\ conn[jobs[i].conn].phase = "resolving"
<1>1. jobs \in Seq(Jobs) /\ JobShape
  BY TypeGroups DEF SurfaceInv
<1>2. jobs[i] \in Jobs
  BY <1>1, ElementOfSeq
<1>3. PICK c \in Conns : c = jobs[i].conn
  BY <1>2 DEF Jobs
<1>4. /\ jobs' \in Seq(Jobs)
      /\ \A n \in DOMAIN jobs' : \E m \in DOMAIN jobs : m # i /\ jobs[m] = jobs'[n]
      /\ \A n, m \in DOMAIN jobs' :
           (jobs'[n].live /\ jobs'[m].live /\ jobs'[n].conn = jobs'[m].conn) => n = m
      /\ \A d \in Conns : Waiting(d) => Waiting(d)' \/ (jobs[i].live /\ jobs[i].conn = d)
  BY <1>1, Dropping
<1>5. /\ Fits(jobs[i], conn[c], revoked)
      /\ \A n, m \in DOMAIN jobs :
           (jobs[n].live /\ jobs[m].live /\ jobs[n].conn = jobs[m].conn) => n = m
  BY <1>1, <1>3, JobParts
<1>6. ASSUME NEW n \in DOMAIN jobs', jobs'[n].live
      PROVE  jobs'[n].conn # c /\ \E m \in DOMAIN jobs : jobs[m] = jobs'[n]
  <2>1. PICK m \in DOMAIN jobs : m # i /\ jobs[m] = jobs'[n]
    BY <1>4
  <2>2. jobs[m].conn # c
    BY <1>3, <1>5, <1>6, <2>1
  <2>3. QED
    BY <2>1, <2>2
<1>7. \A d \in Conns : d # c /\ Waiting(d) => Waiting(d)'
  BY <1>3, <1>4
<1>8. JobsBut(c)
  BY <1>4, <1>6, <1>7, Zenon DEF JobsBut
<1>9. QED
  BY <1>3, <1>5, <1>8 DEF Fits

(* A consultation that answers somebody who no longer waits, or that goes  *)
(* on, changes no connection.                                              *)
LEMMA PoolKeeps ==
  ASSUME SurfaceInv, UNCHANGED <<clock, dir, changes, revoked, stopped, conn, chain>>,
         jobs' \in Seq(Jobs), JobShape'
  PROVE  SurfaceInv'
<1>1. /\ Env /\ conn \in [Conns -> Handlers] /\ chain \in [Conns -> Chains]
      /\ (Named(dir) => revoked = None)
      /\ \A d \in Conns : HandlerInv(conn[d]) /\ ChainShape(conn[d], chain[d])
  BY TypeGroups DEF SurfaceInv
<1>2. TypeOK'
  BY <1>1, TypeGroupsNext DEF Env
<1>3. ASSUME NEW d \in Conns
      PROVE  HandlerInv(conn[d])' /\ ChainShape(conn[d], chain[d])'
  <2>1. PICK k : k = conn[d]
    OBVIOUS
  <2>2. HandlerInv(k)'
    BY <1>1, <2>1, SameInstant
  <2>3. conn'[d] = k /\ chain'[d] = chain[d]
    BY <2>1
  <2>4. HandlerInv(conn[d])'
    BY <2>2, <2>3 DEF HandlerInv, RequestShape, IdentityShape, Timely, AnsweredOnce, AnswerFollows,
       Settling, Asking, ByDirectory
  <2>5. ChainShape(conn'[d], chain'[d])
    BY <1>1, <2>1, <2>3, Zenon
  <2>6. QED
    BY <2>4, <2>5
<1>4. QED
  BY <1>1, <1>2, <1>3 DEF SurfaceInv, Named

(* A dead consultation leaves the pool.                                    *)
LEMMA DeadKeeps ==
  ASSUME SurfaceInv, NEW i \in DOMAIN jobs, ~jobs[i].live, jobs' = RemoveAt(jobs, i),
         UNCHANGED <<clock, dir, changes, revoked, stopped, conn, chain>>
  PROVE  SurfaceInv'
<1>1. jobs \in Seq(Jobs) /\ JobShape
  BY TypeGroups DEF SurfaceInv
<1>2. /\ jobs' \in Seq(Jobs)
      /\ \A n \in DOMAIN jobs' : \E m \in DOMAIN jobs : m # i /\ jobs[m] = jobs'[n]
      /\ \A n, m \in DOMAIN jobs' :
           (jobs'[n].live /\ jobs'[m].live /\ jobs'[n].conn = jobs'[m].conn) => n = m
      /\ \A d \in Conns : Waiting(d) => Waiting(d)' \/ (jobs[i].live /\ jobs[i].conn = d)
  BY <1>1, Dropping
<1>3. ASSUME NEW n \in DOMAIN jobs', jobs'[n].live
      PROVE  Fits(jobs'[n], conn'[jobs'[n].conn], revoked')
  <2>1. PICK m \in DOMAIN jobs : jobs[m] = jobs'[n]
    BY <1>2
  <2>2. Fits(jobs[m], conn[jobs[m].conn], revoked)
    BY <1>1, <1>3, <2>1, JobParts
  <2>3. conn' = conn /\ revoked' = revoked
    OBVIOUS
  <2>4. QED
    BY <2>1, <2>2, <2>3, Zenon
<1>4. ASSUME NEW d \in Conns, conn'[d].phase = "resolving"
      PROVE  Waiting(d)' \/ conn'[d].id.status = "unknown"
  BY <1>1, <1>2, <1>4, JobParts
<1>5. JobShape'
  BY <1>2, <1>3, <1>4, JobPartsNext
<1>6. QED
  BY <1>2, <1>5, PoolKeeps

(* Any failure of the directory is an unknown.                             *)
LEMMA FailKeeps ==
  ASSUME SurfaceInv, NEW i \in DOMAIN jobs, ConsultFails(i)
  PROVE  SurfaceInv'
<1>1. jobs' = RemoveAt(jobs, i) /\ UNCHANGED <<clock, dir, changes, revoked, stopped>>
  BY DEF ConsultFails
<1>2. CASE jobs[i].live
  <2>1. PICK c \in Conns : c = jobs[i].conn /\ JobsBut(c) /\ conn[c].phase = "resolving"
    BY <1>1, <1>2, Abandoning
  <2>2. AfterResolve(c, [conn[c] EXCEPT !.id = mark_unknown(conn[c].id, conn[c].asked)], chain)
    BY <1>2, <2>1 DEF ConsultFails
  <2>3. conn[c].id \in Identities /\ conn[c].asked \in Nat
    BY OneHandler DEF Handlers
  <2>4. QED
    BY <1>1, <2>1, <2>2, <2>3, Unknowing, UnknownKeeps
<1>3. CASE ~jobs[i].live
  <2>1. UNCHANGED <<conn, chain>>
    BY <1>3, Zenon DEF ConsultFails
  <2>2. QED
    BY <1>1, <1>3, <2>1, DeadKeeps
<1>4. QED
  BY <1>2, <1>3

(* future.result times out.                                                *)
LEMMA TimeoutKeeps ==
  ASSUME SurfaceInv, NEW c \in Conns, ResolutionTimeout(c)
  PROVE  SurfaceInv'
<1>1. /\ conn[c].phase = "resolving" /\ UNCHANGED <<clock, dir, changes, revoked, stopped>>
      /\ jobs' = [i \in DOMAIN jobs |->
                    IF jobs[i].conn = c THEN [jobs[i] EXCEPT !.live = FALSE] ELSE jobs[i]]
      /\ AfterResolve(c, [conn[c] EXCEPT !.id = mark_unknown(conn[c].id, conn[c].asked)], chain)
  BY Zenon DEF ResolutionTimeout
<1>2. /\ conn[c].id \in Identities /\ conn[c].asked \in Nat /\ jobs \in Seq(Jobs) /\ JobShape
  BY OneHandler DEF Handlers
<1>3. \A i \in DOMAIN jobs : jobs[i] \in Jobs
  BY <1>2, ElementOfSeq
<1>4. /\ DOMAIN jobs' = DOMAIN jobs
      /\ \A i \in DOMAIN jobs : /\ jobs'[i] \in Jobs
                                /\ jobs[i].conn # c => jobs'[i] = jobs[i]
                                /\ jobs[i].conn = c => ~jobs'[i].live
  <2>1. \A i \in DOMAIN jobs : [jobs[i] EXCEPT !.live = FALSE] \in Jobs
                               /\ ~[jobs[i] EXCEPT !.live = FALSE].live
    BY <1>3 DEF Jobs
  <2>2. QED
    BY <1>1, <1>3, <2>1
<1>5. jobs' \in Seq(Jobs)
  <2>1. Len(jobs) \in Nat /\ DOMAIN jobs = 1..Len(jobs)
    BY <1>2, LenProperties
  <2>2. jobs' \in [1..Len(jobs) -> Jobs]
    BY <1>1, <1>4, <2>1
  <2>3. QED
    BY <2>1, <2>2, IsASeq
<1>6. JobsBut(c)
  <2>1. \A i, j \in DOMAIN jobs :
          (jobs[i].live /\ jobs[j].live /\ jobs[i].conn = jobs[j].conn) => i = j
    BY <1>2, JobParts
  <2>2. \A n \in DOMAIN jobs' : jobs'[n].live => jobs'[n].conn # c /\ jobs'[n] = jobs[n]
    BY <1>4
  <2>3. \A n, m \in DOMAIN jobs' :
          (jobs'[n].live /\ jobs'[m].live /\ jobs'[n].conn = jobs'[m].conn) => n = m
    BY <1>4, <2>1, <2>2
  <2>4. \A d \in Conns : d # c /\ Waiting(d) => Waiting(d)'
    BY <1>4 DEF Waiting
  <2>5. QED
    BY <1>4, <1>5, <2>2, <2>3, <2>4, Zenon DEF JobsBut
<1>7. QED
  BY <1>1, <1>2, <1>6, Unknowing, UnknownKeeps

(* A pool that takes no work is one more failure of the directory.         *)
LEMMA RefusedKeeps ==
  ASSUME SurfaceInv, NEW c \in Conns, SubmitRefused(c)
  PROVE  SurfaceInv'
<1>1. /\ conn[c].phase = "resolving" /\ ~Waiting(c)
      /\ UNCHANGED <<clock, dir, changes, revoked, stopped, jobs>>
      /\ AfterResolve(c, conn[c], chain)
  BY DEF SubmitRefused
<1>2. /\ conn[c] \in Handlers /\ conn[c].id \in Identities /\ jobs \in Seq(Jobs) /\ JobShape
  BY OneHandler
<1>3. conn[c].id.status = "unknown" /\ JobsBut(c)
  BY <1>1, <1>2, JobParts, NoJobs
<1>4. conn[c] = [conn[c] EXCEPT !.id = conn[c].id]
  BY <1>2 DEF Handlers
<1>5. AfterResolve(c, [conn[c] EXCEPT !.id = conn[c].id], chain)
  BY <1>1, <1>4, Zenon
<1>6. QED
  BY <1>1, <1>2, <1>3, <1>5, UnknownKeeps

(* _consult asks for admission: the pool goes on, no connection sees it.   *)
LEMMA AdmissionKeeps ==
  ASSUME SurfaceInv, NEW i \in DOMAIN jobs, ConsultAdmission(i)
  PROVE  SurfaceInv'
<1>1. /\ jobs \in Seq(Jobs) /\ JobShape /\ dir \in Answers /\ (Named(dir) => revoked = None)
  BY TypeGroups DEF SurfaceInv, Env
<1>2. jobs[i] \in Jobs /\ Len(jobs) \in Nat /\ DOMAIN jobs = 1..Len(jobs)
  BY <1>1, ElementOfSeq, LenProperties
<1>3. PICK c \in Conns : c = jobs[i].conn
  BY <1>2 DEF Jobs
<1>4. PICK b \in BOOLEAN : b = admit(conn[c].id.peer, dir)
  BY DEF admit, AdmittedByCredential
<1> DEFINE job == [jobs[i] EXCEPT !.stage = "admitted", !.answer = dir, !.admitted = b]
<1>5. /\ jobs' = [jobs EXCEPT ![i] = job]
      /\ UNCHANGED <<clock, dir, changes, revoked, stopped, conn, chain>>
  BY <1>3, <1>4, Zenon DEF ConsultAdmission
<1>6. /\ job \in Jobs /\ job.conn = c /\ job.live = jobs[i].live
      /\ job.answer = dir /\ job.admitted = b
  BY <1>1, <1>2, <1>3 DEF Jobs
<1> HIDE DEF job
<1>7. /\ jobs' \in Seq(Jobs) /\ DOMAIN jobs' = DOMAIN jobs
      /\ jobs'[i] = job /\ \A n \in DOMAIN jobs : n # i => jobs'[n] = jobs[n]
  <2>1. PICK k : k = jobs'
    OBVIOUS
  <2>2. /\ k \in Seq(Jobs) /\ Len(k) = Len(jobs)
        /\ \A n \in 1..Len(jobs) : k[n] = IF n = i THEN job ELSE jobs[n]
    BY <1>1, <1>2, <1>5, <1>6, <2>1, ExceptSeq
  <2>3. DOMAIN k = 1..Len(jobs)
    BY <2>2, LenProperties
  <2>4. QED
    BY <1>2, <2>1, <2>2, <2>3
<1>8. /\ \A n \in DOMAIN jobs : jobs[n].live => Fits(jobs[n], conn[jobs[n].conn], revoked)
      /\ \A n, m \in DOMAIN jobs :
           (jobs[n].live /\ jobs[m].live /\ jobs[n].conn = jobs[m].conn) => n = m
      /\ \A d \in Conns : conn[d].phase = "resolving" => Waiting(d) \/ conn[d].id.status = "unknown"
  BY <1>1, JobParts
<1>9. ASSUME NEW n \in DOMAIN jobs', jobs'[n].live
      PROVE  Fits(jobs'[n], conn'[jobs'[n].conn], revoked')
  <2>1. conn' = conn /\ revoked' = revoked
    BY <1>5
  <2>2. CASE n # i
    <3>1. jobs'[n] = jobs[n] /\ n \in DOMAIN jobs
      BY <1>7, <2>2
    <3>2. QED
      BY <1>8, <1>9, <2>1, <3>1, Zenon
  <2>3. CASE n = i
    <3>1. conn[c].phase = "resolving"
      BY <1>3, <1>6, <1>7, <1>8, <1>9, <2>3 DEF Fits
    <3>2. Fits(job, conn[c], revoked)
      BY <1>1, <1>4, <1>6, <3>1 DEF Fits, Named
    <3>3. QED
      BY <1>6, <1>7, <2>1, <2>3, <3>2, Zenon
  <2>4. QED
    BY <2>2, <2>3
<1>10. \A n \in DOMAIN jobs : jobs'[n].live = jobs[n].live /\ jobs'[n].conn = jobs[n].conn
  BY <1>3, <1>6, <1>7
<1>11. \A n, m \in DOMAIN jobs' :
         (jobs'[n].live /\ jobs'[m].live /\ jobs'[n].conn = jobs'[m].conn) => n = m
  BY <1>7, <1>8, <1>10
<1>12. ASSUME NEW d \in Conns, conn'[d].phase = "resolving"
       PROVE  Waiting(d)' \/ conn'[d].id.status = "unknown"
  BY <1>5, <1>7, <1>8, <1>10, <1>12 DEF Waiting
<1>13. JobShape'
  BY <1>9, <1>11, <1>12, JobPartsNext
<1>14. QED
  BY <1>5, <1>7, <1>13, PoolKeeps

(* What the answer makes of an identity that waited for it.                *)
Verdict(id, admitted, principal, at) ==
  IF admitted THEN bind(id, principal, at) ELSE refuse(id, "peer_not_admitted")

(* _consult returns: whom it admits on the directory's word carries the    *)
(* group, and for no longer than a lifetime beyond the revocation of it.   *)
LEMMA VerdictIsSound ==
  ASSUME SurfaceInv, NEW h \in Handlers, HandlerInv(h), h.phase = "resolving",
         NEW answer \in Answers \cup {None}, NEW admitted \in BOOLEAN,
         admitted = admit(h.id.peer, answer),
         answer # None /\ AdmissionGroup \in answer /\ revoked # None => h.asked <= revoked,
         NEW p, p = build_principal(h.id.peer, answer),
         NEW id, id = Verdict(h.id, admitted, p, h.asked)
  PROVE  /\ id \in Identities /\ Sound(id) /\ id.touched = h.id.touched /\ id.peer = h.id.peer
         /\ id.status # "unknown" /\ h.id.peer \in Peers
         /\ (id.principal # None => id.principal = p)
         /\ (id.status # "refused" => id.principal = p)
         /\ (id.refusal = "peer_not_admitted" => ~admitted)
         /\ (id.status = "established" => id.due = h.asked + Lifetime)
<1>1. /\ h.id \in Identities /\ h.asked \in Nat /\ h.asked <= clock /\ clock \in Nat
      /\ revoked \in Nat \cup {None} /\ Lifetime \in Nat
  BY TypeGroups, IdentityAssumption DEF SurfaceInv, Env, Handlers, HandlerInv, Timely
<1>2. h.id.status # "refused" /\ h.id.peer # None
  BY DEF HandlerInv, IdentityShape
<1>3. h.id.peer \in Peers
  BY <1>1, <1>2 DEF Identities
<1>4. p \in Principals /\ p # None /\ (answer # None => p.groups = answer)
  BY <1>3, BuiltPrincipal
<1>5. CASE admitted
  <2>1. id = bind(h.id, p, h.asked)
    BY <1>5 DEF Verdict
  <2>2. id \in Identities
    BY <1>1, <1>4, <2>1, IdentityTypes
  <2>3. /\ id.status = "established" /\ id.principal = p /\ id.refusal = None
        /\ id.due = h.asked + Lifetime /\ id.peer = h.id.peer /\ id.touched = h.id.touched
    BY <1>1, <2>1 DEF bind, Identities
  <2>4. ByDirectory(id) => answer # None /\ AdmissionGroup \in answer
    BY <1>5, <2>3 DEF ByDirectory, admit
  <2>5. id.due # None
    BY <1>1, <2>3, NoneAssumption
  <2>6. Sound(id)
    BY <1>1, <1>2, <1>4, <2>3, <2>4, <2>5 DEF Sound
  <2>7. QED
    BY <1>3, <2>2, <2>3, <2>6, NoneAssumption DEF Refusals
<1>6. CASE ~admitted
  <2>1. id = refuse(h.id, "peer_not_admitted")
    BY <1>6 DEF Verdict
  <2>2. id \in Identities
    BY <1>1, <2>1, IdentityTypes DEF Refusals
  <2>3. /\ id.status = "refused" /\ id.principal = None /\ id.refusal = "peer_not_admitted"
        /\ id.peer = h.id.peer /\ id.touched = h.id.touched
    BY <1>1, <2>1 DEF refuse, Identities
  <2>4. Sound(id)
    BY <2>3, NoneAssumption DEF Sound, Refusals
  <2>5. QED
    BY <1>3, <1>6, <2>2, <2>3, <2>4
<1>7. QED
  BY <1>5, <1>6

(* The change is recorded before the refusal it causes.                    *)
LEMMA ChangeIsTold ==
  ASSUME NEW records \in Chains, NEW next \in Chains, NEW h, NEW id, NEW p \in Principals,
         TellsAll(records, h), h.touched # {}, id.touched = h.touched, h.touched \subseteq Scopes,
         id.principal # None => id.principal = p,
         id.status # "refused" => id.principal = p,
         id.refusal = "peer_not_admitted" =>
           ~admit(id.peer, IF p.named THEN p.groups ELSE None),
         h.status # "refused",
         \/ /\ h.principal = None \/ h.principal = p
            /\ next = records
         \/ \A s \in Scopes : next[s] = IF s \in h.touched THEN Append(records[s], Changed(p))
                                        ELSE records[s]
  PROVE  TellsAll(next, id)
<1>1. p # None
  BY NoneAssumption
<1>2. ASSUME NEW s \in Scopes, s \in h.touched
      PROVE  Tells(next[s], id, s)
  <2>1. /\ records[s] \in Seq(Records) /\ Tells(records[s], h, s)
        /\ h.principal = None => s = "local" /\ Last(records[s]) = Opened(h)
    BY <1>2 DEF TellsAll, Chains
  <2>2. CASE next = records /\ h.principal = None
    <3>1. Last(records[s]).principal = None /\ Last(records[s]).kind = "opened" /\ s = "local"
      BY <2>1, <2>2 DEF Opened
    <3>2. QED
      BY <2>1, <2>2, <3>1, Zenon DEF Tells
  <2>3. CASE next = records /\ h.principal = p
    <3>1. \/ Last(records[s]).principal = p
          \/ Last(records[s]).kind = "opened" /\ Last(records[s]).principal = None /\ s = "local"
      BY <1>1, <2>1, <2>3, Zenon DEF Tells
    <3>2. QED
      BY <2>1, <2>3, <3>1, Zenon DEF Tells
  <2>4. CASE next[s] = Append(records[s], Changed(p))
    <3>1. PICK r \in Records : r = Changed(p) /\ r.kind = "changed" /\ r.principal = p
      BY DEF Changed, Records
    <3>2. Tells(Append(records[s], r), id, s)
      BY <2>1, <3>1, OneMoreChange
    <3>3. QED
      BY <2>4, <3>1, <3>2
  <2>5. QED
    BY <1>2, <2>2, <2>3, <2>4
<1>3. ASSUME NEW s \in Scopes, s \notin h.touched
      PROVE  next[s] = <<>>
  BY <1>3 DEF TellsAll
<1>4. ~(id.principal = None /\ id.status # "refused")
  BY <1>1
<1>5. QED
  BY <1>2, <1>3, <1>4 DEF TellsAll

(* A verdict for a connection that waits for it.                           *)
LEMMA OutcomeApplied ==
  ASSUME SurfaceInv, NEW c \in Conns, conn[c].phase = "resolving", JobsBut(c),
         NEW answer \in Answers \cup {None}, NEW admitted \in BOOLEAN,
         admitted = admit(conn[c].id.peer, answer),
         answer # None /\ AdmissionGroup \in answer /\ revoked # None => conn[c].asked <= revoked,
         ApplyOutcome(c, admitted, build_principal(conn[c].id.peer, answer)),
         UNCHANGED <<clock, dir, changes, revoked, stopped>>
  PROVE  SurfaceInv'
<1>1. PICK h : h = conn[c]
  OBVIOUS
<1>2. /\ h \in Handlers /\ h.id \in Identities /\ HandlerInv(h) /\ ChainShape(h, chain[c])
      /\ chain[c] \in Chains /\ chain \in [Conns -> Chains] /\ h.phase = "resolving"
  BY <1>1, OneHandler
<1>3. PICK p : p = build_principal(h.id.peer, answer)
  OBVIOUS
<1>4. PICK id : id = Verdict(h.id, admitted, p, h.asked)
  OBVIOUS
<1>5. /\ id \in Identities /\ Sound(id) /\ id.touched = h.id.touched /\ id.peer = h.id.peer
      /\ id.status # "unknown" /\ h.id.peer \in Peers
      /\ (id.principal # None => id.principal = p)
      /\ (id.status # "refused" => id.principal = p)
      /\ (id.refusal = "peer_not_admitted" => ~admitted)
      /\ (id.status = "established" => id.due = h.asked + Lifetime)
  <2>1. admitted = admit(h.id.peer, answer)
        /\ (answer # None /\ AdmissionGroup \in answer /\ revoked # None => h.asked <= revoked)
    BY <1>1
  <2>2. QED
    BY <1>2, <1>3, <1>4, <2>1, VerdictIsSound
<1>6. /\ p \in Principals /\ p # None /\ (p.named <=> answer # None)
      /\ (answer # None => p.groups = answer)
  BY <1>3, <1>5, BuiltPrincipal
<1>7. PICK ch : ch = IF h.id.principal # None /\ differs_beyond_establishment(h.id.principal, p)
                     THEN AppendTo(chain, c, RecordScopes(h.id), Changed(p)) ELSE chain
  OBVIOUS
<1>8. AfterResolve(c, [conn[c] EXCEPT !.id = id], ch)
  BY <1>1, <1>3, <1>4, <1>7, Zenon DEF ApplyOutcome, Verdict
<1>9. h.after \in {"setup", "guard"} /\ h.id.status # "refused"
  BY <1>2 DEF Handlers, HandlerInv, IdentityShape
<1>10. CASE h.after = "setup"
  <2>1. Settling(h) /\ h.id.principal = None /\ h.id.touched = {}
    BY <1>2, <1>10 DEF Settling, HandlerInv, IdentityShape
  <2>2. ch = chain
    BY <1>7, <2>1
  <2>3. AfterResolve(c, [conn[c] EXCEPT !.id = id], chain)
    BY <1>8, <2>2, Zenon
  <2>4. Settling(conn[c]) /\ id.touched = {}
    BY <1>1, <1>5, <2>1
  <2>5. QED
    BY <1>5, <2>3, <2>4, SettledKeeps
<1>11. CASE h.after = "guard"
  <2>1. "local" \in h.id.touched /\ h.id.touched \subseteq Scopes
    BY <1>2, <1>11 DEF Settling, HandlerInv, IdentityShape, Identities
  <2>2. RecordScopes(h.id) = h.id.touched
    BY <2>1 DEF RecordScopes
  <2>3. Changed(p) \in Records
    BY <1>6 DEF Changed, Records
  <2>4. \/ ch = chain /\ (h.id.principal = None \/ h.id.principal = p)
        \/ Wrote(ch, c, h.id.touched, Changed(p))
    <3>1. CASE h.id.principal # None /\ h.id.principal # p
      <4>1. ch = AppendTo(chain, c, h.id.touched, Changed(p))
        BY <1>7, <2>2, <3>1 DEF differs_beyond_establishment
      <4>2. QED
        BY <1>2, <2>1, <2>3, <4>1, Appending
    <3>2. CASE h.id.principal = None \/ h.id.principal = p
      BY <1>7, <3>2 DEF differs_beyond_establishment
    <3>3. QED
      BY <3>1, <3>2
  <2>5. /\ ch \in [Conns -> Chains] /\ \A d \in Conns : d # c => ch[d] = chain[d]
        /\ \/ ch[c] = chain[c] /\ (h.id.principal = None \/ h.id.principal = p)
           \/ \A s \in Scopes : ch[c][s] = IF s \in h.id.touched
                                           THEN Append(chain[c][s], Changed(p)) ELSE chain[c][s]
    BY <1>2, <2>4, Zenon DEF Wrote
  <2>6. TellsAll(chain[c], h.id)
    BY <1>2, OpenChain
  <2>7. id.refusal = "peer_not_admitted" =>
          ~admit(id.peer, IF p.named THEN p.groups ELSE None)
    <3>1. (IF p.named THEN p.groups ELSE None) = answer
      BY <1>6
    <3>2. QED
      BY <1>1, <1>5, <3>1
  <2>8. ch[c] \in Chains /\ h.id.touched # {}
    BY <2>1, <2>5
  <2>9. TellsAll(ch[c], id)
    <3>1. PICK records, next, was : /\ records \in Chains /\ next \in Chains
                                    /\ records = chain[c] /\ next = ch[c] /\ was = h.id
      BY <1>2, <2>8
    <3>2. /\ TellsAll(records, was) /\ was.touched # {} /\ id.touched = was.touched
          /\ was.touched \subseteq Scopes /\ was.status # "refused"
      BY <1>5, <1>9, <2>1, <2>6, <2>8, <3>1
    <3>3. \/ (was.principal = None \/ was.principal = p) /\ next = records
          \/ \A s \in Scopes : next[s] = IF s \in was.touched THEN Append(records[s], Changed(p))
                                         ELSE records[s]
      BY <2>5, <3>1, Zenon
    <3>4. TellsAll(next, id)
      BY <1>5, <1>6, <2>7, <3>1, <3>2, <3>3, ChangeIsTold
    <3>5. QED
      BY <3>1, <3>4
  <2>10. id.status = "established" => conn[c].begunAt < id.due
    <3>1. h.asked = h.begunAt /\ h.asked \in Nat /\ Lifetime \in Nat \ {0}
      BY <1>2, <1>11, IdentityAssumption DEF HandlerInv, Timely, Handlers
    <3>2. QED
      BY <1>1, <1>5, <3>1
  <2>11. conn[c].after = "guard" /\ id.touched = conn[c].id.touched
    BY <1>1, <1>5, <1>11
  <2>12. QED
    BY <1>5, <1>8, <2>5, <2>9, <2>10, <2>11, GuardedKeeps
<1>12. QED
  BY <1>9, <1>10, <1>11

(* _consult returns.                                                       *)
LEMMA ReturnsKeeps ==
  ASSUME SurfaceInv, NEW i \in DOMAIN jobs, ConsultReturns(i)
  PROVE  SurfaceInv'
<1>1. /\ jobs' = RemoveAt(jobs, i) /\ UNCHANGED <<clock, dir, changes, revoked, stopped>>
      /\ jobs[i].stage = "admitted"
  BY DEF ConsultReturns
<1>2. jobs \in Seq(Jobs) /\ JobShape
  BY TypeGroups DEF SurfaceInv
<1>3. jobs[i] \in Jobs
  BY <1>2, ElementOfSeq
<1>4. CASE jobs[i].live
  <2>1. PICK c \in Conns : c = jobs[i].conn /\ JobsBut(c) /\ conn[c].phase = "resolving"
    BY <1>1, <1>4, Abandoning
  <2>2. PICK job : job = jobs[i]
    OBVIOUS
  <2>3. /\ job.admitted \in BOOLEAN /\ job.answer \in Answers \cup {None}
    BY <1>3, <2>2 DEF Jobs
  <2>4. Fits(job, conn[c], revoked)
    BY <1>2, <1>4, <2>1, <2>2, JobParts
  <2>5. /\ job.admitted = admit(conn[c].id.peer, job.answer)
        /\ (job.answer # None /\ AdmissionGroup \in job.answer /\ revoked # None
              => conn[c].asked <= revoked)
    BY <1>1, <2>2, <2>4 DEF Fits
  <2>6. ApplyOutcome(c, job.admitted, build_principal(conn[c].id.peer, job.answer))
    BY <1>4, <2>1, <2>2, Zenon DEF ConsultReturns, CachedDirectory
  <2>7. QED
    BY <1>1, <2>1, <2>3, <2>5, <2>6, OutcomeApplied
<1>5. CASE ~jobs[i].live
  <2>1. UNCHANGED <<conn, chain>>
    BY <1>5, Zenon DEF ConsultReturns
  <2>2. QED
    BY <1>1, <1>5, <2>1, DeadKeeps
<1>6. QED
  BY <1>4, <1>5

(* do_GET and do_POST: a decision is for a principal, and only who has     *)
(* none is told that it cannot be asked for.                               *)
LEMMA RouteCodes ==
  ASSUME NEW id, NEW r \in Requests
  PROVE  /\ RouteCode(id, r) \in Codes
         /\ RouteCode(id, r) \in TouchesScope => HasPrincipal(id)
         /\ RouteCode(id, r) = "principal_groups_unavailable" => ~HasPrincipal(id)
<1>1. /\ r.op \in Operations /\ r.generation \in Generations /\ r.schema \in SchemaVerdicts
      /\ "served" \in Codes /\ "operation_unknown" \in Codes
      /\ "principal_groups_unavailable" \in Codes /\ "served" \notin TouchesScope
      /\ "operation_unknown" \notin TouchesScope
      /\ "principal_groups_unavailable" \notin TouchesScope
  BY DEF Requests, Codes, TouchesScope
<1>2. r.generation # "spoken" =>
        /\ r.generation \in Codes /\ r.generation \notin TouchesScope
        /\ r.generation # "principal_groups_unavailable"
  BY <1>1 DEF Generations, Codes, TouchesScope
<1>3. r.schema # "of_this_generation" =>
        /\ r.schema \in Codes /\ r.schema \notin TouchesScope
        /\ r.schema # "principal_groups_unavailable"
  BY <1>1 DEF SchemaVerdicts, Codes, TouchesScope
<1>4. CASE r.op = "unmatched"
  <2>1. RouteCode(id, r) = "operation_unknown"
    BY <1>4 DEF RouteCode, Reads
  <2>2. "operation_unknown" # "principal_groups_unavailable"
    OBVIOUS
  <2>3. QED
    BY <1>1, <2>1, <2>2
<1>5. CASE r.op \in Reads
  <2>1. RouteCode(id, r) = GetCode(id, r)
    BY <1>5 DEF RouteCode, Reads
  <2>2. \/ GetCode(id, r) \in {"served", "operation_unknown", "principal_groups_unavailable"}
        \/ GetCode(id, r) = r.generation /\ r.generation # "spoken"
    <3>1. CASE r.op = "read_whoami"
      BY <3>1 DEF GetCode
    <3>2. CASE r.op = "read_status"
      BY <3>2 DEF GetCode
    <3>3. CASE r.op \notin {"read_whoami", "read_status"}
      BY <3>3 DEF GetCode
    <3>4. QED
      BY <3>1, <3>2, <3>3
  <2>3. GetCode(id, r) = "principal_groups_unavailable" => ~HasPrincipal(id)
    BY <1>2, <1>5 DEF GetCode, HasPrincipal, Reads
  <2>4. QED
    BY <1>1, <1>2, <2>1, <2>2, <2>3
<1>6. CASE r.op = "resolve_approval"
  <2>1. RouteCode(id, r) = ResolveCode(id, r)
    BY <1>6 DEF RouteCode, Reads
  <2>2. "request_malformed" \in Codes \ TouchesScope
    BY DEF Codes, TouchesScope, SchemaVerdicts
  <2>3. QED
    BY <1>1, <1>2, <1>3, <2>1, <2>2 DEF ResolveCode
<1>7. CASE r.op = "ask_decision"
  <2>1. RouteCode(id, r) = AskCode(id, r)
    BY <1>7 DEF RouteCode, Reads
  <2>2. {"request_malformed", "delegation_invalid"} \subseteq Codes \ TouchesScope
        /\ {"policy_unavailable", "decide"} \subseteq Codes
    BY DEF Codes, TouchesScope, SchemaVerdicts
  <2>3. QED
    BY <1>1, <1>2, <1>3, <2>1, <2>2 DEF AskCode
<1>8. QED
  BY <1>1, <1>4, <1>5, <1>6, <1>7 DEF Operations

(* A scope is touched: the connection is on its chain from then on.        *)
LEMMA TouchTold ==
  ASSUME SurfaceInv, NEW c \in Conns, NEW s \in Scopes, conn[c].id.principal # None,
         conn[c].id.refusal # "peer_not_admitted", conn[c].phase # "closed",
         NEW ch, ch = TouchChain(chain, c, conn[c].id, s)
  PROVE  /\ ch \in [Conns -> Chains] /\ \A d \in Conns : d # c => ch[d] = chain[d]
         /\ TellsAll(ch[c], Touched(conn[c].id, s))
<1>1. PICK h : h = conn[c]
  OBVIOUS
<1>2. /\ h.id \in Identities /\ chain \in [Conns -> Chains] /\ chain[c] \in Chains
      /\ TellsAll(chain[c], h.id)
  BY <1>1, OneHandler, OpenChain
<1>3. PICK id : id = Touched(h.id, s)
  OBVIOUS
<1>4. /\ id.touched = h.id.touched \cup {s} /\ id.peer = h.id.peer /\ id.principal = h.id.principal
      /\ id.refusal = h.id.refusal
  BY <1>2, <1>3 DEF Touched, Identities
<1>5. /\ \A told, t : Tells(told, h.id, t) => Tells(told, id, t)
      /\ Opened(id) = Opened(h.id)
  BY <1>4 DEF Tells, Opened
<1>6. \A t \in h.id.touched : t \in Scopes => Tells(chain[c][t], id, t)
  BY <1>2, <1>5 DEF TellsAll
<1>7. CASE s \in h.id.touched
  <2>1. ch = chain
    BY <1>1, <1>7 DEF TouchChain
  <2>2. id.touched = h.id.touched
    BY <1>4, <1>7
  <2>3. TellsAll(chain[c], id)
    BY <1>1, <1>2, <1>4, <1>6, <2>2 DEF TellsAll
  <2>4. QED
    BY <1>1, <1>2, <1>3, <2>1, <2>3
<1>8. CASE s \notin h.id.touched
  <2>1. Opened(h.id) \in Records /\ {s} \subseteq Scopes
    BY <1>2 DEF Opened, Records, Identities
  <2>2. ch = AppendTo(chain, c, {s}, Opened(h.id))
    BY <1>1, <1>8 DEF TouchChain
  <2>3. Wrote(ch, c, {s}, Opened(h.id))
    BY <1>2, <2>1, <2>2, Appending
  <2>4. /\ ch \in [Conns -> Chains] /\ \A d \in Conns : d # c => ch[d] = chain[d]
        /\ \A t \in Scopes : ch[c][t] = IF t \in {s} THEN Append(chain[c][t], Opened(h.id))
                                        ELSE chain[c][t]
    BY <2>3, Zenon DEF Wrote
  <2>5. chain[c][s] = <<>>
    BY <1>2, <1>8 DEF TellsAll
  <2>6. Tells(ch[c][s], id, s)
    <3>1. Tells(Append(<<>>, Opened(id)), id, s)
      BY <1>1, <1>4, Opening
    <3>2. ch[c][s] = Append(<<>>, Opened(id))
      BY <1>5, <2>4, <2>5
    <3>3. QED
      BY <3>1, <3>2
  <2>7. \A t \in Scopes : t # s => ch[c][t] = chain[c][t]
    BY <2>4
  <2>8. TellsAll(ch[c], id)
    BY <1>1, <1>2, <1>4, <1>6, <2>6, <2>7 DEF TellsAll
  <2>9. QED
    BY <1>1, <1>3, <2>4, <2>8
<1>9. QED
  BY <1>7, <1>8

(* A handler that has touched a scope serves its request on.               *)
On(h, s, phase) == [[h EXCEPT !.scope = s, !.id = Touched(h.id, s)] EXCEPT !.phase = phase]

(* It is as good as before, and its identity is established.               *)
LEMMA Touching ==
  ASSUME NEW h \in Handlers, HandlerInv(h), h.phase = "dispatch", HasPrincipal(h.id),
         NEW s \in Scopes, NEW phase, phase \in {"dispatch", "decide"},
         NEW g, g = On(h, s, phase)
  PROVE  /\ g \in Handlers /\ HandlerInv(g) /\ g.phase = phase /\ ~g.unread
         /\ g.id = Touched(h.id, s) /\ g.id.status = "established"
<1>1. h.id \in Identities /\ Touched(h.id, s) \in Identities
  BY IdentityTypes DEF Handlers
<1>2. g \in Handlers
  BY <1>1 DEF On, Handlers, Phases
<1>3. /\ g.phase = phase /\ g.id = Touched(h.id, s) /\ g.after = h.after
      /\ g.asked = h.asked /\ g.begunAt = h.begunAt
      /\ g.requests = h.requests /\ g.replies = h.replies /\ g.reply = h.reply
      /\ g.answered = h.answered /\ g.defect = h.defect /\ g.failed = h.failed
      /\ g.unread = h.unread
  BY DEF On, Handlers
<1>4. /\ g.id.peer = h.id.peer /\ g.id.status = h.id.status /\ g.id.principal = h.id.principal
      /\ g.id.refusal = h.id.refusal /\ g.id.due = h.id.due
      /\ g.id.touched = h.id.touched \cup {s}
  BY <1>1, <1>3 DEF Touched, Identities
<1>5. h.id.status = "established" /\ ~h.unread
  <2>1. h.id.status \in {"unknown", "established", "refused"}
    BY <1>1 DEF Identities
  <2>2. h.id.status # "refused" /\ ~h.unread
    BY DEF HandlerInv, IdentityShape, RequestShape, Serving
  <2>3. QED
    BY <2>1, <2>2 DEF HasPrincipal
<1>6. RequestShape(g) /\ AnsweredOnce(g)
  BY <1>3 DEF HandlerInv, RequestShape, AnsweredOnce, Settling, Asking, Serving
<1>7. IdentityShape(g)
  BY <1>3, <1>4, <1>5 DEF HandlerInv, IdentityShape, Settling, Serving
<1>8. Timely(g)
  BY <1>3, <1>4 DEF HandlerInv, Timely, Serving, ByDirectory
<1>9. AnswerFollows(g)
  BY <1>3 DEF AnswerFollows
<1>10. QED
  BY <1>2, <1>3, <1>4, <1>5, <1>6, <1>7, <1>8, <1>9 DEF HandlerInv

(* do_GET and do_POST.                                                     *)
LEMMA DispatchKeeps ==
  ASSUME SurfaceInv, NEW c \in Conns, Dispatch(c)
  PROVE  SurfaceInv'
<1>1. PICK h : h = conn[c]
  OBVIOUS
<1>2. /\ h \in Handlers /\ h.id \in Identities /\ HandlerInv(h) /\ ChainShape(h, chain[c])
      /\ h.phase = "dispatch" /\ jobs \in Seq(Jobs) /\ JobShape /\ chain \in [Conns -> Chains]
      /\ UNCHANGED <<clock, dir, changes, revoked, stopped, jobs>>
  BY <1>1, OneHandler DEF Dispatch
<1>3. /\ h.id.status \in {"unknown", "established", "refused"} /\ h.id.status # "refused"
      /\ h.id.refusal = None /\ ~h.unread /\ Asking(h)
      /\ h.id.status = "established" => h.id.principal # None
  BY <1>2 DEF Identities, HandlerInv, IdentityShape, RequestShape, Serving, Asking
<1>4. PICK r \in Requests : LET code == RouteCode(h.id, r) IN
        \/ /\ code \in TouchesScope
           /\ \E s \in Scopes :
                /\ conn' = [conn EXCEPT ![c] =
                     IF code = "decide"
                     THEN [[h EXCEPT !.scope = s, !.id = Touched(h.id, s)]
                             EXCEPT !.phase = "decide"]
                     ELSE Reply([h EXCEPT !.scope = s, !.id = Touched(h.id, s)], code)]
                /\ chain' = TouchChain(chain, c, h.id, s)
        \/ /\ code \notin TouchesScope
           /\ conn' = [conn EXCEPT ![c] = Reply(h, code)] /\ UNCHANGED chain
  BY <1>1, Zenon DEF Dispatch
<1>5. PICK code : code = RouteCode(h.id, r)
  OBVIOUS
<1>6. /\ code \in Codes
      /\ code \in TouchesScope => HasPrincipal(h.id)
      /\ code = "principal_groups_unavailable" => ~HasPrincipal(h.id)
  BY <1>5, RouteCodes
<1>7. /\ Kept(code) = IF code \in AboutTheIdentity THEN code ELSE "about_the_request"
      /\ Kept(code) \in Replies /\ Kept(code) # "none" /\ Kept(code) \notin Refusals
      /\ Kept(code) # "decided"
      /\ Kept(code) \in AboutTheIdentity => Kept(code) = code
  <2>1. Kept(code) = IF code \in AboutTheIdentity THEN code ELSE "about_the_request"
    BY <1>6, KeptCodes
  <2>2. QED
    BY <2>1 DEF AboutTheIdentity, Replies, Refusals
<1>8. JobsBut(c)
  BY <1>1, <1>2, NoJobs
<1>9. CASE code \notin TouchesScope
  <2>1. conn' = [conn EXCEPT ![c] = Reply(h, code)] /\ UNCHANGED chain
    BY <1>4, <1>5, <1>9
  <2>2. Kept(code) \notin {"decided", "policy_unavailable"}
    BY <1>7, <1>9 DEF AboutTheIdentity, TouchesScope
  <2>3. Kept(code) = "principal_groups_unavailable" =>
          h.id.status = "unknown" /\ h.id.refusal = None
    BY <1>3, <1>6, <1>7 DEF AboutTheIdentity, HasPrincipal
  <2>4. PICK g : g = Reply(h, code)
    OBVIOUS
  <2>5. /\ g \in Handlers /\ HandlerInv(g) /\ g.phase \in {"idle", "finish"} /\ g.id = h.id
    BY <1>2, <1>3, <1>7, <2>2, <2>3, <2>4, ReplyKeeps
  <2>6. ChainShape(g, chain[c])
    BY <1>2, <2>5, SameTelling
  <2>7. conn' = [conn EXCEPT ![c] = g] /\ g.phase # "resolving" /\ conn[c].phase # "resolving"
    BY <1>1, <1>2, <2>1, <2>4, <2>5
  <2>8. QED
    BY <1>2, <2>1, <2>5, <2>6, <2>7, ServingKeeps
<1>10. CASE code \in TouchesScope
  <2>1. PICK s \in Scopes :
          /\ conn' = [conn EXCEPT ![c] =
               IF code = "decide"
               THEN [[h EXCEPT !.scope = s, !.id = Touched(h.id, s)] EXCEPT !.phase = "decide"]
               ELSE Reply([h EXCEPT !.scope = s, !.id = Touched(h.id, s)], code)]
          /\ chain' = TouchChain(chain, c, h.id, s)
    BY <1>4, <1>5, <1>10
  <2>2. HasPrincipal(h.id) /\ h.id.principal # None
    BY <1>6, <1>10 DEF HasPrincipal
  <2>3. /\ chain' \in [Conns -> Chains] /\ \A d \in Conns : d # c => chain'[d] = chain[d]
        /\ TellsAll(chain'[c], Touched(h.id, s))
    <3>1. conn[c].id.refusal # "peer_not_admitted"
      BY <1>1, <1>3, NoneAssumption DEF Refusals
    <3>2. QED
      BY <1>1, <1>2, <2>1, <2>2, <3>1, TouchTold
  <2>4. ASSUME NEW g \in Handlers, HandlerInv(g), g.phase \notin {"resolving", "closed"},
               g.id = Touched(h.id, s), conn' = [conn EXCEPT ![c] = g]
        PROVE  SurfaceInv'
    <3>1. ChainShape(g, chain'[c])
      BY <2>3, <2>4, OpenChain
    <3>2. QED
      BY <1>2, <1>8, <2>3, <2>4, <3>1, OutcomeKeeps
  <2>5. CASE code = "decide"
    <3>1. PICK g : g = On(h, s, "decide")
      OBVIOUS
    <3>2. g \in Handlers /\ HandlerInv(g) /\ g.phase = "decide" /\ g.id = Touched(h.id, s)
      BY <1>2, <2>2, <3>1, Touching
    <3>3. conn' = [conn EXCEPT ![c] = g]
      BY <2>1, <2>5, <3>1, Zenon DEF On
    <3>4. QED
      BY <2>4, <3>2, <3>3
  <2>6. CASE code # "decide"
    <3>1. PICK k : k = [h EXCEPT !.scope = s, !.id = Touched(h.id, s)]
      OBVIOUS
    <3>2. k = On(h, s, "dispatch")
      BY <1>2, <3>1 DEF Handlers, On
    <3>3. /\ k \in Handlers /\ HandlerInv(k) /\ k.phase = "dispatch" /\ ~k.unread
          /\ k.id = Touched(h.id, s) /\ k.id.status = "established"
      BY <1>2, <2>2, <3>2, Touching
    <3>4. PICK g : g = Reply(k, code)
      OBVIOUS
    <3>5. Kept(code) # "principal_groups_unavailable"
      BY <1>6, <1>7, <2>2 DEF AboutTheIdentity
    <3>6. g \in Handlers /\ HandlerInv(g) /\ g.phase \in {"idle", "finish"} /\ g.id = k.id
      BY <1>7, <3>3, <3>4, <3>5, ReplyKeeps DEF Asking, Serving
    <3>7. conn' = [conn EXCEPT ![c] = g]
      BY <2>1, <2>6, <3>1, <3>4
    <3>8. QED
      BY <2>4, <3>3, <3>6, <3>7
  <2>7. QED
    BY <2>5, <2>6
<1>11. QED
  BY <1>9, <1>10

(* finish and on_close: the last record of every chain the connection is on. *)
LEMMA FinishKeeps ==
  ASSUME SurfaceInv, NEW c \in Conns, Finish(c)
  PROVE  SurfaceInv'
<1>1. PICK h : h = conn[c]
  OBVIOUS
<1>2. /\ h \in Handlers /\ h.id \in Identities /\ HandlerInv(h) /\ ChainShape(h, chain[c])
      /\ h.phase = "finish" /\ jobs \in Seq(Jobs) /\ JobShape /\ chain \in [Conns -> Chains]
      /\ chain[c] \in Chains /\ UNCHANGED <<clock, dir, changes, revoked, stopped, jobs>>
  BY <1>1, OneHandler DEF Finish
<1>3. PICK g : g = [h EXCEPT !.phase = "closed"]
  OBVIOUS
<1>4. /\ conn' = [conn EXCEPT ![c] = g]
      /\ chain' = AppendTo(chain, c, RecordScopes(h.id), Closed)
  BY <1>1, <1>3, Zenon DEF Finish
<1>5. g \in Handlers
  BY <1>2, <1>3 DEF Handlers, Phases
<1>6. /\ g.phase = "closed" /\ g.id = h.id /\ g.after = h.after
      /\ g.asked = h.asked /\ g.begunAt = h.begunAt
      /\ g.requests = h.requests /\ g.replies = h.replies /\ g.reply = h.reply
      /\ g.answered = h.answered /\ g.defect = h.defect /\ g.failed = h.failed
      /\ g.unread = h.unread
  BY <1>2, <1>3 DEF Handlers
<1>7. HandlerInv(g)
  <2>1. RequestShape(g) /\ AnsweredOnce(g)
    BY <1>2, <1>6 DEF HandlerInv, RequestShape, AnsweredOnce, Settling, Asking, Serving
  <2>2. IdentityShape(g)
    BY <1>2, <1>6 DEF HandlerInv, IdentityShape, Settling, Serving
  <2>3. Timely(g)
    BY <1>2, <1>6 DEF HandlerInv, Timely, Serving
  <2>4. AnswerFollows(g)
    BY <1>2, <1>6 DEF HandlerInv, AnswerFollows
  <2>5. QED
    BY <2>1, <2>2, <2>3, <2>4 DEF HandlerInv
<1>8. /\ RecordScopes(h.id) \subseteq Scopes
      /\ (h.id.touched # {} => RecordScopes(h.id) = h.id.touched)
  BY <1>2, SurfaceAssumption DEF RecordScopes, Identities
<1>9. Closed \in Records
  BY DEF Closed, Records
<1>10. Wrote(chain', c, RecordScopes(h.id), Closed)
  BY <1>2, <1>4, <1>8, <1>9, Appending
<1>11. /\ chain' \in [Conns -> Chains] /\ \A d \in Conns : d # c => chain'[d] = chain[d]
       /\ \A s \in Scopes : chain'[c][s] = IF s \in RecordScopes(h.id)
                                           THEN Append(chain[c][s], Closed) ELSE chain[c][s]
  BY <1>10, Zenon DEF Wrote
<1>12. ASSUME NEW s \in h.id.touched
       PROVE  Tells(Told(chain'[c][s]), h.id, s)
  <2>1. s \in Scopes /\ s \in RecordScopes(h.id)
    BY <1>2, <1>8 DEF Identities
  <2>2. chain'[c][s] = Append(chain[c][s], Closed)
    BY <1>11, <2>1
  <2>3. chain[c][s] \in Seq(Records) /\ Tells(chain[c][s], h.id, s)
    BY <1>2, <2>1 DEF ChainShape, Chains
  <2>4. Told(Append(chain[c][s], Closed)) = chain[c][s]
    BY <2>3, ClosingTold
  <2>5. QED
    BY <2>2, <2>3, <2>4
<1>13. ChainShape(g, chain'[c])
  BY <1>6, <1>12 DEF ChainShape
<1>14. JobsBut(c)
  BY <1>1, <1>2, NoJobs
<1>15. QED
  BY <1>2, <1>4, <1>5, <1>6, <1>7, <1>11, <1>13, <1>14, OutcomeKeeps

(* Time passes, the directory changes, the daemon stops: no connection     *)
(* moves, and none becomes worse for it.                                   *)
LEMMA AroundKeeps ==
  ASSUME SurfaceInv, UNCHANGED <<jobs, conn, chain>>, Env', Named(dir)' => revoked' = None,
         clock' \in {clock, clock + 1}, revoked' \in {revoked, None, clock}
  PROVE  SurfaceInv'
<1>1. /\ Env /\ jobs \in Seq(Jobs) /\ conn \in [Conns -> Handlers] /\ chain \in [Conns -> Chains]
      /\ JobShape
      /\ \A d \in Conns : HandlerInv(conn[d]) /\ ChainShape(conn[d], chain[d])
  BY TypeGroups DEF SurfaceInv
<1>2. TypeOK'
  BY <1>1, TypeGroupsNext
<1>3. clock \in Nat /\ revoked \in Nat \cup {None} /\ Lifetime \in Nat
  BY <1>1, IdentityAssumption DEF Env
<1>4. ASSUME NEW d \in Conns
      PROVE  HandlerInv(conn[d])' /\ ChainShape(conn[d], chain[d])'
  <2>1. PICK h : h = conn[d]
    OBVIOUS
  <2>2. h \in Handlers /\ HandlerInv(h)
    BY <1>1, <2>1
  <2>3. /\ h.asked \in Nat /\ h.begunAt \in Nat
        /\ h.id.status = "established" => h.id.due \in Nat
    BY <2>2 DEF HandlerInv, IdentityShape, Handlers, Identities
  <2>4. Timely(h)'
    BY <1>3, <2>2, <2>3 DEF HandlerInv, Timely
  <2>5. conn'[d] = h /\ chain'[d] = chain[d]
    BY <2>1
  <2>6. HandlerInv(conn[d])'
    BY <2>2, <2>4, <2>5 DEF HandlerInv, RequestShape, IdentityShape, Timely, AnsweredOnce,
       AnswerFollows, Settling, Asking, ByDirectory
  <2>7. ChainShape(conn'[d], chain'[d])
    BY <1>1, <2>1, <2>5, Zenon
  <2>8. QED
    BY <2>6, <2>7
<1>5. JobShape'
  <2>1. ASSUME NEW n \in DOMAIN jobs, jobs[n].live
        PROVE  Fits(jobs[n], conn[jobs[n].conn], revoked')
    <3>1. Fits(jobs[n], conn[jobs[n].conn], revoked)
      BY <1>1, <2>1, JobParts
    <3>2. jobs[n].conn \in Conns
      <4>1. DOMAIN jobs = 1..Len(jobs)
        BY <1>1, LenProperties
      <4>2. jobs[n] \in Jobs
        BY <1>1, <4>1, ElementOfSeq
      <4>3. QED
        BY <4>2 DEF Jobs
    <3>3. conn[jobs[n].conn].asked <= clock
      BY <1>1, <3>2 DEF HandlerInv, Timely
    <3>4. QED
      BY <3>1, <3>3 DEF Fits
  <2>2. /\ \A n, m \in DOMAIN jobs :
             (jobs[n].live /\ jobs[m].live /\ jobs[n].conn = jobs[m].conn) => n = m
        /\ \A d \in Conns : conn[d].phase = "resolving" =>
             Waiting(d) \/ conn[d].id.status = "unknown"
    BY <1>1, JobParts
  <2>3. jobs' = jobs /\ conn' = conn /\ \A d \in Conns : Waiting(d) => Waiting(d)'
    BY DEF Waiting
  <2>4. \A n \in DOMAIN jobs' : jobs'[n].live => Fits(jobs'[n], conn'[jobs'[n].conn], revoked')
    BY <2>1, <2>3, Zenon
  <2>5. QED
    BY <2>2, <2>3, <2>4, JobPartsNext
<1>6. QED
  BY <1>2, <1>4, <1>5 DEF SurfaceInv

(* The clock, the directory and stop().                                    *)
LEMMA EnvironmentKeeps ==
  ASSUME SurfaceInv, Tick \/ DirectoryChanges \/ Stop
  PROVE  SurfaceInv'
<1>1. Env /\ (Named(dir) => revoked = None) /\ Horizon \in Nat /\ MaxChanges \in Nat
  BY TypeGroups, SurfaceAssumption DEF SurfaceInv
<1>2. CASE Tick
  <2>1. clock' = clock + 1 /\ clock' \in 0..Horizon /\ clock' \in Nat
    BY <1>1, <1>2 DEF Tick, Env
  <2>2. UNCHANGED <<dir, changes, revoked, stopped, jobs, conn, chain>>
    BY <1>2 DEF Tick
  <2>3. QED
    BY <1>1, <2>1, <2>2, AroundKeeps DEF Env, Named
<1>3. CASE DirectoryChanges
  <2>1. PICK answer \in Answers :
          /\ dir' = answer
          /\ revoked' = CASE Named(answer)                 -> None
                          [] Named(dir) /\ ~Named(answer)  -> clock
                          [] OTHER                         -> revoked
    BY <1>3 DEF DirectoryChanges
  <2>2. /\ changes' \in 0..MaxChanges
        /\ UNCHANGED <<clock, stopped, jobs, conn, chain>>
    BY <1>1, <1>3 DEF DirectoryChanges, Env
  <2>3. revoked' \in {revoked, None, clock} /\ (Named(answer) => revoked' = None)
    BY <2>1, Zenon
  <2>4. Env'
    BY <1>1, <2>1, <2>2, <2>3 DEF Env
  <2>5. Named(dir)' => revoked' = None
    BY <2>1, <2>3 DEF Named
  <2>6. QED
    BY <2>2, <2>3, <2>4, <2>5, AroundKeeps
<1>4. CASE Stop
  BY <1>1, <1>4, AroundKeeps DEF Stop, Env, Named
<1>5. QED
  BY <1>2, <1>3, <1>4

(* The daemon before its first connection.                                 *)
LEMMA InitHolds ==
  ASSUME Init
  PROVE  SurfaceInv
<1>1. 0 \in 0..Horizon /\ 0 \in 0..MaxChanges /\ 0 \in 0..MaxRequests /\ "local" \in Scopes
  BY SurfaceAssumption
<1>2. Unaccepted \in Handlers
  <2>1. ConnectionIdentity(None) \in Identities
    BY IdentityTypes
  <2>2. QED
    BY <1>1, <2>1 DEF Unaccepted, Handlers, Phases, Replies
<1>3. /\ Unaccepted.phase = "none" /\ Unaccepted.after = "setup" /\ Unaccepted.asked = 0
      /\ Unaccepted.requests = 0 /\ Unaccepted.replies = 0 /\ Unaccepted.reply = "none"
      /\ ~Unaccepted.answered /\ ~Unaccepted.defect /\ ~Unaccepted.failed
      /\ ~Unaccepted.unread /\ Unaccepted.id.peer = None /\ Unaccepted.id.status = "unknown"
      /\ Unaccepted.id.principal = None /\ Unaccepted.id.refusal = None
      /\ Unaccepted.id.touched = {}
  BY DEF Unaccepted, ConnectionIdentity
<1>4. <<>> \in Seq(Jobs) /\ <<>> \in Seq(Records) /\ DOMAIN <<>> = {}
  BY EmptySeq
<1>5. /\ jobs = <<>> /\ conn = [c \in Conns |-> Unaccepted] /\ clock = 0 /\ revoked = None
      /\ chain = [c \in Conns |-> [s \in Scopes |-> <<>>]]
      /\ dir \in Answers /\ changes = 0 /\ stopped = FALSE
  BY DEF Init
<1>6. TypeOK
  BY <1>1, <1>2, <1>4, <1>5, TypeGroups DEF Env, Chains
<1>7. HandlerInv(Unaccepted)
  <2>1. RequestShape(Unaccepted) /\ AnsweredOnce(Unaccepted)
    BY <1>3 DEF RequestShape, AnsweredOnce, Settling, Asking, Serving
  <2>2. IdentityShape(Unaccepted)
    BY <1>3 DEF IdentityShape, Settling, Serving
  <2>3. Timely(Unaccepted)
    BY <1>3, <1>5 DEF Timely, Serving
  <2>4. AnswerFollows(Unaccepted)
    BY <1>3 DEF AnswerFollows
  <2>5. QED
    BY <2>1, <2>2, <2>3, <2>4 DEF HandlerInv
<1>8. \A c \in Conns : HandlerInv(conn[c]) /\ ChainShape(conn[c], chain[c])
  BY <1>3, <1>5, <1>7 DEF ChainShape
<1>9. JobShape
  BY <1>3, <1>4, <1>5, JobParts
<1>10. QED
  BY <1>5, <1>6, <1>8, <1>9 DEF SurfaceInv

(* Every step keeps the invariant.                                         *)
LEMMA StepKeeps ==
  ASSUME SurfaceInv, [Next]_vars
  PROVE  SurfaceInv'
<1>1. CASE Tick \/ DirectoryChanges \/ Stop
  BY <1>1, EnvironmentKeeps
<1>2. CASE Pool
  <2>1. PICK i \in DOMAIN jobs : ConsultAdmission(i) \/ ConsultReturns(i) \/ ConsultFails(i)
    BY <1>2, Zenon DEF Pool
  <2>2. QED
    BY <2>1, AdmissionKeeps, ReturnsKeeps, FailKeeps
<1>3. ASSUME NEW c \in Conns, Accept(c) \/ Request(c) \/ Malformed(c) \/ Leaves(c)
      PROVE  SurfaceInv'
  BY <1>3, AcceptKeeps, RequestKeeps, MalformedKeeps, LeavesKeeps
<1>4. ASSUME NEW c \in Conns, Thread(c)
      PROVE  SurfaceInv'
  <2>1. CASE ResolutionTimeout(c) \/ SubmitRefused(c)
    BY <2>1, TimeoutKeeps, RefusedKeeps
  <2>2. CASE Setup(c) \/ SetupDefect(c)
    BY <2>2, SetupKeeps, SetupDefectKeeps
  <2>3. CASE Guard(c) \/ ConsumeBody(c) \/ Dispatch(c) \/ Decide(c)
    BY <2>3, GuardKeeps, BodyKeeps, DispatchKeeps, DecideKeeps
  <2>4. CASE RecordEffect(c) \/ HoldEnds(c)
    BY <2>4, EffectKeeps
  <2>5. CASE RequestDefect(c) \/ Finish(c)
    BY <2>5, RequestDefectKeeps, FinishKeeps
  <2>6. QED
    BY <1>4, <2>1, <2>2, <2>3, <2>4, <2>5, Zenon DEF Thread
<1>5. CASE UNCHANGED vars
  <2>1. /\ UNCHANGED <<clock, dir, changes, revoked, stopped, conn, chain>> /\ jobs' = jobs
    BY <1>5 DEF vars
  <2>2. jobs' \in Seq(Jobs) /\ JobShape'
    <3>1. /\ jobs \in Seq(Jobs) /\ conn' = conn /\ revoked' = revoked
          /\ \A i \in DOMAIN jobs : jobs[i].live => Fits(jobs[i], conn[jobs[i].conn], revoked)
          /\ \A i, j \in DOMAIN jobs :
               (jobs[i].live /\ jobs[j].live /\ jobs[i].conn = jobs[j].conn) => i = j
          /\ \A c \in Conns : conn[c].phase = "resolving" =>
               Waiting(c) \/ conn[c].id.status = "unknown"
      BY <2>1, TypeGroups, JobParts DEF SurfaceInv
    <3>2. \A c \in Conns : Waiting(c) => Waiting(c)'
      BY <2>1 DEF Waiting
    <3>3. \A i \in DOMAIN jobs' : jobs'[i].live => Fits(jobs'[i], conn'[jobs'[i].conn], revoked')
      BY <2>1, <3>1, Zenon
    <3>4. QED
      BY <2>1, <3>1, <3>2, <3>3, JobPartsNext
  <2>3. QED
    BY <2>1, <2>2, PoolKeeps
<1>6. QED
  BY <1>1, <1>2, <1>3, <1>4, <1>5, Zenon DEF Next

(* What is on record of an open connection is all that is told of it.      *)
LEMMA OpenTold ==
  ASSUME NEW records \in Seq(Records), NEW id, NEW s, Tells(records, id, s)
  PROVE  Told(records) = records
<1>1. Len(records) \in Nat \ {0} /\ records[1].kind = "opened"
  <2>1. records # <<>> /\ records[1].kind = "opened"
    BY DEF Tells
  <2>2. QED
    BY <2>1, EmptySeq
<1>2. \A i \in 2..Len(records) : records[i].kind = "changed"
  BY DEF Tells
<1>3. Last(records) = records[Len(records)]
  BY DEF Last
<1>4. Last(records).kind # "closed"
  <2>1. CASE Len(records) = 1
    BY <1>1, <1>3, <2>1
  <2>2. CASE Len(records) # 1
    <3>1. Len(records) \in 2..Len(records)
      <4>1. PICK n : n = Len(records)
        OBVIOUS
      <4>2. n \in Nat /\ n # 0 /\ n # 1
        BY <1>1, <2>2, <4>1
      <4>3. n \in 2..n
        BY <4>2
      <4>4. QED
        BY <4>1, <4>3
    <3>2. QED
      BY <1>2, <1>3, <3>1
  <2>3. QED
    BY <2>1, <2>2
<1>5. QED
  BY <1>4 DEF Told

(* The invariant says who a connection is, and that it is on record.       *)
LEMMA RecordFollows ==
  ASSUME SurfaceInv
  PROVE  IdentityIsOnRecord
<1>1. TypeOK
  BY DEF SurfaceInv
<1>2. ASSUME NEW c \in Conns
      PROVE  /\ conn[c].id \in Identities /\ HandlerInv(conn[c])
             /\ ChainShape(conn[c], chain[c]) /\ chain[c] \in Chains
  BY <1>2, OneHandler
<1>3. AdmittedAsRecorded
  BY <1>2, Zenon DEF AdmittedAsRecorded, HandlerInv, Timely
<1>4. ASSUME NEW c \in Conns, NEW s \in conn[c].id.touched
      PROVE  Tells(Told(chain[c][s]), conn[c].id, s)
  <2>1. s \in Scopes
    BY <1>2, <1>4 DEF Identities
  <2>2. CASE conn[c].phase = "closed"
    BY <1>2, <1>4, <2>2 DEF ChainShape
  <2>3. CASE conn[c].phase # "closed"
    <3>1. Tells(chain[c][s], conn[c].id, s)
      BY <1>2, <1>4, <2>1, <2>3 DEF ChainShape
    <3>2. chain[c][s] \in Seq(Records)
      BY <1>2, <2>1 DEF Chains
    <3>3. Told(chain[c][s]) = chain[c][s]
      BY <3>1, <3>2, OpenTold
    <3>4. QED
      BY <3>1, <3>3
  <2>4. QED
    BY <2>2, <2>3
<1>5. QED
  BY <1>1, <1>3, <1>4, Zenon DEF IdentityIsOnRecord, ChainTellsTheIdentity

(* The invariant says under which identity a request is served.            *)
LEMMA ServedFollows ==
  ASSUME SurfaceInv
  PROVE  ServedAsEstablished
<1>1. ASSUME NEW c \in Conns
      PROVE  conn[c] \in Handlers /\ conn[c].id \in Identities /\ HandlerInv(conn[c])
             /\ revoked \in Nat \cup {None}
  BY <1>1, OneHandler
<1>2. Lifetime \in Nat
  BY IdentityAssumption
<1>3. ASSUME NEW c \in Conns, ByDirectory(conn[c].id), revoked # None,
             conn[c].phase \in Serving, HasPrincipal(conn[c].id)
      PROVE  conn[c].begunAt < revoked + Lifetime
  <2>1. PICK h : h = conn[c]
    OBVIOUS
  <2>2. h \in Handlers /\ h.id \in Identities /\ HandlerInv(h) /\ revoked \in Nat
    BY <1>1, <1>3, <2>1
  <2>3. h.id.status = "established"
    BY <1>3, <2>1, <2>2 DEF HasPrincipal, HandlerInv, IdentityShape, Identities
  <2>4. h.id.due \in Nat /\ h.begunAt \in Nat
    BY <2>2, <2>3 DEF HandlerInv, IdentityShape, Identities, Handlers
  <2>5. h.begunAt < h.id.due /\ h.id.due <= revoked + Lifetime
    BY <1>3, <2>1, <2>2, <2>3 DEF HandlerInv, Timely
  <2>6. QED
    BY <1>2, <2>1, <2>2, <2>4, <2>5
<1>4. RevocationReachesRequests
  BY <1>3 DEF RevocationReachesRequests
<1>5. AnswersFollowTheIdentity
  BY <1>1 DEF AnswersFollowTheIdentity, HandlerInv
<1>6. QED
  BY <1>4, <1>5 DEF ServedAsEstablished

-----------------------------------------------------------------------------
(* The connections of the daemon keep what makes their properties hold:    *)
(* whatever the directory answers, however late, and whichever call raises. *)
THEOREM Surfaces == Spec => []SurfaceInv
<1>1. Init => SurfaceInv
  BY InitHolds
<1>2. SurfaceInv /\ [Next]_vars => SurfaceInv'
  BY StepKeeps
<1>3. QED
  BY <1>1, <1>2, PTL DEF Spec

(* Who a connection is, is on record: a principal bound on the directory's *)
(* word carries the group that admitted it, and every chain the connection *)
(* touched tells the principal it carries and every change of it           *)
(* (_consult, _record_change, touch).                                      *)
THEOREM EveryIdentityIsOnRecord == Spec => []IdentityIsOnRecord
<1>1. SurfaceInv => IdentityIsOnRecord
  BY RecordFollows
<1>2. QED
  BY <1>1, Surfaces, PTL

(* No request is served under a membership revoked a lifetime or more      *)
(* before it began, and every answer follows from the identity it was      *)
(* given under (refresh_if_due, _guard, do_POST).                          *)
THEOREM ServedUnderTheirIdentity == Spec => []ServedAsEstablished
<1>1. SurfaceInv => ServedAsEstablished
  BY ServedFollows
<1>2. QED
  BY <1>1, Surfaces, PTL

(* A request of a connection that is kept is answered exactly once, and no *)
(* request twice, whichever call raises (_answer_internal_error).          *)
THEOREM EachRequestAnsweredOnce == Spec => []OneAnswerPerRequest
<1>1. SurfaceInv => OneAnswerPerRequest
  BY DEF SurfaceInv, HandlerInv, OneAnswerPerRequest
<1>2. QED
  BY <1>1, Surfaces, PTL

-----------------------------------------------------------------------------
(***************************************************************************)
(* What a step does to the processes and to the commands, one by one.      *)
(***************************************************************************)
Processes == [Lives -> [phase : LifePhases, pid : Pids \cup {0}, parent : Commands \cup {"nobody"}]]
Runs == [Commands -> [at : Places, child : 0..MaxLives, pinned : 0..MaxLives, claim : Claims]]

PhaseTo(l, p) ==
  /\ proc' \in Processes
  /\ \A m \in Lives : proc'[m].pid = proc[m].pid /\ proc'[m].parent = proc[m].parent
  /\ \A m \in Lives : m # l => proc'[m].phase = proc[m].phase
  /\ proc'[l].phase = p

(* A process that ended, and what it held of the root.                     *)
Perishes(l) ==
  /\ PhaseTo(l, "zombie") \/ (proc[l].parent = "nobody" /\ PhaseTo(l, "gone"))
  /\ root' = IF root = l THEN 0 ELSE root

LEMMA AtDoes ==
  ASSUME QuickTypeOK, NEW l \in Lives, NEW p \in LifePhases, At(l, p)
  PROVE  PhaseTo(l, p)
<1> DEFINE next == [proc[l] EXCEPT !.phase = p]
<1>1. proc \in Processes /\ proc[l] \in [phase : LifePhases, pid : Pids \cup {0}, parent : Commands \cup {"nobody"}]
  BY DEF QuickTypeOK, Processes
<1>2. /\ next \in [phase : LifePhases, pid : Pids \cup {0}, parent : Commands \cup {"nobody"}]
      /\ next.phase = p /\ next.pid = proc[l].pid /\ next.parent = proc[l].parent
  BY <1>1
<1>3. proc' = [proc EXCEPT ![l] = next]
  BY DEF At
<1> HIDE DEF next
<1>4. proc' \in Processes /\ proc'[l] = next /\ \A m \in Lives : m # l => proc'[m] = proc[m]
  BY <1>1, <1>2, <1>3 DEF Processes
<1> QED  BY <1>2, <1>4 DEF PhaseTo

LEMMA EndsDoes ==
  ASSUME QuickTypeOK, NEW l \in Lives, Ends(l, Orphan(l))
  PROVE  Perishes(l)
<1>1. {"zombie", "gone"} \subseteq LifePhases
  BY DEF LifePhases
<1>2. CASE Orphan(l)
  BY <1>1, <1>2, AtDoes DEF Ends, Orphan, Perishes
<1>3. CASE ~Orphan(l)
  BY <1>1, <1>3, AtDoes DEF Ends, Perishes
<1> QED  BY <1>2, <1>3

LEMMA TerminatedDoes ==
  ASSUME QuickTypeOK, NEW l \in Lives, Terminated(l)
  PROVE  \/ proc[l].phase = "serving" /\ PhaseTo(l, "closing") /\ root' = root
         \/ proc[l].phase \in Starting \cup {"listening"} /\ Perishes(l)
         \/ UNCHANGED <<proc, root>>
<1>1. CASE proc[l].phase = "serving"
  <2>1. At(l, "closing") /\ root' = root
    BY <1>1 DEF Terminated, Starting
  <2> QED  BY <1>1, <2>1, AtDoes DEF LifePhases, Alive, Stopping
<1>2. CASE proc[l].phase \in Starting \cup {"listening"}
  <2>1. Ends(l, Orphan(l))
    BY <1>2 DEF Terminated, Starting
  <2> QED  BY <1>2, <2>1, EndsDoes
<1>3. CASE proc[l].phase \notin Starting \cup {"listening", "serving"}
  BY <1>3 DEF Terminated
<1> QED  BY <1>1, <1>2, <1>3

LEMMA StartsDoes ==
  ASSUME QuickTypeOK, NEW pid \in FreePids, NEW parent \in Commands \cup {"nobody"}, Starts(pid, parent)
  PROVE  /\ lives < MaxLives /\ lives' = lives + 1 /\ lives + 1 \in Lives
         /\ proc' \in Processes
         /\ \A m \in Lives : m # lives + 1 => proc'[m] = proc[m]
         /\ proc'[lives + 1].phase = "probing" /\ proc'[lives + 1].pid = pid /\ proc'[lives + 1].parent = parent
         /\ pid \in Pids /\ Holding(pid) = {}
<1> DEFINE born == [phase |-> "probing", pid |-> pid, parent |-> parent]
<1>1. lives \in Nat /\ MaxLives \in Nat /\ lives < MaxLives /\ lives' = lives + 1 /\ lives + 1 \in Lives
  BY LifecycleAssumption DEF QuickTypeOK, Starts, Lives
<1>2. pid \in Pids /\ Holding(pid) = {}
  BY DEF FreePids
<1>3. proc \in Processes /\ proc' = [proc EXCEPT ![lives + 1] = born]
  BY DEF QuickTypeOK, Processes, Starts
<1>4. /\ born \in [phase : LifePhases, pid : Pids \cup {0}, parent : Commands \cup {"nobody"}]
      /\ born.phase = "probing" /\ born.pid = pid /\ born.parent = parent
  BY <1>2 DEF LifePhases, Alive, Starting
<1> HIDE DEF born
<1>5. proc' \in Processes /\ proc'[lives + 1] = born /\ \A m \in Lives : m # lives + 1 => proc'[m] = proc[m]
  BY <1>1, <1>3, <1>4 DEF Processes
<1> QED  BY <1>1, <1>2, <1>4, <1>5

LEMMA DisownDoes ==
  ASSUME QuickTypeOK, NEW k \in Commands, proc' = Disown(proc, k)
  PROVE  /\ proc' \in Processes
         /\ \A m \in Lives :
              /\ proc'[m].pid = proc[m].pid
              /\ proc'[m].phase = proc[m].phase \/ (proc[m].phase = "zombie" /\ proc'[m].phase = "gone")
              /\ proc[m].parent # k => proc'[m] = proc[m]
              /\ proc'[m] = proc[m] \/ proc'[m].parent = "nobody"
<1>1. ASSUME NEW m \in Lives
      PROVE  /\ proc'[m] \in [phase : LifePhases, pid : Pids \cup {0}, parent : Commands \cup {"nobody"}]
             /\ proc'[m].pid = proc[m].pid
             /\ proc'[m].phase = proc[m].phase \/ (proc[m].phase = "zombie" /\ proc'[m].phase = "gone")
             /\ proc[m].parent # k => proc'[m] = proc[m]
             /\ proc'[m] = proc[m] \/ proc'[m].parent = "nobody"
  <2>1. proc[m] \in [phase : LifePhases, pid : Pids \cup {0}, parent : Commands \cup {"nobody"}]
    BY DEF QuickTypeOK
  <2>2. CASE proc[m].parent # k
    BY <2>1, <2>2 DEF Disown
  <2>3. CASE proc[m].parent = k
    <3> DEFINE phase == IF proc[m].phase = "zombie" THEN "gone" ELSE proc[m].phase
    <3>1. proc'[m] = [proc[m] EXCEPT !.parent = "nobody", !.phase = phase]
      BY <2>3 DEF Disown
    <3>2. phase \in LifePhases
      BY <2>1 DEF LifePhases
    <3>3. /\ proc'[m] \in [phase : LifePhases, pid : Pids \cup {0}, parent : Commands \cup {"nobody"}]
          /\ proc'[m].pid = proc[m].pid /\ proc'[m].phase = phase /\ proc'[m].parent = "nobody"
      <4> HIDE DEF phase
      <4> QED  BY <2>1, <3>1, <3>2
    <3> QED  BY <2>3, <3>3
  <2> QED  BY <2>2, <2>3
<1>2. proc' = [m \in Lives |-> proc'[m]]
  BY DEF Disown
<1> QED  BY <1>1, <1>2 DEF Processes

(* A command goes to a place, or ends with what it claims.                 *)
Place(k, at, claim) ==
  /\ cmd' \in Runs
  /\ \A j \in Commands : j # k => cmd'[j] = cmd[j]
  /\ cmd'[k].at = at /\ cmd'[k].child = cmd[k].child
  /\ cmd'[k].pinned = cmd[k].pinned /\ cmd'[k].claim = claim

LEMMA GoDoes ==
  ASSUME QuickTypeOK, NEW k \in Commands, NEW at \in Places, Go(k, at)
  PROVE  Place(k, at, cmd[k].claim)
<1> DEFINE next == [cmd[k] EXCEPT !.at = at]
<1>1. cmd \in Runs /\ cmd[k] \in [at : Places, child : 0..MaxLives, pinned : 0..MaxLives, claim : Claims]
  BY DEF QuickTypeOK, Runs
<1>2. /\ next \in [at : Places, child : 0..MaxLives, pinned : 0..MaxLives, claim : Claims]
      /\ next.at = at /\ next.child = cmd[k].child /\ next.pinned = cmd[k].pinned /\ next.claim = cmd[k].claim
  BY <1>1
<1>3. cmd' = [cmd EXCEPT ![k] = next]
  BY DEF Go
<1> HIDE DEF next
<1>4. cmd' \in Runs /\ cmd'[k] = next /\ \A j \in Commands : j # k => cmd'[j] = cmd[j]
  BY <1>1, <1>2, <1>3 DEF Runs
<1> QED  BY <1>2, <1>4 DEF Place

LEMMA DoneDoes ==
  ASSUME QuickTypeOK, NEW k \in Commands, NEW claim \in Claims, Done(k, claim)
  PROVE  Place(k, "done", claim)
<1> DEFINE next == [cmd[k] EXCEPT !.at = "done", !.claim = claim]
<1>1. cmd \in Runs /\ cmd[k] \in [at : Places, child : 0..MaxLives, pinned : 0..MaxLives, claim : Claims]
  BY DEF QuickTypeOK, Runs
<1>2. /\ next \in [at : Places, child : 0..MaxLives, pinned : 0..MaxLives, claim : Claims]
      /\ next.at = "done" /\ next.child = cmd[k].child /\ next.pinned = cmd[k].pinned /\ next.claim = claim
  BY <1>1 DEF Places
<1>3. cmd' = [cmd EXCEPT ![k] = next]
  BY <1>1 DEF Done
<1> HIDE DEF next
<1>4. cmd' \in Runs /\ cmd'[k] = next /\ \A j \in Commands : j # k => cmd'[j] = cmd[j]
  BY <1>1, <1>2, <1>3 DEF Runs
<1> QED  BY <1>2, <1>4 DEF Place

(* What the observer says of the lives at work on the name.                *)
LEMMA ObserveDoes ==
  ASSUME QuickTypeOK, Observe
  PROVE  /\ overlapped' \in BOOLEAN
         /\ ~overlapped' => /\ ~overlapped
                            /\ \A l, m \in Lives : proc'[l].phase \in Starting \cup Stopping
                                                   /\ proc'[m].phase \in Starting \cup Stopping => l = m
<1>1. overlapped' \in BOOLEAN
  BY DEF Observe, QuickTypeOK
<1>2. ASSUME ~overlapped', NEW l \in Lives, NEW m \in Lives,
             proc'[l].phase \in Starting \cup Stopping, proc'[m].phase \in Starting \cup Stopping
      PROVE  l = m
  <2>1. l \in AtTheName' /\ m \in AtTheName'
    BY <1>2 DEF AtTheName
  <2>2. IsFiniteSet(AtTheName') /\ Cardinality(AtTheName') \in Nat
    <3>1. IsFiniteSet(Lives)
      BY FS_Interval, LifecycleAssumption DEF Lives
    <3> QED  BY <3>1, FS_Subset, FS_CardinalityType DEF AtTheName
  <2>3. ~ (Cardinality(AtTheName') > 1)
    BY <1>2 DEF Observe
  <2>4. SUFFICES ASSUME l # m PROVE FALSE
    OBVIOUS
  <2>5. IsFiniteSet({l, m}) /\ Cardinality({l, m}) = 2
    <3>1. IsFiniteSet({m}) /\ Cardinality({m}) = 1
      BY FS_Singleton
    <3>2. Cardinality({m} \cup {l}) = Cardinality({m}) + 1 /\ IsFiniteSet({m} \cup {l})
      BY <2>4, <3>1, FS_AddElement
    <3>3. {m} \cup {l} = {l, m}
      OBVIOUS
    <3> QED  BY <3>1, <3>2, <3>3
  <2>6. Cardinality({l, m}) <= Cardinality(AtTheName')
    BY <2>1, <2>2, FS_Subset
  <2> QED  BY <2>2, <2>3, <2>5, <2>6
<1>3. ~overlapped' => ~overlapped
  BY DEF Observe
<1> QED  BY <1>1, <1>2, <1>3

(***************************************************************************)
(* Who runs under a process id.                                            *)
(***************************************************************************)
LEMMA OneUnderAnId ==
  ASSUME QuickTypeOK, LivesShape, NEW l \in Lives, NEW m \in Lives,
         proc[l].pid = proc[m].pid,
         proc[l].phase \in Alive \cup {"zombie"}, proc[m].phase \in Alive \cup {"zombie"}
  PROVE  l = m
<1>1. \A n \in Lives : n <= lives \/ proc[n].phase = "none"
  BY DEF LivesShape, Unborn
<1>2. {"none", "gone"} \cap (Alive \cup {"zombie"}) = {}
  BY DEF Alive, Starting, Listening, Stopping
<1>3. l \in Nat /\ m \in Nat /\ lives \in Nat
  BY LifecycleAssumption DEF Lives, QuickTypeOK
<1>4. l <= lives /\ m <= lives
  BY <1>1, <1>2
<1>5. ~ (l < m) /\ ~ (m < l)
  BY <1>2, <1>4 DEF LivesShape
<1> QED  BY <1>3, <1>5

LEMMA RunsUnder ==
  ASSUME QuickTypeOK, LivesShape, NEW pid
  PROVE  /\ RunningAs(pid) = 0 \/ /\ RunningAs(pid) \in Lives /\ IsRunning(RunningAs(pid))
                                  /\ proc[RunningAs(pid)].pid = pid
         /\ \A l \in Lives : IsRunning(l) /\ proc[l].pid = pid => RunningAs(pid) = l
<1>1. CASE \E l \in Holding(pid) : IsRunning(l)
  <2>1. RunningAs(pid) = CHOOSE l \in Holding(pid) : IsRunning(l)
    BY <1>1 DEF RunningAs
  <2>2. RunningAs(pid) \in Holding(pid) /\ IsRunning(RunningAs(pid))
    BY <1>1, <2>1
  <2>3. RunningAs(pid) \in Lives /\ proc[RunningAs(pid)].pid = pid
    BY <2>2 DEF Holding
  <2>4. ASSUME NEW l \in Lives, IsRunning(l), proc[l].pid = pid PROVE RunningAs(pid) = l
    BY <2>2, <2>3, <2>4, OneUnderAnId DEF IsRunning
  <2> QED  BY <2>2, <2>3, <2>4
<1>2. CASE ~ \E l \in Holding(pid) : IsRunning(l)
  <2>1. RunningAs(pid) = 0
    BY <1>2 DEF RunningAs
  <2>2. \A l \in Lives : ~ (IsRunning(l) /\ proc[l].pid = pid)
    BY <1>2 DEF Holding, IsRunning
  <2> QED  BY <2>1, <2>2
<1> QED  BY <1>1, <1>2

(* A record that names a running life is not gone.                         *)
LEMMA NamedIsNotGone ==
  ASSUME QuickTypeOK, LivesShape, NEW l \in Lives, IsRunning(l),
         record.pid = proc[l].pid, record.began \in {0, l}
  PROVE  Identity(record) # "gone" /\ RunningAs(record.pid) = l
<1>1. RunningAs(record.pid) = l
  BY RunsUnder
<1>2. l # 0 /\ l <= lives
  BY DEF LivesShape, Unborn, IsRunning, Alive, Starting, Listening, Stopping, Lives
<1>3. record.pid # 0
  BY <1>2, LifecycleAssumption DEF LivesShape
<1>4. record # NoRecord
  BY <1>3 DEF NoRecord
<1> QED  BY <1>1, <1>2, <1>4 DEF Identity

(***************************************************************************)
(* Processes that age: what was born keeps its id, nobody comes to life    *)
(* again.  A parent that stays finds its child until it collects it.       *)
(***************************************************************************)
Ages ==
  /\ lives' = lives
  /\ proc' \in Processes
  /\ \A m \in Lives :
       /\ proc'[m].pid = proc[m].pid
       /\ proc'[m].parent \in {proc[m].parent, "nobody"}
       /\ proc[m].phase = "none" => proc'[m].phase = "none"
       /\ proc[m].phase # "none" => proc'[m].phase # "none"
       /\ proc[m].phase = "gone" => proc'[m].phase = "gone"
       /\ proc'[m].phase \in Alive => proc[m].phase \in Alive

Stays(m) ==
  /\ proc'[m].parent = proc[m].parent
  /\ proc[m].phase \in Alive \cup {"zombie"} =>
       proc'[m].phase \in Alive \cup {"zombie"} \/ proc[m].parent = "nobody"

LEMMA AgedLives ==
  ASSUME QuickTypeOK, LivesShape, Ages, \A k \in Commands : cmd'[k].child = cmd[k].child
  PROVE  LivesShape'
<1>1. ASSUME NEW l \in Lives
      PROVE  IF l <= lives' THEN proc'[l].phase # "none" /\ proc'[l].pid \in Pids ELSE proc'[l] = Unborn
  <2>1. CASE l <= lives
    BY <2>1 DEF LivesShape, Ages
  <2>2. CASE ~ (l <= lives)
    <3>1. proc[l] = Unborn
      BY <2>2 DEF LivesShape
    <3>2. proc'[l] \in [phase : LifePhases, pid : Pids \cup {0}, parent : Commands \cup {"nobody"}]
      BY DEF Ages, Processes
    <3>3. proc'[l].phase = "none" /\ proc'[l].pid = 0 /\ proc'[l].parent = "nobody"
      BY <3>1 DEF Ages, Unborn
    <3> QED  BY <2>2, <3>2, <3>3 DEF Ages, Unborn
  <2> QED  BY <2>1, <2>2
<1>2. \A k \in Commands : cmd'[k].child <= lives'
  BY DEF LivesShape, Ages
<1>3. \A l, m \in Lives : l < m /\ m <= lives' /\ proc'[l].pid = proc'[m].pid => proc'[l].phase = "gone"
  BY DEF LivesShape, Ages
<1> QED  BY <1>1, <1>2, <1>3 DEF LivesShape

(* Which children reuse an id depends on the children and the ids only.    *)
LEMMA ReusesStays ==
  ASSUME NEW l \in Lives, QuickTypeOK, CommandShape,
         \A k \in Commands : cmd'[k].child = cmd[k].child,
         \A m \in Lives : proc'[m].pid = proc[m].pid
  PROVE  Reuses(l)' <=> Reuses(l)
<1>1. Children' = Children
  BY DEF Children
<1>2. Children \subseteq Lives
  BY LifecycleAssumption DEF Children, QuickTypeOK, Lives
<1> QED  BY <1>1, <1>2 DEF Reuses

LEMMA ChildIsALife ==
  ASSUME QuickTypeOK, NEW k \in Commands, cmd[k].child # 0
  PROVE  cmd[k].child \in Lives
BY LifecycleAssumption DEF QuickTypeOK, Lives

(* What is owed was owed before, unless a command just recorded its child. *)
LEMMA OwedBefore ==
  ASSUME QuickTypeOK, CommandShape, Ages, \A k \in Commands : cmd'[k].child = cmd[k].child,
         NEW j \in Commands, cmd[j].at = "ready" \/ cmd[j].claim = "ready", Owed(j)'
  PROVE  Owed(j)
<1>1. cmd[j].child \in Lives
  BY ChildIsALife DEF CommandShape
<1>2. ~Reuses(cmd[j].child)' /\ proc'[cmd[j].child].phase \in Alive
  BY DEF Owed, IsRunning
<1>3. ~Reuses(cmd[j].child)
  BY <1>1, <1>2, ReusesStays DEF Ages
<1> QED  BY <1>1, <1>2, <1>3 DEF Owed, IsRunning, Ages

(* A command's place after its step fits the lock and its child.           *)
InPlace(k) ==
  /\ cmd'[k].at \in {"judge", "spawn", "record", "abandon", "decide", "pin", "signal", "wait"} => lock' = k
  /\ cmd'[k].at \in {"idle", "up", "judge", "spawn"} => cmd'[k].child = 0
  /\ cmd'[k].at \in {"record", "ready", "stopping", "abandon"} =>
        /\ cmd'[k].child # 0
        /\ proc'[cmd'[k].child].parent = k
        /\ proc'[cmd'[k].child].phase \in Alive \cup {"zombie"}
  /\ cmd'[k].at = "forget" => cmd'[k].child # 0
  /\ cmd'[k].claim = "ready" => cmd'[k].at = "done" /\ cmd'[k].child # 0

LEMMA SteppedCommands ==
  ASSUME QuickTypeOK, LivesShape, CommandShape, Ages, NEW k \in Commands, InPlace(k),
         \A j \in Commands : j # k => cmd'[j] = cmd[j] /\ (lock = j => lock' = j),
         cmd'[k].child = cmd[k].child,
         \A m \in Lives : proc[m].parent \in Commands \ {k} => Stays(m)
  PROVE  LivesShape' /\ CommandShape'
<1>1. \A j \in Commands : cmd'[j].child = cmd[j].child
  OBVIOUS
<1>2. LivesShape'
  BY <1>1, AgedLives
<1>3. ASSUME NEW j \in Commands, j # k, cmd[j].at \in {"record", "ready", "stopping", "abandon"}
      PROVE  proc'[cmd[j].child].parent = j /\ proc'[cmd[j].child].phase \in Alive \cup {"zombie"}
  <2>1. /\ cmd[j].child \in Lives /\ proc[cmd[j].child].parent = j
        /\ proc[cmd[j].child].phase \in Alive \cup {"zombie"}
    BY <1>3, ChildIsALife DEF CommandShape
  <2> QED  BY <1>3, <2>1, CommandsAssumption DEF Stays
<1>4. \A j \in Commands : j # k => InPlace(j)
  BY <1>3 DEF CommandShape, InPlace
<1>5. \A j \in Commands : InPlace(j)
  BY <1>4
<1> QED  BY <1>1, <1>2, <1>5 DEF InPlace, CommandShape

(* A step that leaves the record alone.                                    *)
LEMMA RecordStays ==
  ASSUME QuickTypeOK, CommandShape, RecordShape, Ages, record' = record, NEW k \in Commands,
         \A j \in Commands : j # k => cmd'[j] = cmd[j],
         cmd'[k].child = cmd[k].child,
         cmd'[k].at = "ready" \/ cmd'[k].claim = "ready" => cmd[k].at = "ready" \/ cmd[k].claim = "ready",
         cmd'[k].at \in {"spawn", "record"} => \A j \in Commands : ~Owed(j),
         cmd'[k].at \in {"pin", "signal"} => record.began # 0,
         cmd'[k].at = "signal" /\ cmd'[k].pinned # 0 =>
            cmd'[k].pinned <= lives /\ proc'[cmd'[k].pinned].pid = record.pid
  PROVE  RecordShape'
<1>1. \A j \in Commands : cmd'[j].child = cmd[j].child
  OBVIOUS
<1>2. ASSUME NEW j \in Commands, Owed(j)'
      PROVE  Owed(j) /\ cmd[j].child \in Lives
  <2>1. cmd[j].at = "ready" \/ cmd[j].claim = "ready"
    BY <1>2 DEF Owed
  <2> QED  BY <1>1, <1>2, <2>1, OwedBefore, ChildIsALife DEF CommandShape
<1>3. \A j \in Commands : Owed(j)' =>
         record'.pid = proc'[cmd'[j].child].pid /\ record'.began \in {0, cmd'[j].child}
  BY <1>1, <1>2 DEF RecordShape, Ages
<1>4. \A i, j \in Commands : cmd'[j].at \in {"spawn", "record"} => ~Owed(i)'
  BY <1>2 DEF RecordShape
<1>5. record'.began # 0 => record'.began \in Children'
  BY <1>1 DEF RecordShape, Children
<1>6. \A j \in Commands : cmd'[j].at \in {"pin", "signal"} => record'.began # 0
  BY DEF RecordShape
<1>7. ASSUME NEW j \in Commands, cmd'[j].at = "signal", cmd'[j].pinned # 0
      PROVE  cmd'[j].pinned <= lives' /\ proc'[cmd'[j].pinned].pid = record'.pid
  <2>1. CASE j = k
    BY <1>7, <2>1 DEF Ages
  <2>2. CASE j # k
    <3>1. cmd'[j] = cmd[j] /\ cmd[j].pinned \in Lives
      BY <1>7, <2>2, LifecycleAssumption DEF QuickTypeOK, Lives
    <3> QED  BY <1>7, <3>1 DEF RecordShape, Ages
  <2> QED  BY <2>1, <2>2
<1> QED  BY <1>3, <1>4, <1>5, <1>6, <1>7 DEF RecordShape

(* A step that removes the record, when it is owed to nobody.              *)
LEMMA RecordGoes ==
  ASSUME QuickTypeOK, CommandShape, RecordShape, Ages, record' = NoRecord, NEW k \in Commands,
         \A j \in Commands : j # k => cmd'[j] = cmd[j],
         cmd'[k].child = cmd[k].child, cmd'[k].at = "done", cmd'[k].claim = "nothing",
         \A j \in Commands : j # k => ~Owed(j) /\ cmd[j].at \notin {"pin", "signal"}
  PROVE  RecordShape'
<1>1. \A j \in Commands : cmd'[j].child = cmd[j].child
  OBVIOUS
<1>2. ASSUME NEW j \in Commands, Owed(j)'
      PROVE  FALSE
  <2>1. j # k
    BY <1>2 DEF Owed
  <2>2. cmd[j].at = "ready" \/ cmd[j].claim = "ready"
    BY <1>2, <2>1 DEF Owed
  <2>3. Owed(j)
    BY <1>1, <1>2, <2>2, OwedBefore
  <2> QED  BY <2>1, <2>3
<1>3. record'.began = 0
  BY DEF NoRecord
<1>4. \A j \in Commands : cmd'[j].at \notin {"pin", "signal"}
  OBVIOUS
<1> QED  BY <1>2, <1>3, <1>4 DEF RecordShape

LEMMA AgedCommands ==
  ASSUME QuickTypeOK, LivesShape, CommandShape, RecordShape, Ages, \A m \in Lives : Stays(m),
         UNCHANGED <<lock, record, cmd>>
  PROVE  LivesShape' /\ CommandShape' /\ RecordShape'
<1>1. LivesShape'
  BY AgedLives
<1>2. CommandShape'
  <2>1. ASSUME NEW k \in Commands PROVE InPlace(k)
    <3>1. CASE cmd[k].at \in {"record", "ready", "stopping", "abandon"}
      <4>1. /\ cmd[k].child \in Lives /\ proc[cmd[k].child].parent = k
            /\ proc[cmd[k].child].phase \in Alive \cup {"zombie"}
        BY <3>1, ChildIsALife DEF CommandShape
      <4> QED  BY <4>1, CommandsAssumption DEF Stays, CommandShape, InPlace
    <3>2. CASE cmd[k].at \notin {"record", "ready", "stopping", "abandon"}
      BY <3>2 DEF CommandShape, InPlace
    <3> QED  BY <3>1, <3>2
  <2> QED  BY <2>1 DEF InPlace, CommandShape
<1>3. RecordShape'
  <2>1. CASE Commands = {}
    BY <2>1 DEF RecordShape, Children
  <2>2. ASSUME NEW k \in Commands PROVE RecordShape'
    <3>1. cmd[k].at = "signal" /\ cmd[k].pinned # 0 =>
             cmd[k].pinned <= lives /\ proc'[cmd[k].pinned].pid = record.pid
      <4>1. cmd[k].pinned # 0 => cmd[k].pinned \in Lives
        BY LifecycleAssumption DEF QuickTypeOK, Lives
      <4> QED  BY <4>1 DEF RecordShape, Ages
    <3>2. /\ cmd[k].at \in {"spawn", "record"} => \A j \in Commands : ~Owed(j)
          /\ cmd[k].at \in {"pin", "signal"} => record.began # 0
      BY DEF RecordShape
    <3> QED  BY <3>1, <3>2, RecordStays
  <2> QED  BY <2>1, <2>2
<1> QED  BY <1>1, <1>2, <1>3

(* A life that goes on, or ends, ages.                                     *)
LEMMA MovedAges ==
  ASSUME QuickTypeOK, NEW l \in Lives, NEW p, proc[l].phase \in Alive, lives' = lives, PhaseTo(l, p),
         p \in Alive \cup {"zombie"} \/ (p = "gone" /\ proc[l].parent = "nobody")
  PROVE  Ages /\ \A m \in Lives : Stays(m)
<1>1. {"none", "gone", "zombie"} \cap Alive = {}
  BY DEF Alive, Starting, Listening, Stopping
<1>2. \A m \in Lives : m # l => proc'[m].phase = proc[m].phase /\ proc'[m].parent = proc[m].parent
                                 /\ proc'[m].pid = proc[m].pid
  BY DEF PhaseTo
<1>3. proc'[l].phase = p /\ proc'[l].parent = proc[l].parent /\ proc'[l].pid = proc[l].pid
  BY DEF PhaseTo
<1>4. \A m \in Lives : proc[m].phase \in LifePhases
  BY DEF QuickTypeOK
<1>5. proc' \in Processes
  BY DEF PhaseTo
<1> QED  BY <1>1, <1>2, <1>3, <1>4, <1>5 DEF Ages, Stays

(* What a step of a life leaves to prove.                                  *)
LEMMA LifeFollows ==
  ASSUME QuickInv, Ages, \A m \in Lives : Stays(m), UNCHANGED <<lock, record, cmd>>, Observe,
         address' \in 0..MaxLives, root' \in 0..MaxLives, RootShape', NameShape'
  PROVE  QuickInv'
<1>1. LivesShape' /\ CommandShape' /\ RecordShape'
  BY AgedCommands DEF QuickInv
<1>2. QuickTypeOK'
  BY ObserveDoes DEF QuickInv, QuickTypeOK, Ages, Processes
<1> QED  BY <1>1, <1>2 DEF QuickInv

(* Nobody new comes to the name, and whoever is at work has the root.      *)
LEMMA Fades ==
  ASSUME QuickInv, Observe, address' = address,
         \A m \in Lives :
           /\ \/ proc'[m].phase \in {proc[m].phase, "zombie", "gone", "probing"}
              \/ proc[m].phase = "serving" /\ proc'[m].phase = "closing"
           /\ proc[m].phase \in AtWork /\ proc'[m].phase \in AtWork => root' = root
  PROVE  RootShape' /\ NameShape'
<1>1. {"zombie", "gone", "probing"} \cap AtWork = {} /\ {"serving", "closing"} \subseteq AtWork
  BY DEF AtWork, Listening, Stopping
<1>2. RootShape'
  BY <1>1 DEF QuickInv, RootShape
<1>3. ~overlapped' => ~overlapped /\ \A l, m \in Lives : proc'[l].phase \in Starting \cup Stopping
                                                   /\ proc'[m].phase \in Starting \cup Stopping => l = m
  BY ObserveDoes DEF QuickInv
<1>4. ASSUME ~overlapped' PROVE ~overlapped /\ \A l, m \in AtTheName' : l = m
  BY <1>3, <1>4 DEF AtTheName
<1>5. ASSUME ~overlapped', NEW l \in Lives, NEW m \in Lives, proc'[l].phase \in {"unlinking", "binding"}
      PROVE  proc'[m].phase \notin Listening
  <2>1. proc[l].phase = proc'[l].phase
    BY <1>5
  <2>2. proc[m].phase \notin Listening
    BY <1>4, <1>5, <2>1 DEF QuickInv, NameShape
  <2> QED  BY <2>2 DEF Listening
<1>6. ASSUME ~overlapped', NEW l \in Lives,
             proc'[l].phase \in {"bound", "composing", "undoing"} \cup Listening \cup Stopping
      PROVE  address' = l
  <2>1. proc[l].phase \in {"bound", "composing", "undoing"} \cup Listening \cup Stopping
    BY <1>6 DEF Listening, Stopping
  <2> QED  BY <1>4, <1>6, <2>1 DEF QuickInv, NameShape
<1> QED  BY <1>2, <1>4, <1>5, <1>6 DEF NameShape

(* A life that ends, wherever it was.                                      *)
LEMMA PerishKeeps ==
  ASSUME QuickInv, NEW l \in Lives, proc[l].phase \in Alive, Perishes(l), Observe,
         lives' = lives, address' = address, UNCHANGED <<lock, record, cmd>>
  PROVE  QuickInv'
<1>1. Ages /\ \A m \in Lives : Stays(m)
  BY MovedAges DEF Perishes, QuickInv
<1>2. ASSUME NEW m \in Lives
      PROVE  /\ proc'[m].phase \in {proc[m].phase, "zombie", "gone"}
             /\ proc[m].phase \in AtWork /\ proc'[m].phase \in AtWork => root' = root
  <2>1. CASE m = l
    BY <2>1 DEF Perishes, PhaseTo, AtWork, Listening, Stopping
  <2>2. CASE m # l
    BY <2>2 DEF Perishes, PhaseTo, QuickInv, RootShape
  <2> QED  BY <2>1, <2>2
<1>3. RootShape' /\ NameShape'
  BY <1>2, Fades
<1>4. address' \in 0..MaxLives /\ root' \in 0..MaxLives
  BY LifecycleAssumption DEF QuickInv, QuickTypeOK, Perishes
<1> QED  BY <1>1, <1>3, <1>4, LifeFollows

(***************************************************************************)
(* The steps of a life.                                                    *)
(***************************************************************************)
LifeFrame == Observe /\ UNCHANGED <<lock, record, cmd>>

LEMMA RefusedEarlyKeeps ==
  ASSUME QuickInv, NEW l \in Lives, RefusedEarly(l), LifeFrame
  PROVE  QuickInv'
<1>1. Perishes(l) /\ proc[l].phase \in Alive /\ lives' = lives /\ address' = address
  BY EndsDoes DEF RefusedEarly, QuickInv, Alive, Starting
<1> QED  BY <1>1, PerishKeeps DEF LifeFrame

LEMMA ProbeKeeps ==
  ASSUME QuickInv, NEW l \in Lives, Probe(l), LifeFrame
  PROVE  QuickInv'
<1>1. proc[l].phase = "probing" /\ lives' = lives /\ address' = address
  BY DEF Probe
<1>2. CASE Ends(l, Orphan(l))
  BY <1>1, <1>2, EndsDoes, PerishKeeps DEF QuickInv, Alive, Starting, LifeFrame
<1>3. ASSUME NEW p \in {"binding", "unlinking"}, At(l, p), root' = root, ~Listens(address)
      PROVE  QuickInv'
  <2>1. PhaseTo(l, p)
    BY <1>3, AtDoes DEF QuickInv, LifePhases, Alive, Starting
  <2>2. Ages /\ \A m \in Lives : Stays(m)
    BY <1>1, <2>1, MovedAges DEF QuickInv, Alive, Starting
  <2>3. RootShape'
    BY <1>3, <2>1 DEF QuickInv, RootShape, PhaseTo, AtWork, Listening, Stopping
  <2>4. NameShape'
    <3>1. ASSUME ~overlapped', NEW m \in Lives PROVE proc[m].phase \notin Listening
      <4>1. proc[m].phase \in Listening => address = m
        BY <3>1, ObserveDoes DEF QuickInv, NameShape, LifeFrame
      <4> QED  BY <4>1, <1>3 DEF Listens, Lives
    <3>2. ~overlapped' => ~overlapped /\ \A m, n \in AtTheName' : m = n
      BY ObserveDoes DEF QuickInv, AtTheName, LifeFrame
    <3> QED  BY <1>1, <2>1, <3>1, <3>2 DEF QuickInv, NameShape, PhaseTo, Listening, Stopping
  <2> QED  BY <1>1, <1>3, <2>2, <2>3, <2>4, LifeFollows DEF LifeFrame, QuickInv, QuickTypeOK
<1>4. \/ address = 0 /\ At(l, "binding") /\ root' = root
      \/ ~Listens(address) /\ At(l, "unlinking") /\ root' = root
      \/ Ends(l, Orphan(l))
  BY DEF Probe
<1>5. address = 0 => ~Listens(address)
  BY DEF Listens
<1> QED  BY <1>2, <1>3, <1>4, <1>5

(* A step of a life that goes on: what is left is the root and the name.   *)
LEMMA MoveKeeps ==
  ASSUME QuickInv, NEW l \in Lives, NEW p \in Alive, proc[l].phase \in Alive, PhaseTo(l, p), LifeFrame,
         lives' = lives, address' \in 0..MaxLives, root' \in 0..MaxLives, RootShape',
         ~overlapped' => \A m \in Lives :
             proc'[m].phase \in {"bound", "composing", "undoing"} \cup Listening \cup Stopping => address' = m,
         ~overlapped' => \A m, n \in Lives : proc'[m].phase \in {"unlinking", "binding"} => proc'[n].phase \notin Listening
  PROVE  QuickInv'
<1>1. Ages /\ \A m \in Lives : Stays(m)
  BY MovedAges DEF QuickInv
<1>2. ~overlapped' => \A m, n \in AtTheName' : m = n
  BY ObserveDoes DEF QuickInv, AtTheName, LifeFrame
<1>3. NameShape'
  BY <1>2 DEF NameShape
<1> QED  BY <1>1, <1>3, LifeFollows DEF LifeFrame

(* Before a step that leaves the observer content the name was in order.   *)
LEMMA NameWas ==
  ASSUME QuickInv, LifeFrame, ~overlapped'
  PROVE  /\ \A m, n \in Lives : proc[m].phase \in Starting \cup Stopping /\ proc[n].phase \in Starting \cup Stopping => m = n
         /\ \A m, n \in Lives : proc[m].phase \in {"unlinking", "binding"} => proc[n].phase \notin Listening
         /\ \A m \in Lives :
              proc[m].phase \in {"bound", "composing", "undoing"} \cup Listening \cup Stopping => address = m
<1>1. ~overlapped
  BY ObserveDoes DEF QuickInv, LifeFrame
<1>2. \A m, n \in AtTheName : m = n
  BY <1>1 DEF QuickInv, NameShape
<1> QED  BY <1>1, <1>2 DEF QuickInv, NameShape, AtTheName

LEMMA HandleKeeps ==
  ASSUME QuickInv, NEW l \in Lives, Handle(l), LifeFrame
  PROVE  QuickInv'
<1>1. /\ proc[l].phase = "listening" /\ lives' = lives /\ address' = address /\ root' = root
      /\ PhaseTo(l, "serving") /\ {"listening", "serving"} \subseteq Alive
  BY AtDoes DEF Handle, QuickInv, LifePhases, Alive, Starting, Listening, Stopping
<1>2. RootShape'
  BY <1>1 DEF QuickInv, RootShape, PhaseTo, AtWork, Listening, Stopping
<1>3. address' \in 0..MaxLives /\ root' \in 0..MaxLives
  BY <1>1, LifecycleAssumption DEF QuickInv, QuickTypeOK, Lives
<1>4. ASSUME ~overlapped', NEW m \in Lives,
             proc'[m].phase \in {"bound", "composing", "undoing"} \cup Listening \cup Stopping
      PROVE  address' = m
  BY <1>1, <1>4, NameWas DEF PhaseTo, Starting, Listening, Stopping
<1>5. ASSUME ~overlapped', NEW m \in Lives, NEW n \in Lives, proc'[m].phase \in {"unlinking", "binding"}
      PROVE  proc'[n].phase \notin Listening
  BY <1>1, <1>5, NameWas DEF PhaseTo, Starting, Listening, Stopping
<1> QED  BY <1>1, <1>2, <1>3, <1>4, <1>5, MoveKeeps

LEMMA CloseListenerKeeps ==
  ASSUME QuickInv, NEW l \in Lives, CloseListener(l), LifeFrame
  PROVE  QuickInv'
<1>1. /\ proc[l].phase = "closing" /\ lives' = lives /\ address' = address /\ root' = root
      /\ PhaseTo(l, "unbinding") /\ {"closing", "unbinding"} \subseteq Alive
  BY AtDoes DEF CloseListener, QuickInv, LifePhases, Alive, Starting, Listening, Stopping
<1>2. RootShape'
  BY <1>1 DEF QuickInv, RootShape, PhaseTo, AtWork, Listening, Stopping
<1>3. address' \in 0..MaxLives /\ root' \in 0..MaxLives
  BY <1>1, LifecycleAssumption DEF QuickInv, QuickTypeOK, Lives
<1>4. ASSUME ~overlapped', NEW m \in Lives,
             proc'[m].phase \in {"bound", "composing", "undoing"} \cup Listening \cup Stopping
      PROVE  address' = m
  BY <1>1, <1>4, NameWas DEF PhaseTo, Starting, Listening, Stopping
<1>5. ASSUME ~overlapped', NEW m \in Lives, NEW n \in Lives, proc'[m].phase \in {"unlinking", "binding"}
      PROVE  proc'[n].phase \notin Listening
  BY <1>1, <1>5, NameWas DEF PhaseTo, Starting, Listening, Stopping
<1> QED  BY <1>1, <1>2, <1>3, <1>4, <1>5, MoveKeeps

LEMMA UnbindKeeps ==
  ASSUME QuickInv, NEW l \in Lives, Unbind(l), LifeFrame
  PROVE  QuickInv'
<1>1. /\ proc[l].phase = "unbinding" /\ lives' = lives /\ address' \in {0, address} /\ root' = root
      /\ PhaseTo(l, "draining") /\ {"unbinding", "draining"} \subseteq Alive
  BY AtDoes DEF Unbind, QuickInv, LifePhases, Alive, Starting, Listening, Stopping
<1>2. RootShape'
  BY <1>1 DEF QuickInv, RootShape, PhaseTo, AtWork, Listening, Stopping
<1>3. address' \in 0..MaxLives /\ root' \in 0..MaxLives
  BY <1>1, LifecycleAssumption DEF QuickInv, QuickTypeOK, Lives
<1>4. ASSUME ~overlapped', NEW m \in Lives,
             proc'[m].phase \in {"bound", "composing", "undoing"} \cup Listening \cup Stopping
      PROVE  address' = m
  BY <1>1, <1>4, NameWas DEF PhaseTo, Starting, Listening, Stopping
<1>5. ASSUME ~overlapped', NEW m \in Lives, NEW n \in Lives, proc'[m].phase \in {"unlinking", "binding"}
      PROVE  proc'[n].phase \notin Listening
  BY <1>1, <1>5, NameWas DEF PhaseTo, Starting, Listening, Stopping
<1> QED  BY <1>1, <1>2, <1>3, <1>4, <1>5, MoveKeeps

LEMMA UnlinkKeeps ==
  ASSUME QuickInv, NEW l \in Lives, Unlink(l), LifeFrame
  PROVE  QuickInv'
<1>1. proc[l].phase = "unlinking" /\ lives' = lives
  BY DEF Unlink
<1>2. CASE Ends(l, Orphan(l)) /\ address' = address
  BY <1>1, <1>2, EndsDoes, PerishKeeps DEF QuickInv, Alive, Starting, Listening, Stopping, LifeFrame
<1>3. ASSUME At(l, "binding"), address' = 0, root' = root
      PROVE  QuickInv'
  <2>1. /\ proc[l].phase = "unlinking" /\ PhaseTo(l, "binding") /\ {"unlinking", "binding"} \subseteq Alive
    BY <1>1, <1>3, AtDoes DEF QuickInv, LifePhases, Alive, Starting, Listening, Stopping
  <2>2. RootShape'
    BY <1>3, <2>1 DEF QuickInv, RootShape, PhaseTo, AtWork, Listening, Stopping, Lives
  <2>3. address' \in 0..MaxLives /\ root' \in 0..MaxLives
    BY <1>3, LifecycleAssumption DEF QuickInv, QuickTypeOK, Lives
  <2>4. ASSUME ~overlapped', NEW m \in Lives,
               proc'[m].phase \in {"bound", "composing", "undoing"} \cup Listening \cup Stopping
        PROVE  address' = m
    BY <1>3, <2>1, <2>4, NameWas DEF PhaseTo, Starting, Listening, Stopping
  <2>5. ASSUME ~overlapped', NEW m \in Lives, NEW n \in Lives, proc'[m].phase \in {"unlinking", "binding"}
        PROVE  proc'[n].phase \notin Listening
    BY <1>3, <2>1, <2>5, NameWas DEF PhaseTo, Starting, Listening, Stopping
  <2> QED  BY <1>1, <2>1, <2>2, <2>3, <2>4, <2>5, MoveKeeps
<1>4. \/ Ends(l, Orphan(l)) /\ address' = address
      \/ At(l, "binding") /\ address' = 0 /\ root' = root
  BY DEF Unlink
<1> QED  BY <1>2, <1>3, <1>4

LEMMA BindKeeps ==
  ASSUME QuickInv, NEW l \in Lives, Bind(l), LifeFrame
  PROVE  QuickInv'
<1>1. proc[l].phase = "binding" /\ lives' = lives
  BY DEF Bind
<1>2. CASE Ends(l, Orphan(l)) /\ address' = address
  BY <1>1, <1>2, EndsDoes, PerishKeeps DEF QuickInv, Alive, Starting, Listening, Stopping, LifeFrame
<1>3. ASSUME At(l, "bound"), address' = l, root' = root
      PROVE  QuickInv'
  <2>1. /\ proc[l].phase = "binding" /\ PhaseTo(l, "bound") /\ {"binding", "bound"} \subseteq Alive
    BY <1>1, <1>3, AtDoes DEF QuickInv, LifePhases, Alive, Starting, Listening, Stopping
  <2>2. RootShape'
    BY <1>3, <2>1 DEF QuickInv, RootShape, PhaseTo, AtWork, Listening, Stopping, Lives
  <2>3. address' \in 0..MaxLives /\ root' \in 0..MaxLives
    BY <1>3, LifecycleAssumption DEF QuickInv, QuickTypeOK, Lives
  <2>4. ASSUME ~overlapped', NEW m \in Lives,
               proc'[m].phase \in {"bound", "composing", "undoing"} \cup Listening \cup Stopping
        PROVE  address' = m
    BY <1>3, <2>1, <2>4, NameWas DEF PhaseTo, Starting, Listening, Stopping
  <2>5. ASSUME ~overlapped', NEW m \in Lives, NEW n \in Lives, proc'[m].phase \in {"unlinking", "binding"}
        PROVE  proc'[n].phase \notin Listening
    BY <1>3, <2>1, <2>5, NameWas DEF PhaseTo, Starting, Listening, Stopping
  <2> QED  BY <1>1, <2>1, <2>2, <2>3, <2>4, <2>5, MoveKeeps
<1> QED  BY <1>2, <1>3 DEF Bind

LEMMA SecureKeeps ==
  ASSUME QuickInv, NEW l \in Lives, Secure(l), LifeFrame
  PROVE  QuickInv'
<1>1. proc[l].phase = "bound" /\ lives' = lives
  BY DEF Secure
<1>2. ASSUME At(l, "undoing"), address' = address, root' = root
      PROVE  QuickInv'
  <2>1. /\ proc[l].phase = "bound" /\ PhaseTo(l, "undoing") /\ {"bound", "undoing"} \subseteq Alive
    BY <1>1, <1>2, AtDoes DEF QuickInv, LifePhases, Alive, Starting, Listening, Stopping
  <2>2. RootShape'
    BY <1>2, <2>1 DEF QuickInv, RootShape, PhaseTo, AtWork, Listening, Stopping, Lives
  <2>3. address' \in 0..MaxLives /\ root' \in 0..MaxLives
    BY <1>2, LifecycleAssumption DEF QuickInv, QuickTypeOK, Lives
  <2>4. ASSUME ~overlapped', NEW m \in Lives,
               proc'[m].phase \in {"bound", "composing", "undoing"} \cup Listening \cup Stopping
        PROVE  address' = m
    BY <1>2, <2>1, <2>4, NameWas DEF PhaseTo, Starting, Listening, Stopping
  <2>5. ASSUME ~overlapped', NEW m \in Lives, NEW n \in Lives, proc'[m].phase \in {"unlinking", "binding"}
        PROVE  proc'[n].phase \notin Listening
    BY <1>2, <2>1, <2>5, NameWas DEF PhaseTo, Starting, Listening, Stopping
  <2> QED  BY <1>1, <2>1, <2>2, <2>3, <2>4, <2>5, MoveKeeps
<1>3. ASSUME At(l, "composing"), address' = address, root' = l, root = 0
      PROVE  QuickInv'
  <2>1. /\ proc[l].phase = "bound" /\ PhaseTo(l, "composing") /\ {"bound", "composing"} \subseteq Alive
    BY <1>1, <1>3, AtDoes DEF QuickInv, LifePhases, Alive, Starting, Listening, Stopping
  <2>2. RootShape'
    BY <1>3, <2>1 DEF QuickInv, RootShape, PhaseTo, AtWork, Listening, Stopping, Lives
  <2>3. address' \in 0..MaxLives /\ root' \in 0..MaxLives
    BY <1>3, LifecycleAssumption DEF QuickInv, QuickTypeOK, Lives
  <2>4. ASSUME ~overlapped', NEW m \in Lives,
               proc'[m].phase \in {"bound", "composing", "undoing"} \cup Listening \cup Stopping
        PROVE  address' = m
    BY <1>3, <2>1, <2>4, NameWas DEF PhaseTo, Starting, Listening, Stopping
  <2>5. ASSUME ~overlapped', NEW m \in Lives, NEW n \in Lives, proc'[m].phase \in {"unlinking", "binding"}
        PROVE  proc'[n].phase \notin Listening
    BY <1>3, <2>1, <2>5, NameWas DEF PhaseTo, Starting, Listening, Stopping
  <2> QED  BY <1>1, <2>1, <2>2, <2>3, <2>4, <2>5, MoveKeeps
<1> QED  BY <1>2, <1>3 DEF Secure

LEMMA ListenKeeps ==
  ASSUME QuickInv, NEW l \in Lives, Listen(l), LifeFrame
  PROVE  QuickInv'
<1>1. proc[l].phase = "composing" /\ lives' = lives
  BY DEF Listen
<1>2. ASSUME At(l, "undoing"), address' = address, root' = root
      PROVE  QuickInv'
  <2>1. /\ proc[l].phase = "composing" /\ PhaseTo(l, "undoing") /\ {"composing", "undoing"} \subseteq Alive
    BY <1>1, <1>2, AtDoes DEF QuickInv, LifePhases, Alive, Starting, Listening, Stopping
  <2>2. RootShape'
    BY <1>2, <2>1 DEF QuickInv, RootShape, PhaseTo, AtWork, Listening, Stopping, Lives
  <2>3. address' \in 0..MaxLives /\ root' \in 0..MaxLives
    BY <1>2, LifecycleAssumption DEF QuickInv, QuickTypeOK, Lives
  <2>4. ASSUME ~overlapped', NEW m \in Lives,
               proc'[m].phase \in {"bound", "composing", "undoing"} \cup Listening \cup Stopping
        PROVE  address' = m
    BY <1>2, <2>1, <2>4, NameWas DEF PhaseTo, Starting, Listening, Stopping
  <2>5. ASSUME ~overlapped', NEW m \in Lives, NEW n \in Lives, proc'[m].phase \in {"unlinking", "binding"}
        PROVE  proc'[n].phase \notin Listening
    BY <1>2, <2>1, <2>5, NameWas DEF PhaseTo, Starting, Listening, Stopping
  <2> QED  BY <1>1, <2>1, <2>2, <2>3, <2>4, <2>5, MoveKeeps
<1>3. ASSUME At(l, "listening"), address' = address, root' = root
      PROVE  QuickInv'
  <2>1. /\ proc[l].phase = "composing" /\ PhaseTo(l, "listening") /\ {"composing", "listening"} \subseteq Alive
    BY <1>1, <1>3, AtDoes DEF QuickInv, LifePhases, Alive, Starting, Listening, Stopping
  <2>2. RootShape'
    BY <1>3, <2>1 DEF QuickInv, RootShape, PhaseTo, AtWork, Listening, Stopping, Lives
  <2>3. address' \in 0..MaxLives /\ root' \in 0..MaxLives
    BY <1>3, LifecycleAssumption DEF QuickInv, QuickTypeOK, Lives
  <2>4. ASSUME ~overlapped', NEW m \in Lives,
               proc'[m].phase \in {"bound", "composing", "undoing"} \cup Listening \cup Stopping
        PROVE  address' = m
    BY <1>3, <2>1, <2>4, NameWas DEF PhaseTo, Starting, Listening, Stopping
  <2>5. ASSUME ~overlapped', NEW m \in Lives, NEW n \in Lives, proc'[m].phase \in {"unlinking", "binding"}
        PROVE  proc'[n].phase \notin Listening
    BY <1>3, <2>1, <2>5, NameWas DEF PhaseTo, Starting, Listening, Stopping
  <2> QED  BY <1>1, <2>1, <2>2, <2>3, <2>4, <2>5, MoveKeeps
<1> QED  BY <1>2, <1>3 DEF Listen

LEMMA UndoKeeps ==
  ASSUME QuickInv, NEW l \in Lives, Undo(l), LifeFrame
  PROVE  QuickInv'
<1>1. proc[l].phase = "undoing" /\ lives' = lives /\ address' = 0 /\ Perishes(l)
  BY EndsDoes DEF Undo, QuickInv
<1>2. Ages /\ \A m \in Lives : Stays(m)
  BY <1>1, MovedAges DEF Perishes, QuickInv, Alive, Starting
<1>3. \A m \in Lives : IF m = l THEN proc'[m].phase \in {"zombie", "gone"} ELSE proc'[m].phase = proc[m].phase
  BY <1>1 DEF Perishes, PhaseTo
<1>4. RootShape'
  BY <1>1, <1>3 DEF QuickInv, RootShape, Perishes, AtWork, Listening, Stopping
<1>5. address' \in 0..MaxLives /\ root' \in 0..MaxLives
  BY <1>1, LifecycleAssumption DEF QuickInv, QuickTypeOK, Perishes
<1>6. ASSUME ~overlapped', NEW m \in Lives,
             proc'[m].phase \in {"bound", "composing", "undoing"} \cup Listening \cup Stopping
      PROVE  FALSE
  <2>1. m # l /\ proc[m].phase = proc'[m].phase
    BY <1>3, <1>6 DEF Listening, Stopping
  <2>2. address = m /\ address = l
    BY <1>1, <1>6, <2>1, NameWas
  <2> QED  BY <2>1, <2>2
<1>7. ASSUME ~overlapped', NEW m \in Lives, NEW n \in Lives, proc'[m].phase \in {"unlinking", "binding"}
      PROVE  proc'[n].phase \notin Listening
  BY <1>3, <1>7, NameWas DEF Listening
<1>8. ~overlapped' => \A m, n \in AtTheName' : m = n
  BY ObserveDoes DEF QuickInv, AtTheName, LifeFrame
<1>9. NameShape'
  BY <1>6, <1>7, <1>8 DEF NameShape
<1> QED  BY <1>2, <1>4, <1>5, <1>9, LifeFollows DEF LifeFrame

LEMMA DrainKeeps ==
  ASSUME QuickInv, NEW l \in Lives, Drain(l), LifeFrame
  PROVE  QuickInv'
<1>1. Perishes(l) /\ proc[l].phase \in Alive /\ lives' = lives /\ address' = address
  BY EndsDoes DEF Drain, QuickInv, Alive
<1> QED  BY <1>1, PerishKeeps DEF LifeFrame

LEMMA DiesKeeps ==
  ASSUME QuickInv, NEW l \in Lives, Dies(l), LifeFrame
  PROVE  QuickInv'
<1>1. Perishes(l) /\ proc[l].phase \in Alive /\ lives' = lives /\ address' = address
  BY EndsDoes DEF Dies, QuickInv, IsRunning
<1> QED  BY <1>1, PerishKeeps DEF LifeFrame

LEMMA LifeStepKeeps ==
  ASSUME QuickInv, NEW l \in Lives, LifeStep(l), LifeFrame
  PROVE  QuickInv'
BY RefusedEarlyKeeps, ProbeKeeps, UnlinkKeeps, BindKeeps, SecureKeeps, ListenKeeps, UndoKeeps, HandleKeeps,
   CloseListenerKeeps, UnbindKeeps, DrainKeeps, DiesKeeps DEF LifeStep

(***************************************************************************)
(* What a step of a command does to the processes.                         *)
(***************************************************************************)
QuickRecords == [pid : Pids \cup {0}, began : 0..MaxLives]

Only(k) ==
  /\ \A m \in Lives : proc[m].parent \in Commands \ {k} => Stays(m)
  /\ \A m \in Lives :
       /\ \/ proc'[m].phase \in {proc[m].phase, "zombie", "gone", "probing"}
          \/ proc[m].phase = "serving" /\ proc'[m].phase = "closing"
       /\ proc[m].phase \in AtWork /\ proc'[m].phase \in AtWork => root' = root
  /\ root' \in 0..MaxLives
  /\ address' = address

LEMMA CommandStepKeeps ==
  ASSUME QuickInv, Observe, NEW k \in Commands, Ages, Only(k), InPlace(k), cmd' \in Runs, cmd'[k].child = cmd[k].child,
         \A j \in Commands : j # k => cmd'[j] = cmd[j] /\ (lock = j => lock' = j),
         lock' \in Commands \cup {"nobody"}, record' \in QuickRecords, RecordShape'
  PROVE  QuickInv'
<1>1. LivesShape' /\ CommandShape'
  BY SteppedCommands DEF QuickInv, Only
<1>2. RootShape' /\ NameShape'
  BY Fades DEF Only
<1>3. QuickTypeOK'
  BY ObserveDoes DEF QuickInv, QuickTypeOK, Ages, Processes, Runs, QuickRecords, Only
<1> QED  BY <1>1, <1>2, <1>3 DEF QuickInv

LEMMA QuietWorld ==
  ASSUME QuickTypeOK, UNCHANGED <<lives, address, root, proc>>, NEW k \in Commands
  PROVE  Ages /\ Only(k)
<1>1. \A m \in Lives : proc'[m] = proc[m] /\ proc[m].phase \in LifePhases
  BY DEF QuickTypeOK
<1> QED  BY <1>1 DEF Ages, Only, Stays, QuickTypeOK, Processes

LEMMA DisownWorld ==
  ASSUME QuickInv, UNCHANGED <<lives, address, root>>, NEW k \in Commands, proc' = Disown(proc, k)
  PROVE  Ages /\ Only(k)
<1>1. /\ proc' \in Processes
      /\ \A m \in Lives :
           /\ proc'[m].pid = proc[m].pid
           /\ proc'[m].phase = proc[m].phase \/ (proc[m].phase = "zombie" /\ proc'[m].phase = "gone")
           /\ proc[m].parent # k => proc'[m] = proc[m]
           /\ proc'[m] = proc[m] \/ proc'[m].parent = "nobody"
  BY DisownDoes DEF QuickInv
<1>2. {"none", "gone", "zombie"} \cap Alive = {}
  BY DEF Alive, Starting, Listening, Stopping
<1>3. Ages
  BY <1>1, <1>2 DEF Ages
<1>4. \A m \in Lives : proc[m].parent \in Commands \ {k} => Stays(m)
  BY <1>1 DEF Stays
<1>5. root' \in 0..MaxLives
  BY DEF QuickInv, QuickTypeOK
<1> QED  BY <1>1, <1>3, <1>4, <1>5 DEF Only

LEMMA TerminatedWorld ==
  ASSUME QuickInv, UNCHANGED <<lives, address>>, NEW k \in Commands, NEW l \in Lives, Terminated(l)
  PROVE  Ages /\ Only(k) /\ \A m \in Lives : Stays(m)
<1>1. \/ proc[l].phase = "serving" /\ PhaseTo(l, "closing") /\ root' = root
      \/ proc[l].phase \in Starting \cup {"listening"} /\ Perishes(l)
      \/ UNCHANGED <<proc, root>>
  BY TerminatedDoes DEF QuickInv
<1>2. root' \in 0..MaxLives
  BY <1>1, LifecycleAssumption DEF QuickInv, QuickTypeOK, Perishes
<1>3. CASE proc[l].phase = "serving" /\ PhaseTo(l, "closing") /\ root' = root
  <2>1. Ages /\ \A m \in Lives : Stays(m)
    BY <1>3, MovedAges DEF QuickInv, Alive, Listening, Stopping
  <2> QED  BY <1>2, <1>3, <2>1 DEF Only, PhaseTo
<1>4. CASE proc[l].phase \in Starting \cup {"listening"} /\ Perishes(l)
  <2>1. Ages /\ \A m \in Lives : Stays(m)
    BY <1>4, MovedAges DEF QuickInv, Alive, Listening, Perishes
  <2>2. \A m \in Lives : proc[m].phase \in AtWork => root = m
    BY DEF QuickInv, RootShape
  <2>3. \A m \in Lives : m # l => proc'[m].phase = proc[m].phase
    BY <1>4 DEF Perishes, PhaseTo
  <2>4. proc'[l].phase \in {"zombie", "gone"} /\ {"zombie", "gone"} \cap AtWork = {}
    BY <1>4 DEF Perishes, PhaseTo, AtWork, Listening, Stopping
  <2>5. \A m \in Lives : m # l /\ root = m => root' = root
    BY <1>4 DEF Perishes
  <2> QED  BY <1>2, <2>1, <2>2, <2>3, <2>4, <2>5 DEF Only
<1>5. CASE UNCHANGED <<proc, root>>
  <2>1. Ages /\ Only(k)
    BY <1>5, QuietWorld DEF QuickInv
  <2> QED  BY <1>5, <2>1 DEF Stays
<1> QED  BY <1>1, <1>3, <1>4, <1>5

LEMMA CollectedWorld ==
  ASSUME QuickInv, UNCHANGED <<lives, address, root>>, NEW k \in Commands, NEW l \in Lives, At(l, "gone"),
         proc[l].phase = "zombie", proc[l].parent \notin Commands \ {k}
  PROVE  Ages /\ Only(k)
<1>1. PhaseTo(l, "gone")
  BY AtDoes DEF QuickInv, LifePhases
<1>2. {"none", "gone", "zombie"} \cap Alive = {}
  BY DEF Alive, Starting, Listening, Stopping
<1>3. root' \in 0..MaxLives
  BY DEF QuickInv, QuickTypeOK
<1>4. /\ \A m \in Lives : m # l => proc'[m].phase = proc[m].phase
      /\ \A m \in Lives : proc'[m].pid = proc[m].pid /\ proc'[m].parent = proc[m].parent
      /\ proc'[l].phase = "gone" /\ proc' \in Processes
  BY <1>1 DEF PhaseTo
<1>5. Ages
  BY <1>2, <1>4 DEF Ages
<1>6. \A m \in Lives : proc[m].parent \in Commands \ {k} => Stays(m)
  BY <1>4 DEF Stays
<1> QED  BY <1>3, <1>4, <1>5, <1>6 DEF Only

(* The lock is its holder's.                                               *)
LEMMA LockIsHeld ==
  ASSUME QuickInv, NEW k \in Commands
  PROVE  /\ k # "nobody"
         /\ Release(k) => \A j \in Commands : j # k => (lock = j => lock' = j)
         /\ Release(k) => lock' \in Commands \cup {"nobody"}
         /\ lock = k \/ lock = "nobody" => \A j \in Commands : j # k => cmd[j].at \notin {"pin", "signal"}
         /\ record \in QuickRecords /\ NoRecord \in QuickRecords
<1>1. k # "nobody" /\ lock \in Commands \cup {"nobody"}
  BY CommandsAssumption DEF QuickInv, QuickTypeOK
<1>2. lock = k \/ lock = "nobody" => \A j \in Commands : j # k => cmd[j].at \notin {"pin", "signal"}
  BY CommandsAssumption DEF QuickInv, CommandShape
<1>3. record \in QuickRecords /\ NoRecord \in QuickRecords
  BY LifecycleAssumption DEF QuickInv, QuickTypeOK, QuickRecords, NoRecord
<1> QED  BY <1>1, <1>2, <1>3 DEF Release

(***************************************************************************)
(* The steps of a command, one by one.                                     *)
(***************************************************************************)
(* A command that ends: it claims nothing, or it waited for its child.     *)
LEMMA EndFits ==
  ASSUME QuickInv, NEW k \in Commands, NEW claim \in Claims, Place(k, "done", claim),
         claim = "ready" => cmd[k].child # 0
  PROVE  InPlace(k)
BY DEF InPlace, Place

(* A command that ends by itself, with the record as it is.                *)
LEMMA EndKeeps ==
  ASSUME QuickInv, Observe, NEW k \in Commands, NEW claim \in Claims, Done(k, claim),
         claim = "ready" => cmd[k].at = "ready" /\ cmd[k].child # 0,
         Release(k) \/ lock' = lock,
         record' = record, Ages, Only(k)
  PROVE  QuickInv'
<1>1. Place(k, "done", claim)
  BY DoneDoes DEF QuickInv
<1>2. InPlace(k)
  BY <1>1, EndFits
<1>3. /\ \A j \in Commands : j # k => cmd'[j] = cmd[j] /\ (lock = j => lock' = j)
      /\ lock' \in Commands \cup {"nobody"} /\ record' \in QuickRecords
      /\ cmd' \in Runs /\ cmd'[k].child = cmd[k].child
  BY <1>1, LockIsHeld DEF Place, QuickInv, QuickTypeOK
<1>4. RecordShape'
  <2>1. cmd'[k].at = "done" /\ cmd'[k].claim = claim
    BY <1>1 DEF Place
  <2> QED  BY <1>3, <2>1, RecordStays DEF QuickInv
<1> QED  BY <1>2, <1>3, <1>4, CommandStepKeeps

LEMMA RunsUpKeeps ==
  ASSUME QuickInv, Observe, NEW k \in Commands, RunsUp(k)
  PROVE  QuickInv'
<1>1. /\ cmd[k].at = "idle" /\ Place(k, "up", cmd[k].claim) /\ record' = record
      /\ lock' = lock
      /\ UNCHANGED <<lives, address, root, proc>>
  BY GoDoes DEF RunsUp, UnchangedLives, QuickInv, Places
<1>2. Ages /\ Only(k)
  BY <1>1, QuietWorld DEF QuickInv
<1>3. InPlace(k)
  BY <1>1 DEF InPlace, Place, QuickInv, CommandShape
<1>4. /\ \A j \in Commands : j # k => cmd'[j] = cmd[j] /\ (lock = j => lock' = j)
      /\ lock' \in Commands \cup {"nobody"} /\ record' \in QuickRecords
      /\ cmd' \in Runs /\ cmd'[k].child = cmd[k].child
  BY <1>1, LockIsHeld DEF Place, QuickInv, QuickTypeOK
<1>5. RecordShape'
  <2>1. cmd'[k].at = "up" /\ cmd'[k].claim = cmd[k].claim
    BY <1>1 DEF Place
  <2> QED  BY <1>1, <1>2, <1>4, <2>1, RecordStays DEF QuickInv
<1> QED  BY <1>2, <1>3, <1>4, <1>5, CommandStepKeeps

LEMMA UpLocksKeeps ==
  ASSUME QuickInv, Observe, NEW k \in Commands, UpLocks(k)
  PROVE  QuickInv'
<1>1. /\ cmd[k].at = "up" /\ Place(k, "judge", cmd[k].claim) /\ record' = record
      /\ lock = "nobody" /\ lock' = k
      /\ UNCHANGED <<lives, address, root, proc>>
  BY GoDoes DEF UpLocks, TakeLock, UnchangedLives, QuickInv, Places
<1>2. Ages /\ Only(k)
  BY <1>1, QuietWorld DEF QuickInv
<1>3. InPlace(k)
  BY <1>1 DEF InPlace, Place, QuickInv, CommandShape
<1>4. /\ \A j \in Commands : j # k => cmd'[j] = cmd[j] /\ (lock = j => lock' = j)
      /\ lock' \in Commands \cup {"nobody"} /\ record' \in QuickRecords
      /\ cmd' \in Runs /\ cmd'[k].child = cmd[k].child
  BY <1>1, LockIsHeld DEF Place, QuickInv, QuickTypeOK
<1>5. RecordShape'
  <2>1. cmd'[k].at = "judge" /\ cmd'[k].claim = cmd[k].claim
    BY <1>1 DEF Place
  <2> QED  BY <1>1, <1>2, <1>4, <2>1, RecordStays DEF QuickInv
<1> QED  BY <1>2, <1>3, <1>4, <1>5, CommandStepKeeps

LEMMA RunsDownKeeps ==
  ASSUME QuickInv, Observe, NEW k \in Commands, RunsDown(k)
  PROVE  QuickInv'
<1>1. /\ cmd[k].at = "idle" /\ Place(k, "down", cmd[k].claim) /\ record' = record
      /\ lock' = lock
      /\ UNCHANGED <<lives, address, root, proc>>
  BY GoDoes DEF RunsDown, UnchangedLives, QuickInv, Places
<1>2. Ages /\ Only(k)
  BY <1>1, QuietWorld DEF QuickInv
<1>3. InPlace(k)
  BY <1>1 DEF InPlace, Place, QuickInv, CommandShape
<1>4. /\ \A j \in Commands : j # k => cmd'[j] = cmd[j] /\ (lock = j => lock' = j)
      /\ lock' \in Commands \cup {"nobody"} /\ record' \in QuickRecords
      /\ cmd' \in Runs /\ cmd'[k].child = cmd[k].child
  BY <1>1, LockIsHeld DEF Place, QuickInv, QuickTypeOK
<1>5. RecordShape'
  <2>1. cmd'[k].at = "down" /\ cmd'[k].claim = cmd[k].claim
    BY <1>1 DEF Place
  <2> QED  BY <1>1, <1>2, <1>4, <2>1, RecordStays DEF QuickInv
<1> QED  BY <1>2, <1>3, <1>4, <1>5, CommandStepKeeps

LEMMA DownLocksKeeps ==
  ASSUME QuickInv, Observe, NEW k \in Commands, DownLocks(k)
  PROVE  QuickInv'
<1>1. /\ cmd[k].at = "down" /\ Place(k, "decide", cmd[k].claim) /\ record' = record
      /\ lock = "nobody" /\ lock' = k
      /\ UNCHANGED <<lives, address, root, proc>>
  BY GoDoes DEF DownLocks, TakeLock, UnchangedLives, QuickInv, Places
<1>2. Ages /\ Only(k)
  BY <1>1, QuietWorld DEF QuickInv
<1>3. InPlace(k)
  BY <1>1 DEF InPlace, Place, QuickInv, CommandShape
<1>4. /\ \A j \in Commands : j # k => cmd'[j] = cmd[j] /\ (lock = j => lock' = j)
      /\ lock' \in Commands \cup {"nobody"} /\ record' \in QuickRecords
      /\ cmd' \in Runs /\ cmd'[k].child = cmd[k].child
  BY <1>1, LockIsHeld DEF Place, QuickInv, QuickTypeOK
<1>5. RecordShape'
  <2>1. cmd'[k].at = "decide" /\ cmd'[k].claim = cmd[k].claim
    BY <1>1 DEF Place
  <2> QED  BY <1>1, <1>2, <1>4, <2>1, RecordStays DEF QuickInv
<1> QED  BY <1>2, <1>3, <1>4, <1>5, CommandStepKeeps

(* A record of a process that is gone is owed to nobody.                   *)
LEMMA GoneOwesNothing ==
  ASSUME QuickInv, Identity(record) = "gone" \/ RunningAs(record.pid) = 0, NEW j \in Commands
  PROVE  ~Owed(j)
<1> SUFFICES ASSUME Owed(j) PROVE FALSE
  OBVIOUS
<1>1. cmd[j].child \in Lives
  BY ChildIsALife DEF QuickInv, CommandShape, Owed
<1>2. record.pid = proc[cmd[j].child].pid /\ record.began \in {0, cmd[j].child} /\ IsRunning(cmd[j].child)
  BY DEF QuickInv, RecordShape, Owed
<1>3. Identity(record) # "gone" /\ RunningAs(record.pid) = cmd[j].child
  BY <1>1, <1>2, NamedIsNotGone DEF QuickInv
<1> QED  BY <1>1, <1>3 DEF Lives

LEMMA UpJudgesKeeps ==
  ASSUME QuickInv, Observe, NEW k \in Commands, UpJudges(k)
  PROVE  QuickInv'
<1>1. cmd[k].at = "judge" /\ record' = record /\ UNCHANGED <<lives, address, root, proc>>
  BY DEF UpJudges, UnchangedLives
<1>2. Ages /\ Only(k)
  BY <1>1, QuietWorld DEF QuickInv
<1>3. CASE Done(k, "nothing") /\ Release(k)
  BY <1>1, <1>2, <1>3, EndKeeps DEF Claims
<1>4. CASE Identity(record) = "gone" /\ Go(k, "spawn") /\ lock' = lock
  <2>1. Place(k, "spawn", cmd[k].claim)
    BY <1>4, GoDoes DEF QuickInv, Places
  <2>2. InPlace(k)
    BY <1>1, <1>4, <2>1 DEF InPlace, Place, QuickInv, CommandShape
  <2>3. /\ \A j \in Commands : j # k => cmd'[j] = cmd[j] /\ (lock = j => lock' = j)
        /\ lock' \in Commands \cup {"nobody"} /\ record' \in QuickRecords
        /\ cmd' \in Runs /\ cmd'[k].child = cmd[k].child
    BY <1>1, <1>4, <2>1, LockIsHeld DEF Place, QuickInv, QuickTypeOK
  <2>4. cmd'[k].at = "spawn" /\ cmd'[k].claim = cmd[k].claim
    BY <2>1 DEF Place
  <2>5. \A j \in Commands : ~Owed(j)
    BY <1>4, GoneOwesNothing
  <2>6. RecordShape'
    BY <1>1, <1>2, <2>3, <2>4, <2>5, RecordStays DEF QuickInv
  <2> QED  BY <1>2, <2>2, <2>3, <2>6, CommandStepKeeps
<1> QED  BY <1>3, <1>4 DEF UpJudges

LEMMA UpReadyKeeps ==
  ASSUME QuickInv, Observe, NEW k \in Commands, UpReady(k)
  PROVE  QuickInv'
<1>1. /\ cmd[k].at = "ready" /\ Done(k, "ready") /\ proc' = Disown(proc, k) /\ lock' = lock
      /\ record' = record /\ UNCHANGED <<lives, address, root>>
  BY DEF UpReady, UnchangedLives
<1>2. Ages /\ Only(k)
  BY <1>1, DisownWorld
<1>3. cmd[k].child # 0
  BY <1>1 DEF QuickInv, CommandShape
<1> QED  BY <1>1, <1>2, <1>3, EndKeeps DEF Claims

LEMMA UpGivesUpKeeps ==
  ASSUME QuickInv, Observe, NEW k \in Commands, UpGivesUp(k)
  PROVE  QuickInv'
<1>1. /\ Done(k, "nothing") /\ proc' = Disown(proc, k) /\ Release(k)
      /\ record' = record /\ UNCHANGED <<lives, address, root>>
  BY DEF UpGivesUp, UnchangedLives
<1>2. Ages /\ Only(k)
  BY <1>1, DisownWorld
<1> QED  BY <1>1, <1>2, EndKeeps DEF Claims

LEMMA InterruptedKeeps ==
  ASSUME QuickInv, Observe, NEW k \in Commands, Interrupted(k)
  PROVE  QuickInv'
<1>1. /\ Done(k, "nothing") /\ proc' = Disown(proc, k) /\ Release(k)
      /\ record' = record /\ UNCHANGED <<lives, address, root>>
  BY DEF Interrupted, UnchangedLives
<1>2. Ages /\ Only(k)
  BY <1>1, DisownWorld
<1> QED  BY <1>1, <1>2, EndKeeps DEF Claims

LEMMA DownDeadlineKeeps ==
  ASSUME QuickInv, Observe, NEW k \in Commands, DownDeadline(k)
  PROVE  QuickInv'
<1>1. /\ Done(k, "nothing") /\ proc' = proc /\ Release(k)
      /\ record' = record /\ UNCHANGED <<lives, address, root>>
  BY DEF DownDeadline, UnchangedLives
<1>2. Ages /\ Only(k)
  BY <1>1, QuietWorld DEF QuickInv
<1> QED  BY <1>1, <1>2, EndKeeps DEF Claims

LEMMA RemovesKeeps ==
  ASSUME QuickInv, Observe, NEW k \in Commands, Done(k, "nothing"), record' = NoRecord,
         Release(k) \/ lock' = lock, Ages, Only(k), lock = k \/ lock = "nobody",
         \A j \in Commands : j # k => ~Owed(j)
  PROVE  QuickInv'
<1>1. Place(k, "done", "nothing")
  BY DoneDoes DEF QuickInv, Claims
<1>2. InPlace(k)
  BY <1>1, EndFits DEF Claims
<1>3. /\ \A j \in Commands : j # k => cmd'[j] = cmd[j] /\ (lock = j => lock' = j)
      /\ lock' \in Commands \cup {"nobody"} /\ record' \in QuickRecords
      /\ cmd' \in Runs /\ cmd'[k].child = cmd[k].child
  BY <1>1, LockIsHeld DEF Place, QuickInv, QuickTypeOK
<1>4. RecordShape'
  <2>1. cmd'[k].at = "done" /\ cmd'[k].claim = "nothing"
    BY <1>1 DEF Place
  <2>2. \A j \in Commands : j # k => cmd[j].at \notin {"pin", "signal"}
    BY LockIsHeld
  <2> QED  BY <1>3, <2>1, <2>2, RecordGoes DEF QuickInv
<1> QED  BY <1>2, <1>3, <1>4, CommandStepKeeps

(* A command that finds the record under its child's id finds no other's.  *)
LEMMA UpForgetsKeeps ==
  ASSUME QuickInv, Observe, NEW k \in Commands, UpForgets(k)
  PROVE  QuickInv'
<1>1. /\ cmd[k].at = "forget" /\ Done(k, "nothing") /\ proc' = Disown(proc, k) /\ lock' = lock
      /\ lock = "nobody" /\ UNCHANGED <<lives, address, root>>
      /\ record' = IF record.pid = proc[cmd[k].child].pid THEN NoRecord ELSE record
  BY DEF UpForgets, UnchangedLives
<1>2. Ages /\ Only(k)
  BY <1>1, DisownWorld
<1>3. CASE record' = record
  BY <1>1, <1>2, <1>3, EndKeeps DEF Claims
<1>4. CASE record' = NoRecord /\ record.pid = proc[cmd[k].child].pid
  <2>1. ASSUME NEW j \in Commands, j # k, Owed(j) PROVE FALSE
    <3>1. /\ cmd[j].child \in Lives /\ cmd[k].child \in Lives /\ cmd[j].child # cmd[k].child
          /\ cmd[j].child <= lives /\ cmd[k].child <= lives
      <4>1. cmd[j].child # 0 /\ cmd[k].child # 0
        BY <1>1, <2>1 DEF QuickInv, CommandShape, Owed
      <4> QED  BY <4>1, <2>1, ChildIsALife DEF QuickInv, CommandShape, LivesShape
    <3>2. record.pid = proc[cmd[j].child].pid
      BY <2>1 DEF QuickInv, RecordShape
    <3>3. proc[cmd[k].child].pid = proc[cmd[j].child].pid
      BY <1>4, <3>2
    <3>4. CASE cmd[k].child < cmd[j].child
      <4>1. cmd[k].child \in Children \ {cmd[j].child}
        BY <3>1 DEF Children, Lives
      <4>2. Reuses(cmd[j].child)
        BY <3>3, <3>4, <4>1 DEF Reuses
      <4> QED  BY <2>1, <4>2 DEF Owed
    <3>5. CASE cmd[j].child < cmd[k].child
      <4>1. proc[cmd[j].child].phase = "gone"
        BY <3>1, <3>3, <3>5 DEF QuickInv, LivesShape
      <4> QED  BY <2>1, <4>1 DEF Owed, IsRunning, Alive, Starting, Listening, Stopping
    <3> QED  BY <3>1, <3>4, <3>5, LifecycleAssumption DEF Lives
  <2> QED  BY <1>1, <1>2, <1>4, <2>1, RemovesKeeps
<1> QED  BY <1>1, <1>3, <1>4

LEMMA DownSeesItGoneKeeps ==
  ASSUME QuickInv, Observe, NEW k \in Commands, DownSeesItGone(k)
  PROVE  QuickInv'
<1>1. /\ Done(k, "nothing") /\ Release(k) /\ record' = NoRecord /\ RunningAs(record.pid) = 0
      /\ cmd[k].at = "wait" /\ UNCHANGED <<lives, address, root, proc>>
  BY DEF DownSeesItGone, UnchangedLives
<1>2. Ages /\ Only(k)
  BY <1>1, QuietWorld DEF QuickInv
<1>3. lock = k
  BY <1>1 DEF QuickInv, CommandShape
<1>4. \A j \in Commands : ~Owed(j)
  BY <1>1, GoneOwesNothing
<1> QED  BY <1>1, <1>2, <1>3, <1>4, RemovesKeeps

LEMMA DownJudgesKeeps ==
  ASSUME QuickInv, Observe, NEW k \in Commands, DownJudges(k)
  PROVE  QuickInv'
<1>1. cmd[k].at = "decide" /\ UNCHANGED <<lives, address, root, proc>> /\ lock = k
  BY DEF DownJudges, UnchangedLives, QuickInv, CommandShape
<1>2. Ages /\ Only(k)
  BY <1>1, QuietWorld DEF QuickInv
<1>3. CASE Identity(record) = "ours" /\ Go(k, "pin") /\ UNCHANGED <<record, lock>>
  <2>1. Place(k, "pin", cmd[k].claim)
    BY <1>3, GoDoes DEF QuickInv, Places
  <2>2. InPlace(k)
    BY <1>1, <1>3, <2>1 DEF InPlace, Place, QuickInv, CommandShape
  <2>3. /\ \A j \in Commands : j # k => cmd'[j] = cmd[j] /\ (lock = j => lock' = j)
        /\ lock' \in Commands \cup {"nobody"} /\ record' \in QuickRecords
        /\ cmd' \in Runs /\ cmd'[k].child = cmd[k].child
    BY <1>1, <1>3, <2>1, LockIsHeld DEF Place, QuickInv, QuickTypeOK
  <2>4. cmd'[k].at = "pin" /\ cmd'[k].claim = cmd[k].claim
    BY <2>1 DEF Place
  <2>5. record.began # 0
    BY <1>3 DEF Identity
  <2>6. RecordShape'
    BY <1>2, <1>3, <2>3, <2>4, <2>5, RecordStays DEF QuickInv
  <2> QED  BY <1>2, <2>2, <2>3, <2>6, CommandStepKeeps
<1>4. CASE Done(k, "nothing") /\ Release(k) /\ record' = record
  BY <1>2, <1>4, EndKeeps DEF Claims
<1>5. CASE Done(k, "nothing") /\ Release(k) /\ record' = NoRecord /\ Identity(record) = "gone"
  <2>1. \A j \in Commands : ~Owed(j)
    BY <1>5, GoneOwesNothing
  <2> QED  BY <1>1, <1>2, <1>5, <2>1, RemovesKeeps
<1> QED  BY <1>3, <1>4, <1>5 DEF DownJudges

LEMMA DownPinsKeeps ==
  ASSUME QuickInv, Observe, NEW k \in Commands, DownPins(k)
  PROVE  QuickInv'
<1> DEFINE next == [cmd[k] EXCEPT !.at = "signal", !.pinned = RunningAs(record.pid)]
<1>1. /\ cmd[k].at = "pin" /\ UNCHANGED <<lives, address, root, proc>> /\ lock' = lock /\ record' = record
      /\ lock = k /\ record.began # 0
  BY DEF DownPins, UnchangedLives, QuickInv, CommandShape, RecordShape
<1>2. Ages /\ Only(k)
  BY <1>1, QuietWorld DEF QuickInv
<1>3. /\ RunningAs(record.pid) \in 0..MaxLives
      /\ RunningAs(record.pid) # 0 => RunningAs(record.pid) <= lives
                                     /\ proc[RunningAs(record.pid)].pid = record.pid
  <2>1. RunningAs(record.pid) = 0 \/ /\ RunningAs(record.pid) \in Lives /\ IsRunning(RunningAs(record.pid))
                                     /\ proc[RunningAs(record.pid)].pid = record.pid
    BY RunsUnder DEF QuickInv
  <2>2. \A l \in Lives : IsRunning(l) => l <= lives
    BY DEF QuickInv, LivesShape, Unborn, IsRunning, Alive, Starting, Listening, Stopping
  <2> QED  BY <2>1, <2>2, LifecycleAssumption DEF Lives
<1>4. cmd \in Runs /\ cmd[k] \in [at : Places, child : 0..MaxLives, pinned : 0..MaxLives, claim : Claims]
  BY DEF QuickInv, QuickTypeOK, Runs
<1>5. /\ next \in [at : Places, child : 0..MaxLives, pinned : 0..MaxLives, claim : Claims]
      /\ next.at = "signal" /\ next.child = cmd[k].child /\ next.pinned = RunningAs(record.pid)
      /\ next.claim = cmd[k].claim
  <2> HIDE DEF QuickInv
  <2> DEFINE pinned == RunningAs(record.pid)
  <2>1. pinned \in 0..MaxLives /\ "signal" \in Places
    BY <1>3 DEF Places
  <2>2. next = [cmd[k] EXCEPT !.at = "signal", !.pinned = pinned]
    OBVIOUS
  <2> HIDE DEF pinned, next
  <2>3. /\ next \in [at : Places, child : 0..MaxLives, pinned : 0..MaxLives, claim : Claims]
        /\ next.at = "signal" /\ next.child = cmd[k].child /\ next.pinned = pinned
        /\ next.claim = cmd[k].claim
    BY <1>4, <2>1, <2>2
  <2> QED  BY <2>3 DEF pinned
<1>6. cmd' = [cmd EXCEPT ![k] = next]
  BY <1>4 DEF DownPins
<1> HIDE DEF next
<1>7. cmd' \in Runs /\ cmd'[k] = next /\ \A j \in Commands : j # k => cmd'[j] = cmd[j]
  BY <1>4, <1>5, <1>6 DEF Runs
<1>8. InPlace(k)
  BY <1>1, <1>5, <1>7 DEF InPlace, QuickInv, CommandShape
<1>9. record' \in QuickRecords /\ lock' \in Commands \cup {"nobody"}
  BY <1>1, LockIsHeld DEF QuickInv, QuickTypeOK
<1>10. RecordShape'
  <2>1. /\ cmd'[k].at = "signal" /\ cmd'[k].claim = cmd[k].claim /\ cmd'[k].pinned = RunningAs(record.pid)
        /\ cmd'[k].child = cmd[k].child
    BY <1>5, <1>7
  <2>2. cmd'[k].claim # "ready"
    BY <1>1, <2>1 DEF QuickInv, CommandShape
  <2> QED  BY <1>1, <1>2, <1>3, <1>7, <2>1, <2>2, RecordStays DEF QuickInv
<1> QED  BY <1>1, <1>2, <1>5, <1>7, <1>8, <1>9, <1>10, CommandStepKeeps

(* A command that goes on, whatever it did to the processes.               *)
LEMMA GoesOn ==
  ASSUME QuickInv, Observe, NEW k \in Commands, NEW to \in {"abandon", "forget", "stopping", "wait"}, Go(k, to),
         Ages, Only(k), lock' = lock, record' = record,
         to \in {"abandon", "wait"} => lock = k,
         cmd[k].at # "done", to # "wait" => cmd[k].child # 0,
         to \in {"abandon", "stopping"} =>
            proc'[cmd[k].child].parent = k /\ proc'[cmd[k].child].phase \in Alive \cup {"zombie"}
  PROVE  QuickInv'
<1>1. Place(k, to, cmd[k].claim)
  BY GoDoes DEF QuickInv, Places
<1>2. cmd[k].claim # "ready"
  BY DEF QuickInv, CommandShape
<1>3. InPlace(k)
  BY <1>1, <1>2 DEF InPlace, Place
<1>4. /\ \A j \in Commands : j # k => cmd'[j] = cmd[j] /\ (lock = j => lock' = j)
      /\ lock' \in Commands \cup {"nobody"} /\ record' \in QuickRecords
      /\ cmd' \in Runs /\ cmd'[k].child = cmd[k].child
  BY <1>1, LockIsHeld DEF Place, QuickInv, QuickTypeOK
<1>5. RecordShape'
  <2>1. cmd'[k].at = to /\ cmd'[k].claim = cmd[k].claim
    BY <1>1 DEF Place
  <2> QED  BY <1>2, <1>4, <2>1, RecordStays DEF QuickInv
<1> QED  BY <1>3, <1>4, <1>5, CommandStepKeeps

(* The child a command has not collected.                                  *)
LEMMA ChildIsThere ==
  ASSUME QuickInv, NEW k \in Commands, cmd[k].at \in {"record", "ready", "stopping", "abandon"}
  PROVE  /\ cmd[k].child # 0 /\ cmd[k].child \in Lives /\ proc[cmd[k].child].parent = k /\ k # "nobody"
         /\ proc[cmd[k].child].phase \in Alive \cup {"zombie"}
BY ChildIsALife, CommandsAssumption DEF QuickInv, CommandShape

LEMMA UpChildEndedKeeps ==
  ASSUME QuickInv, Observe, NEW k \in Commands, UpChildEnded(k)
  PROVE  QuickInv'
<1>1. /\ cmd[k].at \in {"ready", "stopping"} /\ proc[cmd[k].child].phase = "zombie" /\ At(cmd[k].child, "gone")
      /\ Go(k, "forget") /\ lock' = lock /\ record' = record /\ UNCHANGED <<lives, address, root>>
  BY DEF UpChildEnded, UnchangedLives
<1>2. cmd[k].child # 0 /\ cmd[k].child \in Lives /\ proc[cmd[k].child].parent = k
  BY <1>1, ChildIsThere
<1>3. Ages /\ Only(k)
  BY <1>1, <1>2, CollectedWorld
<1> QED  BY <1>1, <1>2, <1>3, GoesOn

LEMMA UpDeadlineKeeps ==
  ASSUME QuickInv, Observe, NEW k \in Commands, UpDeadline(k)
  PROVE  QuickInv'
<1>1. /\ cmd[k].at = "ready" /\ Terminated(cmd[k].child) /\ Go(k, "stopping")
      /\ lock' = lock /\ record' = record /\ UNCHANGED <<lives, address>>
  BY DEF UpDeadline
<1>2. /\ cmd[k].child # 0 /\ cmd[k].child \in Lives /\ proc[cmd[k].child].parent = k /\ k # "nobody"
      /\ proc[cmd[k].child].phase \in Alive \cup {"zombie"}
  BY <1>1, ChildIsThere
<1>3. Ages /\ Only(k) /\ \A m \in Lives : Stays(m)
  BY <1>1, <1>2, TerminatedWorld
<1>4. proc'[cmd[k].child].parent = k /\ proc'[cmd[k].child].phase \in Alive \cup {"zombie"}
  BY <1>2, <1>3 DEF Stays
<1> QED  BY <1>1, <1>2, <1>3, <1>4, GoesOn

LEMMA DownSignalsKeeps ==
  ASSUME QuickInv, Observe, NEW k \in Commands, DownSignals(k)
  PROVE  QuickInv'
<1>1. /\ cmd[k].at = "signal" /\ Go(k, "wait") /\ lock' = lock /\ record' = record /\ UNCHANGED <<lives, address>>
      /\ (cmd[k].pinned # 0 /\ Terminated(cmd[k].pinned)) \/ UNCHANGED <<proc, root>>
  BY DEF DownSignals
<1>2. lock = k
  BY <1>1 DEF QuickInv, CommandShape
<1>3. Ages /\ Only(k)
  <2>1. CASE cmd[k].pinned # 0 /\ Terminated(cmd[k].pinned)
    <3>1. cmd[k].pinned \in Lives
      BY <2>1, LifecycleAssumption DEF QuickInv, QuickTypeOK, Lives
    <3> QED  BY <1>1, <2>1, <3>1, TerminatedWorld
  <2>2. CASE UNCHANGED <<proc, root>>
    BY <1>1, <2>2, QuietWorld DEF QuickInv
  <2> QED  BY <1>1, <2>1, <2>2
<1> QED  BY <1>1, <1>2, <1>3, GoesOn

(* The record of a child that was just begun, or its end.                  *)
LEMMA UpRecordsKeeps ==
  ASSUME QuickInv, Observe, NEW k \in Commands, UpRecords(k)
  PROVE  QuickInv'
<1>1. cmd[k].at = "record" /\ UNCHANGED <<lives, address>> /\ lock = k
  BY DEF UpRecords, QuickInv, CommandShape
<1>2. /\ cmd[k].child # 0 /\ cmd[k].child \in Lives /\ proc[cmd[k].child].parent = k /\ k # "nobody"
      /\ proc[cmd[k].child].phase \in Alive \cup {"zombie"}
  BY <1>1, ChildIsThere
<1>3. CASE Terminated(cmd[k].child) /\ Go(k, "abandon") /\ UNCHANGED <<record, lock>>
  <2>1. Ages /\ Only(k) /\ \A m \in Lives : Stays(m)
    BY <1>1, <1>2, <1>3, TerminatedWorld
  <2>2. proc'[cmd[k].child].parent = k /\ proc'[cmd[k].child].phase \in Alive \cup {"zombie"}
    BY <1>2, <2>1 DEF Stays
  <2> QED  BY <1>1, <1>2, <1>3, <2>1, <2>2, GoesOn
<1>4. CASE write_record(cmd[k].child) /\ Go(k, "ready") /\ Release(k) /\ UNCHANGED <<proc, root>>
  <2>1. Ages /\ Only(k)
    BY <1>1, <1>4, QuietWorld DEF QuickInv
  <2>2. Place(k, "ready", cmd[k].claim)
    BY <1>4, GoDoes DEF QuickInv, Places
  <2>3. cmd[k].claim # "ready"
    BY <1>1 DEF QuickInv, CommandShape
  <2>4. InPlace(k)
    BY <1>2, <1>4, <2>2, <2>3 DEF InPlace, Place
  <2>5. PICK began \in {cmd[k].child, 0} : record' = [pid |-> proc[cmd[k].child].pid, began |-> began]
    BY <1>4 DEF write_record, process_began
  <2>6. record'.pid = proc[cmd[k].child].pid /\ record'.began = began /\ record' \in QuickRecords
    <3>1. proc[cmd[k].child].pid \in Pids \cup {0} /\ began \in 0..MaxLives
      BY <1>2, LifecycleAssumption DEF QuickInv, QuickTypeOK, Lives
    <3> QED  BY <2>5, <3>1 DEF QuickRecords
  <2>7. /\ \A j \in Commands : j # k => cmd'[j] = cmd[j] /\ (lock = j => lock' = j)
        /\ lock' \in Commands \cup {"nobody"}
        /\ cmd' \in Runs /\ cmd'[k].child = cmd[k].child
    BY <1>4, <2>2, LockIsHeld DEF Place
  <2>8. \A j \in Commands : cmd'[j].child = cmd[j].child
    BY <2>7
  <2>9. \A j \in Commands : j # k => cmd[j].at \notin {"spawn", "record", "pin", "signal"}
    BY <1>1, CommandsAssumption DEF QuickInv, CommandShape
  <2>10. cmd'[k].at = "ready"
    BY <2>2 DEF Place
  <2>11. ASSUME NEW j \in Commands, j # k, Owed(j)' PROVE FALSE
    <3>1. cmd[j].at = "ready" \/ cmd[j].claim = "ready"
      BY <2>7, <2>11 DEF Owed
    <3>2. Owed(j)
      BY <2>1, <2>8, <2>11, <3>1, OwedBefore DEF QuickInv
    <3> QED  BY <1>1, <3>2 DEF QuickInv, RecordShape
  <2>12. RecordShape'
    <3>1. \A j \in Commands : Owed(j)' =>
            record'.pid = proc'[cmd'[j].child].pid /\ record'.began \in {0, cmd'[j].child}
      BY <1>4, <2>5, <2>6, <2>7, <2>11
    <3>2. \A j \in Commands : cmd'[j].at \notin {"spawn", "record", "pin", "signal"}
      BY <2>7, <2>9, <2>10
    <3>3. record'.began # 0 => record'.began \in Children'
      BY <1>2, <2>5, <2>6, <2>8 DEF Children
    <3> QED  BY <3>1, <3>2, <3>3 DEF RecordShape
  <2> QED  BY <2>1, <2>4, <2>6, <2>7, <2>12, CommandStepKeeps
<1> QED  BY <1>3, <1>4 DEF UpRecords

(***************************************************************************)
(* A birth: the id it gets has nobody, so whoever had it is gone.          *)
(***************************************************************************)
LEMMA BornLives ==
  ASSUME QuickInv, Observe, NEW pid \in FreePids, NEW parent \in Commands \cup {"nobody"}, Starts(pid, parent),
         UNCHANGED <<address, root>>,
         \A k \in Commands : cmd'[k].child \in {cmd[k].child, lives + 1}
  PROVE  LivesShape' /\ RootShape' /\ NameShape'
<1>1. /\ lives < MaxLives /\ lives' = lives + 1 /\ lives + 1 \in Lives
      /\ proc' \in Processes
      /\ \A m \in Lives : m # lives + 1 => proc'[m] = proc[m]
      /\ proc'[lives + 1].phase = "probing" /\ proc'[lives + 1].pid = pid
      /\ pid \in Pids /\ Holding(pid) = {}
  BY StartsDoes DEF QuickInv
<1>2. lives \in Nat /\ MaxLives \in Nat /\ \A m \in Lives : m \in Nat
  BY LifecycleAssumption DEF QuickInv, QuickTypeOK, Lives
<1>3. ASSUME NEW l \in Lives
      PROVE  IF l <= lives' THEN proc'[l].phase # "none" /\ proc'[l].pid \in Pids ELSE proc'[l] = Unborn
  <2>1. CASE l = lives + 1
    BY <1>1, <1>2, <2>1
  <2>2. CASE l # lives + 1
    BY <1>1, <1>2, <2>2 DEF QuickInv, LivesShape
  <2> QED  BY <2>1, <2>2
<1>4. \A k \in Commands : cmd'[k].child <= lives'
  <2>1. \A k \in Commands : cmd[k].child <= lives /\ cmd[k].child \in Nat
    BY <1>2 DEF QuickInv, LivesShape, QuickTypeOK
  <2> QED  BY <1>1, <1>2, <2>1
<1>5. ASSUME NEW l \in Lives, NEW m \in Lives, l < m, m <= lives', proc'[l].pid = proc'[m].pid
      PROVE  proc'[l].phase = "gone"
  <2>1. l # lives + 1 /\ l <= lives /\ proc'[l] = proc[l]
    BY <1>1, <1>2, <1>5
  <2>2. CASE m = lives + 1
    <3>1. proc[l].pid = pid /\ proc[l].phase \notin Alive \cup {"zombie"}
      BY <1>1, <1>5, <2>1, <2>2 DEF Holding
    <3>2. proc[l].phase # "none" /\ proc[l].phase \in LifePhases
      BY <2>1 DEF QuickInv, LivesShape, QuickTypeOK
    <3> QED  BY <2>1, <3>1, <3>2 DEF LifePhases
  <2>3. CASE m # lives + 1
    <3>1. m <= lives /\ proc'[m] = proc[m]
      BY <1>1, <1>2, <1>5, <2>3
    <3> QED  BY <1>5, <2>1, <3>1 DEF QuickInv, LivesShape
  <2> QED  BY <2>2, <2>3
<1>6. LivesShape'
  BY <1>3, <1>4, <1>5 DEF LivesShape
<1>7. \A m \in Lives : /\ proc'[m].phase \in {proc[m].phase, "probing"}
                       /\ proc[m].phase \in AtWork /\ proc'[m].phase \in AtWork => root' = root
  BY <1>1
<1>8. RootShape' /\ NameShape'
  BY <1>7, Fades
<1> QED  BY <1>6, <1>8

(* Who reuses an id still does when children are added.                    *)
LEMMA ReusesGrows ==
  ASSUME NEW l \in Lives, Children \subseteq Children', proc'[l] = proc[l],
         \A m \in Children : proc'[m] = proc[m], Reuses(l)
  PROVE  Reuses(l)'
<1>1. PICK m \in Children \ {l} : m < l /\ proc[m].pid = proc[l].pid
  BY DEF Reuses
<1>2. m \in Children' \ {l} /\ m < l /\ proc'[m].pid = proc'[l].pid
  BY <1>1
<1> QED  BY <1>2 DEF Reuses

LEMMA StartedByHandKeeps ==
  ASSUME QuickInv, StartedByHand, LifeFrame
  PROVE  QuickInv'
<1>1. PICK pid \in FreePids : Starts(pid, "nobody")
  BY DEF StartedByHand
<1>2. UNCHANGED <<address, root, lock, record, cmd>> /\ Observe
  BY DEF StartedByHand, LifeFrame
<1>3. LivesShape' /\ RootShape' /\ NameShape'
  BY <1>1, <1>2, BornLives
<1>4. /\ lives < MaxLives /\ lives' = lives + 1 /\ lives + 1 \in Lives
      /\ proc' \in Processes
      /\ \A m \in Lives : m # lives + 1 => proc'[m] = proc[m]
  BY <1>1, StartsDoes DEF QuickInv
<1>5. lives \in Nat /\ MaxLives \in Nat
  BY LifecycleAssumption DEF QuickInv, QuickTypeOK
<1>6. \A k \in Commands : cmd[k].child # 0 => cmd[k].child \in Lives /\ proc'[cmd[k].child] = proc[cmd[k].child]
  <2>1. \A k \in Commands : cmd[k].child <= lives /\ cmd[k].child \in Nat
    BY <1>5 DEF QuickInv, LivesShape, QuickTypeOK
  <2>2. \A k \in Commands : cmd[k].child # lives + 1
    BY <1>5, <2>1
  <2> QED  BY <1>4, <2>2, ChildIsALife DEF QuickInv
<1>7. CommandShape'
  BY <1>2, <1>6 DEF QuickInv, CommandShape
<1>8. \A k \in Commands : Owed(k)' => Owed(k) /\ proc'[cmd[k].child] = proc[cmd[k].child]
  <2>1. ASSUME NEW k \in Commands, Owed(k)'
        PROVE  Owed(k) /\ proc'[cmd[k].child] = proc[cmd[k].child]
    <3>1. cmd[k].child # 0 /\ (cmd[k].at = "ready" \/ cmd[k].claim = "ready")
      BY <1>2, <2>1 DEF Owed, QuickInv, CommandShape
    <3>2. Children' = Children /\ \A m \in Children : m \in Lives /\ proc'[m] = proc[m]
      BY <1>2, <1>6 DEF Children
    <3>3. cmd'[k].child = cmd[k].child
      BY <1>2
    <3>4. ~Reuses(cmd[k].child)' /\ proc'[cmd[k].child].phase \in Alive
      BY <2>1, <3>3 DEF Owed, IsRunning
    <3>5. ~Reuses(cmd[k].child)
      <4>1. cmd[k].child \in Lives /\ proc'[cmd[k].child] = proc[cmd[k].child]
        BY <1>6, <3>1
      <4> QED  BY <3>2, <3>3, <3>4, <4>1, ReusesGrows
    <3> QED  BY <1>6, <3>1, <3>4, <3>5 DEF Owed, IsRunning
  <2> QED  BY <2>1
<1>9. RecordShape'
  <2>1. \A k \in Commands : Owed(k)' =>
          record'.pid = proc'[cmd'[k].child].pid /\ record'.began \in {0, cmd'[k].child}
    BY <1>2, <1>8 DEF QuickInv, RecordShape
  <2>2. \A j, k \in Commands : cmd'[k].at \in {"spawn", "record"} => ~Owed(j)'
    BY <1>2, <1>8 DEF QuickInv, RecordShape
  <2>3. record'.began # 0 => record'.began \in Children'
    BY <1>2 DEF QuickInv, RecordShape, Children
  <2>4. \A k \in Commands : cmd'[k].at \in {"pin", "signal"} => record'.began # 0
    BY <1>2 DEF QuickInv, RecordShape
  <2>5. ASSUME NEW k \in Commands, cmd'[k].at = "signal", cmd'[k].pinned # 0
        PROVE  cmd'[k].pinned <= lives' /\ proc'[cmd'[k].pinned].pid = record'.pid
    <3>1. cmd'[k] = cmd[k] /\ cmd[k].pinned \in Lives /\ cmd[k].pinned \in Nat
      BY <1>2, <1>5, <2>5, LifecycleAssumption DEF QuickInv, QuickTypeOK, Lives
    <3>2. cmd[k].pinned <= lives /\ proc[cmd[k].pinned].pid = record.pid
      BY <2>5, <3>1 DEF QuickInv, RecordShape
    <3> QED  BY <1>2, <1>4, <1>5, <3>1, <3>2
  <2> QED  BY <2>1, <2>2, <2>3, <2>4, <2>5 DEF RecordShape
<1>10. QuickTypeOK'
  BY <1>2, <1>4, <1>5, ObserveDoes DEF QuickInv, QuickTypeOK, Processes
<1> QED  BY <1>3, <1>7, <1>9, <1>10 DEF QuickInv

LEMMA UpSpawnsKeeps ==
  ASSUME QuickInv, Observe, NEW k \in Commands, UpSpawns(k)
  PROVE  QuickInv'
<1>1. cmd[k].at = "spawn" /\ UNCHANGED <<address, root, record>> /\ lock = k /\ cmd[k].child = 0
      /\ cmd[k].claim # "ready"
  BY DEF UpSpawns, QuickInv, CommandShape
<1>2. CASE Done(k, "nothing") /\ Release(k) /\ UNCHANGED <<lives, proc>>
  <2>1. Ages /\ Only(k)
    BY <1>1, <1>2, QuietWorld DEF QuickInv
  <2> QED  BY <1>1, <1>2, <2>1, EndKeeps DEF Claims
<1>3. ASSUME NEW pid \in FreePids, Starts(pid, k), lock' = lock,
             cmd' = [cmd EXCEPT ![k].at = "record", ![k].child = lives + 1]
      PROVE  QuickInv'
  <2> DEFINE next == [cmd[k] EXCEPT !.at = "record", !.child = lives + 1]
  <2>1. /\ lives < MaxLives /\ lives' = lives + 1 /\ lives + 1 \in Lives
        /\ proc' \in Processes
        /\ \A m \in Lives : m # lives + 1 => proc'[m] = proc[m]
        /\ proc'[lives + 1].phase = "probing" /\ proc'[lives + 1].pid = pid /\ proc'[lives + 1].parent = k
    BY <1>3, StartsDoes DEF QuickInv
  <2>2. lives \in Nat /\ MaxLives \in Nat /\ lives + 1 \in 0..MaxLives /\ lives + 1 # 0
    BY <2>1, LifecycleAssumption DEF QuickInv, QuickTypeOK
  <2>3. cmd \in Runs /\ cmd[k] \in [at : Places, child : 0..MaxLives, pinned : 0..MaxLives, claim : Claims]
    BY DEF QuickInv, QuickTypeOK, Runs
  <2>4. /\ next \in [at : Places, child : 0..MaxLives, pinned : 0..MaxLives, claim : Claims]
        /\ next.at = "record" /\ next.child = lives + 1 /\ next.pinned = cmd[k].pinned
        /\ next.claim = cmd[k].claim
    <3>1. "record" \in Places
      BY DEF Places
    <3> QED  BY <2>2, <2>3, <3>1
  <2>5. cmd' = [cmd EXCEPT ![k] = next]
    BY <1>3, <2>3
  <2> HIDE DEF next
  <2>6. cmd' \in Runs /\ cmd'[k] = next /\ \A j \in Commands : j # k => cmd'[j] = cmd[j]
    BY <2>3, <2>4, <2>5 DEF Runs
  <2>7. LivesShape' /\ RootShape' /\ NameShape'
    <3>1. \A j \in Commands : cmd'[j].child \in {cmd[j].child, lives + 1}
      BY <2>4, <2>6
    <3> QED  BY <1>1, <1>3, <3>1, BornLives
  <2>8. \A j \in Commands : cmd[j].child # lives + 1 /\ (cmd[j].child # 0 => cmd[j].child \in Lives)
    <3>1. \A j \in Commands : cmd[j].child <= lives /\ cmd[j].child \in Nat
      BY <2>2 DEF QuickInv, LivesShape, QuickTypeOK
    <3> QED  BY <2>2, <3>1, ChildIsALife DEF QuickInv
  <2>9. \A j \in Commands : cmd[j].child # 0 => proc'[cmd[j].child] = proc[cmd[j].child]
    BY <2>1, <2>8
  <2>10. CommandShape'
    <3>1. InPlace(k)
      BY <1>1, <1>3, <2>1, <2>2, <2>4, <2>6 DEF InPlace, Alive, Starting
    <3>2. ASSUME NEW j \in Commands, j # k PROVE InPlace(j)
      <4>1. cmd'[j] = cmd[j] /\ lock' = lock
        BY <1>3, <2>6, <3>2
      <4>2. CASE cmd[j].child = 0
        BY <4>1, <4>2 DEF InPlace, QuickInv, CommandShape
      <4>3. CASE cmd[j].child # 0
        <5>1. proc'[cmd[j].child] = proc[cmd[j].child]
          BY <2>9, <4>3
        <5> QED  BY <4>1, <5>1 DEF InPlace, QuickInv, CommandShape
      <4> QED  BY <4>2, <4>3
    <3>3. \A j \in Commands : InPlace(j)
      BY <3>1, <3>2
    <3>4. \A i, j \in Commands : i # j /\ cmd'[i].child = cmd'[j].child => cmd'[i].child = 0
      BY <2>4, <2>6, <2>8 DEF QuickInv, CommandShape
    <3> QED  BY <3>3, <3>4 DEF InPlace, CommandShape
  <2>11. Children \subseteq Children'
    BY <1>1, <2>6 DEF Children
  <2>12. ASSUME NEW j \in Commands, Owed(j)' PROVE FALSE
    <3>1. j # k
      BY <1>1, <2>4, <2>6, <2>12 DEF Owed
    <3>2. cmd'[j] = cmd[j] /\ (cmd[j].at = "ready" \/ cmd[j].claim = "ready")
      BY <2>6, <2>12, <3>1 DEF Owed
    <3>3. cmd[j].child # 0 /\ cmd[j].child \in Lives /\ proc'[cmd[j].child] = proc[cmd[j].child]
      BY <2>8, <2>9, <3>2 DEF QuickInv, CommandShape
    <3>4. \A m \in Children : proc'[m] = proc[m]
      BY <2>9 DEF Children
    <3>5. ~Reuses(cmd[j].child)' /\ proc'[cmd[j].child].phase \in Alive
      BY <2>12, <3>2 DEF Owed, IsRunning
    <3>6. ~Reuses(cmd[j].child)
      BY <2>11, <3>2, <3>3, <3>4, <3>5, ReusesGrows
    <3>7. Owed(j)
      BY <3>2, <3>3, <3>5, <3>6 DEF Owed, IsRunning
    <3> QED  BY <1>1, <3>7 DEF QuickInv, RecordShape
  <2>13. RecordShape'
    <3>1. record'.began # 0 => record'.began \in Children'
      BY <1>1, <2>11 DEF QuickInv, RecordShape
    <3>2. \A j \in Commands : cmd'[j].at \notin {"pin", "signal"}
      <4>1. \A j \in Commands : j # k => cmd[j].at \notin {"pin", "signal"}
        BY <1>1, LockIsHeld
      <4> QED  BY <2>4, <2>6, <4>1
    <3> QED  BY <2>12, <3>1, <3>2 DEF RecordShape
  <2>14. QuickTypeOK'
    BY <1>1, <1>3, <2>1, <2>2, <2>6, ObserveDoes DEF QuickInv, QuickTypeOK, Processes, Runs
  <2> QED  BY <2>7, <2>10, <2>13, <2>14 DEF QuickInv
<1> QED  BY <1>2, <1>3 DEF UpSpawns

LEMMA CommandKeeps ==
  ASSUME QuickInv, Observe, NEW k \in Commands, RunsUp(k) \/ RunsDown(k) \/ CommandStep(k) \/ Interrupted(k)
  PROVE  QuickInv'
BY RunsUpKeeps, RunsDownKeeps, InterruptedKeeps, UpLocksKeeps, UpJudgesKeeps, UpSpawnsKeeps, UpRecordsKeeps,
   UpReadyKeeps, UpChildEndedKeeps, UpDeadlineKeeps, UpGivesUpKeeps, UpForgetsKeeps, DownLocksKeeps,
   DownJudgesKeeps, DownPinsKeeps, DownSignalsKeeps, DownSeesItGoneKeeps, DownDeadlineKeeps DEF CommandStep

LEMMA QuickStarts ==
  ASSUME QuickInit
  PROVE  QuickInv
<1>1. /\ lives = 0 /\ proc = [l \in Lives |-> Unborn] /\ address = 0 /\ root = 0 /\ overlapped = FALSE
      /\ lock = "nobody" /\ record = NoRecord
      /\ cmd = [k \in Commands |-> [at |-> "idle", child |-> 0, pinned |-> 0, claim |-> "nothing"]]
  BY DEF QuickInit, LifecycleInit
<1>2. MaxLives \in Nat /\ \A l \in Lives : l \in Nat /\ l > 0
  BY LifecycleAssumption DEF Lives
<1>3. \A l \in Lives : proc[l] = Unborn /\ proc[l].phase = "none"
  BY <1>1 DEF Unborn
<1>4. "none" \notin Alive \cup {"zombie", "gone"} \cup AtWork
  BY DEF Alive, Starting, Listening, Stopping, AtWork
<1>5. \A k \in Commands : /\ cmd[k].at = "idle" /\ cmd[k].child = 0 /\ cmd[k].pinned = 0
                          /\ cmd[k].claim = "nothing"
  BY <1>1
<1>6. QuickTypeOK
  <2>1. proc \in [Lives -> [phase : LifePhases, pid : Pids \cup {0}, parent : Commands \cup {"nobody"}]]
    BY <1>1 DEF Unborn, LifePhases
  <2>2. cmd \in [Commands -> [at : Places, child : 0..MaxLives, pinned : 0..MaxLives, claim : Claims]]
    BY <1>1, <1>2 DEF Places, Claims
  <2>3. record \in [pid : Pids \cup {0}, began : 0..MaxLives]
    BY <1>1, <1>2 DEF NoRecord
  <2>4. lives \in 0..MaxLives /\ address \in 0..MaxLives /\ root \in 0..MaxLives
    BY <1>1, <1>2
  <2>5. overlapped \in BOOLEAN /\ lock \in Commands \cup {"nobody"}
    BY <1>1
  <2> QED  BY <2>1, <2>2, <2>3, <2>4, <2>5 DEF QuickTypeOK
<1>7. LivesShape
  BY <1>1, <1>2, <1>3, <1>5 DEF LivesShape
<1>8. RootShape
  BY <1>3, <1>4 DEF RootShape
<1>9. NameShape
  <2>1. \A l \in Lives : proc[l].phase \notin {"unlinking", "binding", "bound", "composing", "undoing"}
                                              \cup Listening \cup Stopping \cup Starting
    BY <1>3 DEF Listening, Stopping, Starting
  <2> QED  BY <2>1 DEF NameShape, AtTheName
<1>10. CommandShape
  BY <1>5 DEF CommandShape
<1>11. RecordShape
  BY <1>1, <1>5 DEF RecordShape, Owed, NoRecord
<1> QED  BY <1>6, <1>7, <1>8, <1>9, <1>10, <1>11 DEF QuickInv

LEMMA QuickStuttering ==
  ASSUME QuickInv, UNCHANGED quickVars
  PROVE  QuickInv'
<1>1. UNCHANGED <<lives, proc, address, root, overlapped, lock, record, cmd>>
  BY DEF quickVars, commandVars
<1>2. QuickTypeOK'
  BY <1>1 DEF QuickInv, QuickTypeOK
<1>3. LivesShape'
  BY <1>1 DEF QuickInv, LivesShape
<1>4. RootShape' /\ NameShape'
  BY <1>1 DEF QuickInv, RootShape, NameShape, AtTheName
<1>5. CommandShape'
  BY <1>1 DEF QuickInv, CommandShape
<1>6. RecordShape'
  <2>1. \A k \in Commands : Owed(k)' <=> Owed(k)
    BY <1>1 DEF Owed, Reuses, Children, IsRunning
  <2> QED  BY <1>1, <2>1 DEF QuickInv, RecordShape, Children
<1> QED  BY <1>2, <1>3, <1>4, <1>5, <1>6 DEF QuickInv

(***************************************************************************)
(* In every state of every behaviour of the quickstart, whatever the       *)
(* commands, the number of lives and the process ids: ids are handed out   *)
(* again only when everyone who had them is gone, whoever is at work on    *)
(* the root has its lock, whoever is bound is at the name while starts and *)
(* stops do not overlap, and the record is owed to a child that runs.      *)
(***************************************************************************)
THEOREM QuickstartIsInOrder == QuickSpec => []QuickInv
<1>1. QuickInit => QuickInv
  BY QuickStarts
<1>2. QuickInv /\ [QuickNext]_quickVars => QuickInv'
  <2> SUFFICES ASSUME QuickInv, [QuickNext]_quickVars PROVE QuickInv'
    OBVIOUS
  <2>1. CASE (StartedByHand \/ \E l \in Lives : LifeStep(l)) /\ UNCHANGED commandVars /\ Observe
    BY <2>1, StartedByHandKeeps, LifeStepKeeps DEF LifeFrame, commandVars
  <2>2. CASE (\E k \in Commands : RunsUp(k) \/ RunsDown(k) \/ CommandStep(k) \/ Interrupted(k)) /\ Observe
    BY <2>2, CommandKeeps
  <2>3. CASE UNCHANGED quickVars
    BY <2>3, QuickStuttering
  <2> QED  BY <2>1, <2>2, <2>3 DEF QuickNext
<1> QED  BY <1>1, <1>2, PTL DEF QuickSpec

(***************************************************************************)
(* What runs can be managed: a daemon said ready is in the record,         *)
(* listening daemons are at the address, one process writes the root.      *)
(***************************************************************************)
THEOREM DaemonDoesStayManaged == QuickSpec => []DaemonStaysManaged
<1>1. ASSUME QuickInv PROVE DaemonStaysManaged
  <2>1. ReadyIsManaged
    <3>1. ASSUME NEW k \in Commands, cmd[k].claim = "ready", IsRunning(cmd[k].child), ~Reuses(cmd[k].child)
          PROVE  record.pid = proc[cmd[k].child].pid
      <4>1. Owed(k)
        BY <3>1 DEF Owed
      <4> QED  BY <1>1, <4>1 DEF QuickInv, RecordShape
    <3> QED  BY <3>1 DEF ReadyIsManaged
  <2>2. ListenersAreReachable
    BY <1>1 DEF QuickInv, NameShape, ListenersAreReachable
  <2>3. OneWriter
    <3> DEFINE writers == {l \in Lives : proc[l].phase \in {"composing", "draining"}
                                                   \cup Listening \cup Stopping}
    <3>1. writers \subseteq {root}
      BY <1>1 DEF QuickInv, RootShape, AtWork
    <3>2. IsFiniteSet({root}) /\ Cardinality({root}) = 1
      BY FS_Singleton
    <3>3. IsFiniteSet(writers) /\ Cardinality(writers) <= 1 /\ Cardinality(writers) \in Nat
      BY <3>1, <3>2, FS_Subset, FS_CardinalityType
    <3> QED  BY <3>3 DEF OneWriter
  <2> QED  BY <1>1, <2>1, <2>2, <2>3 DEF QuickInv, DaemonStaysManaged
<1> QED  BY <1>1, QuickstartIsInOrder, PTL

(***************************************************************************)
(* Who begins to stop, and who is said to be ready.                        *)
(***************************************************************************)
Unsaid == \A k \in Commands : cmd'[k].claim = "ready" => cmd[k].claim = "ready"
Unasked == \A l \in Lives : proc'[l].phase = "closing" => proc[l].phase = "closing"

(* A life never begins to stop by itself.                                  *)
LEMMA LifeMoves ==
  ASSUME QuickTypeOK, NEW l \in Lives, LifeStep(l)
  PROVE  Unasked
<1>1. \E p \in LifePhases \ {"closing"} : At(l, p)
  BY DEF LifeStep, RefusedEarly, Probe, Unlink, Bind, Secure, Listen, Undo, Handle, CloseListener, Unbind,
         Drain, Dies, Ends, LifePhases, Alive, Starting, Listening, Stopping
<1>2. PICK p \in LifePhases \ {"closing"} : At(l, p)
  BY <1>1
<1>3. PhaseTo(l, p)
  BY <1>2, AtDoes
<1> QED  BY <1>3 DEF PhaseTo, Unasked

(* SIGTERM makes only the process it is sent to begin to stop.             *)
LEMMA TerminatedAlone ==
  ASSUME QuickTypeOK, NEW l \in Lives, Terminated(l), NEW m \in Lives,
         proc[m].phase = "serving", proc'[m].phase = "closing"
  PROVE  m = l
BY TerminatedDoes DEF PhaseTo, Perishes

(* The life that is signalled is the one the record proves.                *)
LEMMA PinnedIsOurs ==
  ASSUME QuickInv, NEW k \in Commands, cmd[k].at = "signal", cmd[k].pinned # 0,
         RunningAs(record.pid) = record.began, proc[cmd[k].pinned].phase = "serving"
  PROVE  cmd[k].pinned \in Children
<1>1. /\ record.began # 0 /\ record.began \in Children /\ cmd[k].pinned \in Lives
      /\ proc[cmd[k].pinned].pid = record.pid
  BY LifecycleAssumption DEF QuickInv, RecordShape, QuickTypeOK, Lives
<1>2. IsRunning(cmd[k].pinned)
  BY DEF IsRunning, Alive, Listening
<1>3. RunningAs(record.pid) = cmd[k].pinned
  BY <1>1, <1>2, RunsUnder DEF QuickInv
<1> QED  BY <1>1, <1>3

LEMMA DisownAsksNobody ==
  ASSUME QuickTypeOK, NEW k \in Commands, proc' = Disown(proc, k)
  PROVE  Unasked
BY DisownDoes DEF Unasked

LEMMA GoSaysNothing ==
  ASSUME QuickTypeOK, NEW k \in Commands, NEW at \in Places, Go(k, at)
  PROVE  Unsaid
BY GoDoes DEF Place, Unsaid

LEMMA DoneSaysNothing ==
  ASSUME QuickTypeOK, NEW k \in Commands, Done(k, "nothing")
  PROVE  Unsaid
BY DoneDoes DEF Place, Unsaid, Claims

LEMMA QuietAsksNobody ==
  ASSUME proc' = proc
  PROVE  Unasked
BY DEF Unasked

(* The steps that neither stop anybody nor claim anything.                 *)
LEMMA QuietSteps ==
  ASSUME QuickInv, NEW k \in Commands,
         \/ RunsUp(k) \/ RunsDown(k) \/ UpLocks(k) \/ DownLocks(k) \/ UpJudges(k) \/ DownJudges(k)
         \/ DownSeesItGone(k) \/ DownDeadline(k)
  PROVE  Unasked /\ Unsaid
<1>1. proc' = proc
  BY DEF RunsUp, RunsDown, UpLocks, DownLocks, TakeLock, UpJudges, DownJudges, DownSeesItGone, DownDeadline
<1>2. (\E at \in Places : Go(k, at)) \/ Done(k, "nothing")
  <2>1. {"up", "down", "judge", "decide", "spawn", "pin"} \subseteq Places
    BY DEF Places
  <2> QED  BY <2>1 DEF RunsUp, RunsDown, UpLocks, DownLocks, TakeLock, UpJudges, DownJudges, DownSeesItGone, DownDeadline
<1> QED  BY <1>1, <1>2, QuietAsksNobody, GoSaysNothing, DoneSaysNothing DEF QuickInv

LEMMA PinsQuietly ==
  ASSUME QuickInv, NEW k \in Commands, DownPins(k)
  PROVE  Unasked /\ Unsaid
<1>1. proc' = proc /\ cmd' = [cmd EXCEPT ![k].at = "signal", ![k].pinned = RunningAs(record.pid)]
  BY DEF DownPins
<1>2. cmd \in Runs
  BY DEF QuickInv, QuickTypeOK, Runs
<1>3. Unsaid
  <2> DEFINE pinned == RunningAs(record.pid)
  <2>1. cmd' = [cmd EXCEPT ![k].at = "signal", ![k].pinned = pinned]
    BY <1>1
  <2> HIDE DEF pinned
  <2>2. \A j \in Commands : cmd'[j].claim = cmd[j].claim
    BY <1>2, <2>1 DEF Runs
  <2> QED  BY <2>2 DEF Unsaid
<1> QED  BY <1>1, <1>3, QuietAsksNobody

LEMMA SpawnsQuietly ==
  ASSUME QuickInv, NEW k \in Commands, UpSpawns(k)
  PROVE  Unasked /\ Unsaid
<1>1. CASE Done(k, "nothing") /\ UNCHANGED <<lives, proc>>
  BY <1>1, DoneSaysNothing, QuietAsksNobody DEF QuickInv
<1>2. ASSUME NEW pid \in FreePids, Starts(pid, k),
             cmd' = [cmd EXCEPT ![k].at = "record", ![k].child = lives + 1]
      PROVE  Unasked /\ Unsaid
  <2>1. Unasked
    BY <1>2, StartsDoes DEF QuickInv, Unasked
  <2>2. cmd \in Runs
    BY DEF QuickInv, QuickTypeOK, Runs
  <2>3. Unsaid
    BY <1>2, <2>2 DEF Unsaid, Runs
  <2> QED  BY <2>1, <2>3
<1> QED  BY <1>1, <1>2 DEF UpSpawns

LEMMA OwnChildOnly ==
  ASSUME QuickInv, NEW k \in Commands, UpRecords(k) \/ UpDeadline(k)
  PROVE  SignalsOnlyOurs /\ Unsaid
<1>1. cmd[k].child # 0 /\ cmd[k].child \in Lives
  BY ChildIsThere DEF UpRecords, UpDeadline
<1>2. cmd[k].child \in Children
  BY <1>1 DEF Children
<1>3. Terminated(cmd[k].child) \/ proc' = proc
  BY DEF UpRecords, UpDeadline
<1>4. SignalsOnlyOurs
  BY <1>1, <1>2, <1>3, TerminatedAlone DEF SignalsOnlyOurs, QuickInv
<1>5. \E at \in Places : Go(k, at)
  BY DEF UpRecords, UpDeadline, Places
<1> QED  BY <1>4, <1>5, GoSaysNothing DEF QuickInv

LEMMA ProvedOnly ==
  ASSUME QuickInv, NEW k \in Commands, DownSignals(k)
  PROVE  SignalsOnlyOurs /\ Unsaid
<1>1. /\ cmd[k].at = "signal" /\ Go(k, "wait")
      /\ \/ cmd[k].pinned # 0 /\ RunningAs(record.pid) = record.began /\ Terminated(cmd[k].pinned)
         \/ proc' = proc
  BY DEF DownSignals
<1>2. cmd[k].pinned # 0 => cmd[k].pinned \in Lives
  BY LifecycleAssumption DEF QuickInv, QuickTypeOK, Lives
<1>3. ASSUME NEW l \in Lives, proc[l].phase = "serving", proc'[l].phase = "closing"
      PROVE  l \in Children
  <2>1. cmd[k].pinned # 0 /\ RunningAs(record.pid) = record.began /\ Terminated(cmd[k].pinned)
    BY <1>1, <1>3
  <2>2. l = cmd[k].pinned
    BY <1>2, <1>3, <2>1, TerminatedAlone DEF QuickInv
  <2> QED  BY <1>1, <1>3, <2>1, <2>2, PinnedIsOurs
<1>4. Unsaid
  BY <1>1, GoSaysNothing DEF QuickInv, Places
<1> QED  BY <1>3, <1>4 DEF SignalsOnlyOurs

LEMMA DisowningSteps ==
  ASSUME QuickInv, NEW k \in Commands, UpGivesUp(k) \/ UpForgets(k) \/ Interrupted(k)
  PROVE  Unasked /\ Unsaid
BY DisownAsksNobody, DoneSaysNothing DEF UpGivesUp, UpForgets, Interrupted, QuickInv

LEMMA CollectsQuietly ==
  ASSUME QuickInv, NEW k \in Commands, UpChildEnded(k)
  PROVE  Unasked /\ Unsaid
<1>1. cmd[k].child \in Lives /\ At(cmd[k].child, "gone") /\ Go(k, "forget")
  BY ChildIsThere DEF UpChildEnded
<1>2. PhaseTo(cmd[k].child, "gone")
  BY <1>1, AtDoes DEF QuickInv, LifePhases
<1>3. Unasked
  BY <1>1, <1>2 DEF PhaseTo, Unasked
<1> QED  BY <1>1, <1>3, GoSaysNothing DEF QuickInv, Places

LEMMA ReadyChild ==
  ASSUME QuickInv, NEW k \in Commands, UpReady(k)
  PROVE  Unasked /\ ReadyIsTheChild
<1>1. /\ cmd[k].at = "ready" /\ Answering # 0 /\ proc[Answering].pid = proc[cmd[k].child].pid
      /\ Done(k, "ready") /\ proc' = Disown(proc, k)
  BY DEF UpReady
<1>2. Unasked
  BY <1>1, DisownAsksNobody DEF QuickInv
<1>3. cmd[k].child \in Lives /\ proc[cmd[k].child].phase \in Alive \cup {"zombie"}
  BY <1>1, ChildIsThere
<1>4. Answering \in Lives /\ proc[Answering].phase = "serving"
  BY <1>1, LifecycleAssumption DEF Answering, QuickInv, QuickTypeOK, Lives
<1>5. Answering = cmd[k].child
  BY <1>1, <1>3, <1>4, OneUnderAnId DEF QuickInv, Alive, Listening
<1>6. \A j \in Commands : j # k => cmd'[j] = cmd[j]
  BY <1>1, DoneDoes DEF QuickInv, Claims, Place
<1> QED  BY <1>2, <1>5, <1>6 DEF ReadyIsTheChild

(***************************************************************************)
(* No step of the commands signals a daemon `up` did not start, and none   *)
(* says ready of a daemon that is not the child of the command that says   *)
(* it, however process ids are handed out again.                           *)
(***************************************************************************)
THEOREM OnlyOurChildIsTouched == QuickSpec => OnlyOurChild
<1>1. ASSUME Unasked PROVE SignalsOnlyOurs
  BY <1>1 DEF Unasked, SignalsOnlyOurs
<1>2. ASSUME Unsaid, QuickTypeOK PROVE ReadyIsTheChild
  BY <1>2 DEF Unsaid, ReadyIsTheChild
<1>3. QuickInv /\ [QuickNext]_quickVars => [SignalsOnlyOurs /\ ReadyIsTheChild]_quickVars
  <2> SUFFICES ASSUME QuickInv, QuickNext PROVE SignalsOnlyOurs /\ ReadyIsTheChild
    OBVIOUS
  <2>1. CASE (StartedByHand \/ \E l \in Lives : LifeStep(l)) /\ UNCHANGED commandVars
    <3>1. Unsaid
      BY <2>1 DEF Unsaid, commandVars
    <3>2. CASE StartedByHand
      <4>1. PICK pid \in FreePids : Starts(pid, "nobody")
        BY <3>2 DEF StartedByHand
      <4>2. Unasked
        BY <4>1, StartsDoes DEF QuickInv, Unasked
      <4> QED  BY <1>1, <1>2, <3>1, <4>2 DEF QuickInv
    <3>3. CASE \E l \in Lives : LifeStep(l)
      BY <1>1, <1>2, <3>1, <3>3, LifeMoves DEF QuickInv
    <3> QED  BY <2>1, <3>2, <3>3
  <2>2. ASSUME NEW k \in Commands, RunsUp(k) \/ RunsDown(k) \/ CommandStep(k) \/ Interrupted(k)
        PROVE  SignalsOnlyOurs /\ ReadyIsTheChild
    <3>1. CASE UpReady(k)
      BY <1>1, <3>1, ReadyChild
    <3>2. CASE UpRecords(k) \/ UpDeadline(k)
      BY <1>2, <3>2, OwnChildOnly DEF QuickInv
    <3>3. CASE DownSignals(k)
      BY <1>2, <3>3, ProvedOnly DEF QuickInv
    <3>4. CASE UpSpawns(k) \/ DownPins(k) \/ UpChildEnded(k) \/ UpGivesUp(k) \/ UpForgets(k) \/ Interrupted(k)
      BY <1>1, <1>2, <3>4, SpawnsQuietly, PinsQuietly, CollectsQuietly, DisowningSteps DEF QuickInv
    <3>5. CASE RunsUp(k) \/ RunsDown(k) \/ UpLocks(k) \/ DownLocks(k) \/ UpJudges(k) \/ DownJudges(k)
               \/ DownSeesItGone(k) \/ DownDeadline(k)
      BY <1>1, <1>2, <3>5, QuietSteps DEF QuickInv
    <3> QED  BY <2>2, <3>1, <3>2, <3>3, <3>4, <3>5 DEF CommandStep
  <2> QED  BY <2>1, <2>2 DEF QuickNext
<1> QED  BY <1>3, QuickstartIsInOrder, PTL DEF QuickSpec, OnlyOurChild
=============================================================================
