------------------------------- MODULE Surface -------------------------------
(***************************************************************************)
(* The daemon's connections: the accept loop reads the kernel's record of  *)
(* each peer, a thread of its own serves it request after request, and     *)
(* every consultation of the account directory runs on a small pool of     *)
(* workers behind a timeout (adapters/socket_server.py and                 *)
(* adapters/http_surface.py).                                              *)
(*                                                                         *)
(* What a route answers is modelled elsewhere (Decisions, Grants); here an *)
(* answer is one reply on the connection.  A step is what a thread does    *)
(* between two points where another thread, the directory or the clock can *)
(* be seen to move: a wait for the directory, a read of the peer's bytes,  *)
(* a call into a route.  Any call may raise; those are the Defect steps.   *)
(***************************************************************************)
EXTENDS Routes, Sequences, FiniteSets, SequencesExt

CONSTANTS
    Conns,        \* the connections that may be made
    Scopes,       \* the scopes a request may name
    PeersSeen,    \* the peers that connect: a subset of Peers, and None
    Workers,      \* max_workers of the directory pool
    Horizon,      \* bound: the clock stops here
    MaxRequests,  \* bound: requests on one connection
    MaxChanges    \* bound: changes of the directory

ASSUME SurfaceAssumption ==
    /\ "local" \in Scopes
    /\ PeersSeen \subseteq Peers \cup {None}
    /\ Workers \in Nat \ {0}
    /\ {Horizon, MaxRequests, MaxChanges} \subseteq Nat

VARIABLES
    clock,     \* the clock port, in lifetimes' units
    dir,       \* what the account directory holds for the peers' user id
    changes,   \* how often the directory has changed
    revoked,   \* when it last stopped naming the admission group, or None
    stopped,   \* Daemon._stopped
    jobs,      \* consultations submitted to the pool and not finished, oldest first
    conn,      \* each connection's handler
    chain      \* RecordCollector, by connection and scope

vars == <<clock, dir, changes, revoked, stopped, jobs, conn, chain>>

Phases == {"none", "setup", "idle", "resolving", "guard", "body", "dispatch",
           "decide", "effect", "hold", "finish", "closed"}

\* One connection before it is accepted.
Unaccepted ==
    [phase |-> "none", id |-> ConnectionIdentity(None), after |-> "setup",
     asked |-> 0, closing |-> FALSE, wantsClose |-> FALSE, answered |-> FALSE,
     defect |-> FALSE, requests |-> 0, replies |-> 0, unread |-> FALSE,
     reply |-> "none", scope |-> "local", begunAt |-> 0, failed |-> FALSE]

Init ==
    /\ clock = 0
    /\ dir \in Answers
    /\ changes = 0
    /\ revoked = None
    /\ stopped = FALSE
    /\ jobs = <<>>
    /\ conn = [c \in Conns |-> Unaccepted]
    /\ chain = [c \in Conns |-> [s \in Scopes |-> <<>>]]

-----------------------------------------------------------------------------
(* The evidence records of a connection (domain/evidence.py). *)

Opened(id) == [kind |-> "opened", principal |-> id.principal]
Changed(after) == [kind |-> "changed", principal |-> after]
Closed == [kind |-> "closed", principal |-> None]

\* The scopes a record of the whole connection goes to.
RecordScopes(id) == IF id.touched = {} THEN {"local"} ELSE id.touched

AppendTo(ch, c, scopes, record) ==
    [ch EXCEPT ![c] = [s \in Scopes |-> IF s \in scopes THEN Append(@[s], record) ELSE @[s]]]

Touched(id, scope) == [id EXCEPT !.touched = @ \cup {scope}]

\* touch: the first record a connection leaves on a scope's chain.
TouchChain(ch, c, id, scope) ==
    IF scope \in id.touched THEN ch ELSE AppendTo(ch, c, {scope}, Opened(id))

-----------------------------------------------------------------------------
(* The end of a handler's step. *)

\* handle(): the connection is kept for another request or finished.
EndOfRequest(h) == [h EXCEPT !.phase = IF h.closing THEN "finish" ELSE "idle"]

\* What is remembered of an answer: codes about the request alone are one.
Kept(code) == IF code \in Codes \ AboutTheIdentity THEN "about_the_request" ELSE code

\* _send and _send_problem.
Sent(h, code) == [h EXCEPT !.answered = TRUE, !.replies = @ + 1, !.reply = Kept(code)]

Close(h) == [h EXCEPT !.closing = TRUE]

Reply(h, code) == EndOfRequest(Sent(h, code))

\* Mutant: a defect is always answered.
DefectAlwaysAnswered(h) == EndOfRequest(Sent([Close(h) EXCEPT !.failed = TRUE], "internal"))

\* handle_one_request and _answer_internal_error: a defect closes the
\* connection and is answered unless an answer was already begun on it.
Defect(h) ==
    LET failing == [Close(h) EXCEPT !.failed = TRUE]
    IN  EndOfRequest(IF h.answered THEN failing ELSE Sent(failing, "internal"))

\* A refused identity is answered with its code and the connection closed.
Refuse(h) == Reply(Close(h), h.id.refusal)

-----------------------------------------------------------------------------
(* The environment. *)

Tick ==
    /\ clock < Horizon
    /\ clock' = clock + 1
    /\ UNCHANGED <<dir, changes, revoked, stopped, jobs, conn, chain>>

Named(answer) == answer # None /\ AdmissionGroup \in answer

DirectoryChanges ==
    /\ changes < MaxChanges
    /\ \E answer \in Answers \ {dir} :
        /\ dir' = answer
        /\ revoked' = CASE Named(answer)                 -> None
                        [] Named(dir) /\ ~Named(answer)  -> clock
                        [] OTHER                         -> revoked
    /\ changes' = changes + 1
    /\ UNCHANGED <<clock, stopped, jobs, conn, chain>>

\* stop(): the listener closes and the pool takes no more work.  What runs,
\* and every connection already accepted, goes on.
Stop ==
    /\ ~stopped
    /\ stopped' = TRUE
    /\ UNCHANGED <<clock, dir, changes, revoked, jobs, conn, chain>>

-----------------------------------------------------------------------------
(* Resolution: resolve, _consult and the pool. *)

\* The job a connection waits for is its last one.
Submit(c) == Append(jobs, [conn |-> c, live |-> TRUE, stage |-> "queued",
                           admitted |-> FALSE, answer |-> None])

\* resolve up to the wait.  A pool that was shut down refuses the work, and
\* that is a failure of the directory like any other.
Resolve(c, h, after) ==
    IF stopped
    THEN /\ conn' = [conn EXCEPT ![c] = [h EXCEPT !.id = mark_unknown(h.id, clock),
                                                  !.asked = clock, !.phase = "resolving",
                                                  !.after = after]]
         /\ UNCHANGED jobs
    ELSE /\ conn' = [conn EXCEPT ![c] = [h EXCEPT !.asked = clock, !.phase = "resolving",
                                                  !.after = after]]
         /\ jobs' = Submit(c)

Waiting(c) == \E i \in DOMAIN jobs : jobs[i].conn = c /\ jobs[i].live

Running(i) == i \in DOMAIN jobs /\ i <= Workers

\* _consult, first half: admission asks the directory, through the cache.
ConsultAdmission(i) ==
    /\ Running(i)
    /\ jobs[i].stage = "queued"
    /\ jobs' = [jobs EXCEPT ![i].stage = "admitted", ![i].answer = dir,
                            ![i].admitted = admit(conn[jobs[i].conn].id.peer, dir)]
    /\ UNCHANGED <<clock, dir, changes, revoked, stopped, conn, chain>>

\* Mutant: the second half asks the directory again.
UncachedDirectory(job) == dir

\* The directory as the second half of _consult sees it: the cached answer.
CachedDirectory(job) == job.answer

\* What resolve's caller does with an outcome: setup records the connection,
\* a request's guard refuses or goes on.
AfterResolve(c, h, ch) ==
    IF h.after = "setup"
    THEN /\ conn' = [conn EXCEPT ![c] = [h EXCEPT !.phase = "idle", !.id = Touched(@, "local")]]
         /\ chain' = TouchChain(ch, c, h.id, "local")
    ELSE /\ conn' = [conn EXCEPT ![c] = IF h.id.status = "refused"
                                        THEN Refuse(h) ELSE [h EXCEPT !.phase = "body"]]
         /\ chain' = ch

\* resolve after the wait: the change is recorded before the refusal it causes.
ApplyOutcome(c, admitted, principal) ==
    LET h  == conn[c]
        ch == IF /\ h.id.principal # None
                 /\ differs_beyond_establishment(h.id.principal, principal)
              THEN AppendTo(chain, c, RecordScopes(h.id), Changed(principal))
              ELSE chain
        id == IF admitted THEN bind(h.id, principal, h.asked)
                          ELSE refuse(h.id, "peer_not_admitted")
    IN  AfterResolve(c, [h EXCEPT !.id = id], ch)

\* _consult, second half: the principal is built and the worker returns.  A
\* result nobody waits for any more is dropped with its future.
ConsultReturns(i) ==
    /\ Running(i)
    /\ jobs[i].stage = "admitted"
    /\ jobs' = RemoveAt(jobs, i)
    /\ LET job == jobs[i]
       IN  IF job.live
           THEN ApplyOutcome(job.conn, job.admitted,
                             build_principal(conn[job.conn].id.peer, CachedDirectory(job)))
           ELSE UNCHANGED <<conn, chain>>
    /\ UNCHANGED <<clock, dir, changes, revoked, stopped>>

\* Any failure of the directory is an unknown and never a verdict.
ConsultFails(i) ==
    /\ Running(i)
    /\ jobs' = RemoveAt(jobs, i)
    /\ LET c == jobs[i].conn
       IN  IF jobs[i].live
           THEN AfterResolve(c, [conn[c] EXCEPT !.id = mark_unknown(@, conn[c].asked)], chain)
           ELSE UNCHANGED <<conn, chain>>
    /\ UNCHANGED <<clock, dir, changes, revoked, stopped>>

\* Mutant: result() without a timeout; only a worker that ran ends the wait.
ResolutionNeverTimesOut(c) ==
    /\ conn[c].phase = "resolving"
    /\ jobs = <<>>
    /\ UNCHANGED vars

\* future.result times out: the job stays in the pool and holds its worker.
ResolutionTimeout(c) ==
    /\ conn[c].phase = "resolving"
    /\ Waiting(c)
    /\ jobs' = [i \in DOMAIN jobs |->
                  IF jobs[i].conn = c THEN [jobs[i] EXCEPT !.live = FALSE] ELSE jobs[i]]
    /\ AfterResolve(c, [conn[c] EXCEPT !.id = mark_unknown(@, conn[c].asked)], chain)
    /\ UNCHANGED <<clock, dir, changes, revoked, stopped>>

\* submit raised: there is no job to wait for.
SubmitRefused(c) ==
    /\ conn[c].phase = "resolving"
    /\ ~Waiting(c)
    /\ AfterResolve(c, conn[c], chain)
    /\ UNCHANGED <<clock, dir, changes, revoked, stopped, jobs>>

-----------------------------------------------------------------------------
(* Accept and set-up. *)

\* get_request and establish: the credential is read in the accept loop.
Accept(c) ==
    /\ ~stopped
    /\ conn[c].phase = "none"
    /\ \E peer \in PeersSeen :
        LET id == ConnectionIdentity(peer)
        IN  conn' = [conn EXCEPT ![c].phase = "setup",
                                 ![c].id = IF peer = None
                                           THEN refuse(id, "peer_credential_unavailable")
                                           ELSE id]
    /\ UNCHANGED <<clock, dir, changes, revoked, stopped, jobs, chain>>

\* setup and on_connection: refuse, or resolve once before a request is read.
Setup(c) ==
    LET h == conn[c]
        settled == IF h.id.status # "refused" /\ is_unmapped(h.id.peer)
                   THEN refuse(h.id, "peer_uid_unmapped") ELSE h.id
    IN  /\ h.phase = "setup"
        /\ IF settled.status = "refused"
           THEN /\ AfterResolve(c, [h EXCEPT !.id = settled], chain)
                /\ UNCHANGED jobs
           ELSE Resolve(c, h, "setup") /\ UNCHANGED chain
        /\ UNCHANGED <<clock, dir, changes, revoked, stopped>>

\* A defect in on_connection is held until the first request.
SetupDefect(c) ==
    /\ conn[c].phase = "setup"
    /\ conn' = [conn EXCEPT ![c].phase = "idle", ![c].defect = TRUE]
    /\ UNCHANGED <<clock, dir, changes, revoked, stopped, jobs, chain>>

-----------------------------------------------------------------------------
(* Requests. *)

OnlyConn == UNCHANGED <<clock, dir, changes, revoked, stopped, jobs, chain>>

\* A request is parsed: parse_request takes from it whether the caller is done
\* with the connection, and it may frame a body.
Request(c) ==
    /\ conn[c].phase = "idle"
    /\ conn[c].requests < MaxRequests
    /\ \E close, framed \in BOOLEAN :
        conn' = [conn EXCEPT ![c].phase = "guard", ![c].requests = @ + 1, ![c].replies = 0,
                             ![c].reply = "none", ![c].closing = close, ![c].wantsClose = close,
                             ![c].unread = framed]
    /\ OnlyConn

\* send_error, or a version this binding is not written in: answered before the
\* guard and closed.
Malformed(c) ==
    /\ conn[c].phase = "idle"
    /\ conn[c].requests < MaxRequests
    /\ LET asked == [conn[c] EXCEPT !.requests = @ + 1, !.replies = 0]
       IN  conn' = [conn EXCEPT ![c] = Reply(Close(asked), "request_malformed")]
    /\ OnlyConn

\* The peer goes away or stays silent past connection_timeout.
Leaves(c) ==
    /\ conn[c].phase \in {"idle", "body"}
    /\ conn' = [conn EXCEPT ![c] = [Close(@) EXCEPT !.phase = "finish"]]
    /\ OnlyConn

\* _guard: the defect of the set-up, then the lookup this request owes.
Guard(c) ==
    LET h   == conn[c]
        id  == begin_request(h.id)
        now == [h EXCEPT !.id = id, !.begunAt = clock]
    IN  /\ h.phase = "guard"
        /\ \/ /\ h.defect
              /\ conn' = [conn EXCEPT ![c] = Defect(h)]
              /\ UNCHANGED jobs
           \/ /\ ~h.defect
              /\ id.status = "refused"
              /\ conn' = [conn EXCEPT ![c] = Refuse(now)]
              /\ UNCHANGED jobs
           \/ /\ ~h.defect
              /\ id.status # "refused"
              /\ ~needs_lookup(id, clock)
              /\ conn' = [conn EXCEPT ![c] = [now EXCEPT !.phase = "body"]]
              /\ UNCHANGED jobs
           \/ /\ ~h.defect
              /\ id.status # "refused"
              /\ needs_lookup(id, clock)
              /\ Resolve(c, now, "guard")
        /\ UNCHANGED <<clock, dir, changes, revoked, stopped, chain>>

\* _refuse_framing: a chunked body is skipped, anything else ends the stream.
RefuseFraming(h, skipped) ==
    Reply([h EXCEPT !.closing = ~skipped, !.unread = @ /\ ~skipped], "request_malformed")

\* _consume_body: no body, a body of a declared length that arrives, a length
\* this daemon does not read, or a framing it does not read.
ConsumeBody(c) ==
    LET h == conn[c]
    IN  /\ h.phase = "body"
        /\ \E next \in {[h EXCEPT !.phase = "dispatch", !.unread = FALSE]}
                       \cup (IF h.unread
                             THEN {Reply(Close(h), "request_malformed"), RefuseFraming(h, TRUE),
                                   RefuseFraming(h, FALSE)}
                             ELSE {}) :
            conn' = [conn EXCEPT ![c] = next]
        /\ OnlyConn

\* do_GET, do_POST or any other method: the request is routed, and the answer
\* is one code.  A request for a decision touches its scope first.
Dispatch(c) ==
    /\ conn[c].phase = "dispatch"
    /\ \E code \in {RouteCode(conn[c].id, r) : r \in Requests} :
        IF code \in TouchesScope
        THEN \E s \in Scopes :
               LET h == [conn[c] EXCEPT !.scope = s, !.id = Touched(@, s)]
               IN  /\ conn' = [conn EXCEPT ![c] = IF code = "decide"
                                                  THEN [h EXCEPT !.phase = "decide"]
                                                  ELSE Reply(h, code)]
                   /\ chain' = TouchChain(chain, c, conn[c].id, s)
        ELSE /\ conn' = [conn EXCEPT ![c] = Reply(@, code)]
             /\ UNCHANGED chain
    /\ UNCHANGED <<clock, dir, changes, revoked, stopped, jobs>>

\* _decide up to the answer: a document keeps the connection, a stream ends it.
Decide(c) ==
    /\ conn[c].phase = "decide"
    /\ \E streamed \in BOOLEAN :
        LET decided == [Sent(conn[c], "decided") EXCEPT !.phase = "effect",
                                                       !.closing = streamed \/ @]
        IN  conn' = [conn EXCEPT ![c] = decided]
    /\ OnlyConn

\* _record_effect, then the hold of a connection that issued a grant.
RecordEffect(c) ==
    /\ conn[c].phase = "effect"
    /\ \/ conn' = [conn EXCEPT ![c] = EndOfRequest(@)]
       \/ conn[c].closing /\ conn' = [conn EXCEPT ![c].phase = "hold"]
    /\ OnlyConn

\* The grant's lifetime, the peer or a version change ends the hold.
HoldEnds(c) ==
    /\ conn[c].phase = "hold"
    /\ conn' = [conn EXCEPT ![c] = EndOfRequest(@)]
    /\ OnlyConn

\* Any of those calls raises.
RequestDefect(c) ==
    /\ conn[c].phase \in {"dispatch", "decide", "effect"}
    /\ conn' = [conn EXCEPT ![c] = Defect(@)]
    /\ OnlyConn

\* finish and on_close.
Finish(c) ==
    /\ conn[c].phase = "finish"
    /\ conn' = [conn EXCEPT ![c].phase = "closed"]
    /\ chain' = AppendTo(chain, c, RecordScopes(conn[c].id), Closed)
    /\ UNCHANGED <<clock, dir, changes, revoked, stopped, jobs>>

-----------------------------------------------------------------------------
\* What the connection's own thread does, whatever the directory does.
Thread(c) ==
    \/ ResolutionTimeout(c)
    \/ SubmitRefused(c)
    \/ Setup(c)
    \/ SetupDefect(c)
    \/ Guard(c)
    \/ ConsumeBody(c)
    \/ Dispatch(c)
    \/ Decide(c)
    \/ RecordEffect(c)
    \/ HoldEnds(c)
    \/ RequestDefect(c)
    \/ Finish(c)

Pool ==
    \E i \in DOMAIN jobs : \/ ConsultAdmission(i)
                           \/ ConsultReturns(i)
                           \/ ConsultFails(i)

Next ==
    \/ Tick
    \/ DirectoryChanges
    \/ Stop
    \/ Pool
    \/ \E c \in Conns : \/ Accept(c)
                        \/ Request(c)
                        \/ Malformed(c)
                        \/ Leaves(c)
                        \/ Thread(c)

\* The threads run and their waits are bounded; the directory may hang for ever.
Fairness == \A c \in Conns : WF_vars(Thread(c))

Spec == Init /\ [][Next]_vars /\ Fairness

-----------------------------------------------------------------------------
(* Properties. *)

Records == [kind : {"opened", "changed", "closed"}, principal : Principals \cup {None}]

Identities ==
    [peer : Peers \cup {None}, status : {"unknown", "established", "refused"},
     principal : Principals \cup {None}, refusal : Refusals \cup {None},
     due : Nat \cup {None}, begun : Nat, unknownSince : Nat \cup {None},
     touched : SUBSET Scopes]

Replies == AboutTheIdentity \cup Refusals
           \cup {"none", "decided", "internal", "about_the_request"}

Handlers ==
    [phase : Phases, id : Identities, after : {"setup", "guard"}, asked : Nat,
     closing : BOOLEAN, wantsClose : BOOLEAN, answered : BOOLEAN, defect : BOOLEAN,
     requests : 0..MaxRequests, replies : Nat, unread : BOOLEAN, reply : Replies, scope : Scopes,
     begunAt : Nat, failed : BOOLEAN]

\* Every variable has its type.
TypeOK ==
    /\ clock \in 0..Horizon
    /\ dir \in Answers
    /\ changes \in 0..MaxChanges
    /\ revoked \in Nat \cup {None}
    /\ stopped \in BOOLEAN
    /\ jobs \in Seq([conn : Conns, live : BOOLEAN, stage : {"queued", "admitted"},
                     admitted : BOOLEAN, answer : Answers \cup {None}])
    /\ conn \in [Conns -> Handlers]
    /\ chain \in [Conns -> [Scopes -> Seq(Records)]]

\* The identity of a peer that only the directory admits.
ByDirectory(id) == id.peer # None /\ ~AdmittedByCredential(id.peer)

Serving == {"body", "dispatch", "decide"}

\* A principal bound on the directory's word carries the group that admitted
\* it: admission and the principal are two reads of one answer, however the
\* directory changes between them (_CachedDirectory).
AdmittedAsRecorded ==
    \A c \in Conns :
        (ByDirectory(conn[c].id) /\ conn[c].id.status = "established")
            => AdmissionGroup \in conn[c].id.principal.groups

\* A membership revoked in the directory stops every request begun a lifetime
\* or more after it, through timeouts, abandoned lookups, outages and a stopped
\* pool: refresh_if_due counts the lifetime from before the lookup was made.
RevocationReachesRequests ==
    \A c \in Conns :
        (/\ ByDirectory(conn[c].id)
         /\ revoked # None
         /\ conn[c].phase \in Serving
         /\ HasPrincipal(conn[c].id))
            => conn[c].begunAt < revoked + Lifetime

\* What a chain says of a connection before it says that it closed.
Told(records) ==
    IF records # <<>> /\ Last(records).kind = "closed" THEN Front(records) ELSE records

\* What one chain tells of an identity.
Tells(told, id, s) ==
    LET last == Last(told)
    IN  /\ told # <<>>
        /\ told[1].kind = "opened"
        /\ \A i \in 2..Len(told) : told[i].kind = "changed"
        /\ id.principal # None =>
               \/ last.principal = id.principal
               \/ last.kind = "opened" /\ last.principal = None /\ s = "local"
        /\ (id.refusal = "peer_not_admitted" /\ last.principal # None) =>
               ~admit(id.peer, IF last.principal.named THEN last.principal.groups ELSE None)

\* Reading a scope's records of one connection gives the principal it carries
\* now, and a connection refused after it was served shows the change that
\* refused it as its last record on every chain it touched (_record_change).
\* The one silence: a connection opened during an outage names no principal and
\* its first binding leaves no record.
ChainTellsTheIdentity ==
    \A c \in Conns : \A s \in conn[c].id.touched :
        Tells(Told(chain[c][s]), conn[c].id, s)

\* Who a connection is, is on record: a principal bound on the directory's word
\* carries the group that admitted it, and the chains the connection touched
\* tell the principal it carries and every change of it.
IdentityIsOnRecord == TypeOK /\ AdmittedAsRecorded /\ ChainTellsTheIdentity

AnsweredOnce(h) ==
    /\ h.replies <= 1
    /\ (h.phase = "idle" /\ h.requests > 0) => h.replies = 1
    /\ h.phase = "idle" => ~h.unread
    /\ (h.failed /\ h.requests = 1) => h.replies = 1

\* A connection that is kept has answered each of its requests exactly once,
\* and no request is answered twice, a defect before or after the answer
\* included (_answered_on_the_connection, _answer_internal_error).  The next
\* request is read only from a stream whose last body was consumed, whichever
\* answer it got (_consume_body, _refuse_framing).
OneAnswerPerRequest == \A c \in Conns : AnsweredOnce(conn[c])

AnswerFollows(h) ==
    h.phase \in {"idle", "effect", "hold", "finish", "closed"} =>
        /\ h.reply \in {"decided", "policy_unavailable"} => h.id.status = "established"
        /\ h.reply = "principal_groups_unavailable" =>
               h.id.status = "unknown" /\ h.id.refusal = None
        /\ h.reply \in Refusals => h.id.refusal = h.reply /\ h.phase # "idle"

\* The answer follows the identity it was given under: an unknown identity is
\* never served a decision, what cannot be asked is never written as a denial,
\* and a refusal names the connection's own reason and ends it (_guard, do_POST).
AnswersFollowTheIdentity == \A c \in Conns : AnswerFollows(conn[c])

\* A request is served under the identity established for it: never under a
\* membership revoked a lifetime before it began, and with the answer that the
\* state of the identity calls for (refresh_if_due, _guard).
ServedAsEstablished == RevocationReachesRequests /\ AnswersFollowTheIdentity

-----------------------------------------------------------------------------
(* What makes the safety properties inductive.                             *)

\* Nothing was asked yet; a request was read and is not answered.
Settling(h) == h.phase \in {"none", "setup"} \/ (h.phase = "resolving" /\ h.after = "setup")
Asking(h) ==
    \/ h.phase \in {"guard"} \cup Serving
    \/ h.phase = "resolving" /\ h.after = "guard"

\* An answer counts for the request it was given to, and a body is left unread
\* only on a stream that reads no other request.
RequestShape(h) ==
    /\ h.phase \in {"none", "setup"} => h.after = "setup"
    /\ Settling(h) => h.requests = 0
    /\ Asking(h) => h.requests > 0 /\ h.replies = 0
    /\ h.phase \in {"effect", "hold"} => h.replies = 1
    /\ h.requests = 0 => h.replies = 0 /\ ~h.answered
    /\ h.replies = 0 => h.reply = "none" /\ (h.requests = 1 => ~h.answered)
    /\ h.replies = 1 => h.answered
    /\ h.unread => Asking(h) \/ h.phase \in {"finish", "closed"}
    /\ h.phase \in {"dispatch", "decide"} => ~h.unread
    /\ h.failed => h.phase \in {"finish", "closed"}

\* A refusal has its reason and no principal; an unknown identity may keep one,
\* and where it has none the local chain alone knows of the connection.
IdentityShape(h) ==
    LET id == h.id
    IN  /\ h.phase # "none" /\ id.status # "refused" => id.peer # None
        /\ id.status = "refused" <=> id.refusal # None
        /\ id.status = "refused" => id.principal = None
        /\ id.status = "established" => id.principal # None /\ id.due # None
        /\ Settling(h) => id.principal = None /\ id.touched = {} /\ ~h.defect
        /\ ~Settling(h) /\ ~h.defect => "local" \in id.touched
        /\ h.phase \in {"resolving", "effect", "hold"} \cup Serving =>
               id.status # "refused" /\ ~h.defect
        /\ h.phase = "decide" => id.status = "established"

\* An identity lasts a lifetime from when it was asked for, and one bound on the
\* directory's word no longer than a lifetime beyond the revocation of it.
Timely(h) ==
    /\ h.asked <= clock
    /\ h.phase = "resolving" /\ h.after = "guard" => h.asked = h.begunAt
    /\ h.id.status = "established" =>
           /\ h.id.due <= clock + Lifetime
           /\ h.phase \in Serving => h.begunAt < h.id.due
           /\ ByDirectory(h.id) =>
                  /\ AdmissionGroup \in h.id.principal.groups
                  /\ revoked # None => h.id.due <= revoked + Lifetime

HandlerInv(h) ==
    RequestShape(h) /\ IdentityShape(h) /\ Timely(h) /\ AnsweredOnce(h) /\ AnswerFollows(h)

\* A connection waits for one consultation, or was left without one.
JobShape ==
    /\ \A i \in DOMAIN jobs : jobs[i].live =>
           LET h == conn[jobs[i].conn]
           IN  /\ h.phase = "resolving"
               /\ jobs[i].stage = "admitted" =>
                      /\ jobs[i].admitted = admit(h.id.peer, jobs[i].answer)
                      /\ Named(jobs[i].answer) /\ revoked # None => h.asked <= revoked
    /\ \A i, j \in DOMAIN jobs :
           (jobs[i].live /\ jobs[j].live /\ jobs[i].conn = jobs[j].conn) => i = j
    /\ \A c \in Conns : conn[c].phase = "resolving" =>
           Waiting(c) \/ conn[c].id.status = "unknown"

\* What an open connection's chains say, and that no other chain says a thing.
ChainShape(h, records) ==
    IF h.phase = "closed"
    THEN \A s \in h.id.touched : Tells(Told(records[s]), h.id, s)
    ELSE \A s \in Scopes :
           IF s \in h.id.touched
           THEN /\ Tells(records[s], h.id, s)
                /\ h.id.principal = None /\ h.id.status # "refused" =>
                       s = "local" /\ Last(records[s]) = Opened(h.id)
           ELSE records[s] = <<>>

SurfaceInv ==
    /\ TypeOK
    /\ Named(dir) => revoked = None
    /\ JobShape
    /\ \A c \in Conns : HandlerInv(conn[c]) /\ ChainShape(conn[c], chain[c])

-----------------------------------------------------------------------------
\* A request that was read ends, answered or closed, though the directory
\* hangs and every worker is held by an abandoned lookup: resolve is bounded.
RequestsEnd ==
    \A c \in Conns : conn[c].phase = "guard" ~> conn[c].phase \in {"idle", "closed"}
=============================================================================
