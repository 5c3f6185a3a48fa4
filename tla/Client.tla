------------------------------- MODULE Client -------------------------------
(***************************************************************************)
(* The two clients of the contract: the verified connection a caller keeps *)
(* and reconnects (transport/socket_client.py), "kept", and the one that   *)
(* opens a connection per request or holds the one its decision came on    *)
(* (binding/http_unix_socket/client.py), "fresh".  One client asks at a    *)
(* time; a timeout may strike any wait for an answer.                      *)
(*                                                                         *)
(* The far end, the address and the account database are external: who     *)
(* listens changes, a far end takes what it received when it likes, also   *)
(* after the client gave up, and writes a reply in two parts or hangs up.  *)
(* Only a far end that did not act publishes a problem saying so.  A reply *)
(* that announces the close of its connection is one followed by a hangup: *)
(* the next request then finds nothing to be sent on either way.           *)
(***************************************************************************)
EXTENDS Integers, Sequences, FiniteSets

CONSTANTS
  Daemon, Other, \* two accounts' uids
  NoOne,         \* no listener, no such account, no far end
  MaxRequests,   \* bound: requests ever made
  MaxOpens,      \* bound: connects and reconnects of the kept client
  MaxMoves       \* bound: changes of the listener or of the account

Uids == {Daemon, Other}

ASSUME ClientAssumption ==
  /\ Daemon # Other /\ NoOne \notin Uids
  /\ MaxRequests \in Nat /\ MaxOpens \in Nat /\ MaxMoves \in Nat

VARIABLES
  client, mode,  \* which client, and SocketProfile.mode
  listener, account, moves, opens, \* the host: the uid at the address, daemon_user's uid
  conn,          \* LocalHttpConnection and VerifiedConnection, or _UnixConnection
  out, gone,     \* the current stream: replies not yet read, and the far end's hangup
  call, op,      \* where the request in hand is, and its operation
  asked, writes, \* requests made, and those among them that ask for an act
  waiting,       \* requests a far end received and did not take up yet
  acted,         \* writes a far end carried out
  results,       \* what the caller was told of each request
  heard          \* who received bytes, and whom the profile named when it was opened

host == <<listener, account, moves>>
vars == <<client, mode, listener, account, moves, opens, conn, out, gone, call, op, asked,
          writes, waiting, acted, results, heard>>

Ops == {"status", "read", "evidence", "ask", "hold"}
Writes == {"ask", "hold"} \* _WRITES: the operations that POST
Ids == 1..MaxRequests

\* The bodies told apart: a document, a decision with an outcome this
\* generation does not define, an object its reader refuses or that carries no
\* problem code, a value that is no object, and bytes that do not parse.
Replies ==
  {r \in [ok: BOOLEAN, generation: {"this", "other", "none"},
          form: {"document", "outcome", "object", "value", "unparsed"},
          code: {"none", "refused", "generation_unsupported", "could_not_ask"}] :
     /\ r.ok <=> r.code = "none"
     /\ r.form \in {"object", "value"} => r.code \in {"none", "could_not_ask"}
     /\ r.form = "value" => r.generation = "none"
     /\ r.form = "unparsed" => r.ok /\ r.generation = "none"
     /\ r.form = "outcome" => r.ok /\ r.generation = "this"}

\* The body of a reply that did not come yet.
Coming == [ok |-> TRUE, generation |-> "none", form |-> "coming", code |-> "none"]

ResultType ==
  [kind: {"Answered", "Refused", "CouldNotAsk"}, retryable: {"yes", "no", "unknown"},
   reply: 0..MaxRequests]

Closed == [open |-> FALSE, far |-> NoOne, expected |-> NoOne, named |-> NoOne,
           state |-> "Idle", unread |-> 0, first |-> 0]

TypeOK ==
  /\ client \in {"kept", "fresh"} /\ mode \in {"per_user", "system"}
  /\ listener \in Uids \cup {NoOne} /\ account \in Uids \cup {NoOne}
  /\ moves \in 0..MaxMoves /\ opens \in 0..MaxOpens
  /\ conn \in [open: BOOLEAN, far: Uids \cup {NoOne}, expected: Uids \cup {NoOne},
               named: Uids \cup {NoOne}, state: {"Idle", "Request-sent"},
               unread: 0..MaxRequests, first: 0..(MaxRequests + 1)]
  /\ out \in Seq([id: Ids, http: BOOLEAN, body: Replies \cup {Coming}]) /\ gone \in BOOLEAN
  /\ call \in {"none", "sent", "reading"}
  /\ op \in Ops \cup {"none"} /\ asked \in 0..MaxRequests /\ writes \subseteq 1..asked
  /\ waiting \subseteq 1..asked /\ acted \subseteq 1..asked
  /\ results \in [1..(IF call = "none" THEN asked ELSE asked - 1) -> ResultType]
  /\ heard \subseteq Uids \X (Uids \cup {NoOne})

Init ==
  /\ client \in {"kept", "fresh"}
  /\ mode \in IF client = "kept" THEN {"per_user", "system"} ELSE {"per_user"}
  /\ listener = Daemon /\ account = Daemon /\ moves = 0 /\ opens = 0
  /\ conn = Closed /\ out = <<>> /\ gone = FALSE /\ call = "none" /\ op = "none"
  /\ asked = 0 /\ writes = {} /\ waiting = {} /\ acted = {} /\ results = <<>>
  /\ heard = {}

-----------------------------------------------------------------------------
(* What a problem and a document are read as.                              *)

Result(kind, retryable) == [kind |-> kind, retryable |-> retryable, reply |-> 0]

\* One of the client's own problems, retryable as the registry publishes its
\* code unless this occurrence may have been acted on.
problem(code, repeatable) ==
  Result("CouldNotAsk",
         IF ~repeatable THEN "unknown"
         ELSE CASE code \in {"unreachable", "peer_credential_unavailable"} -> "yes"
                [] code = "answer_unreadable" -> "unknown"
                [] OTHER -> "no")

Unreadable == problem("answer_unreadable", TRUE)
WrongGeneration == problem("generation_unsupported", TRUE)

\* Mutant: a lost reply is classed by the registry's column alone.
LostAnyhow(o) == problem("unreachable", TRUE)

\* A request that left and whose reply was not obtained.
Lost(o) == problem("unreachable", o \notin Writes)
Unsent == problem("unreachable", TRUE)

\* A published problem: its class is the registry's column, and only a
\* document that arrived can be a refusal.
problem_class(code) == IF code \in {"refused", "generation_unsupported"} THEN "refused" ELSE "could_not_ask"
read_problem(r) ==
  IF problem_class(r.code) = "refused" THEN Result("Refused", "no")
  ELSE Result("CouldNotAsk", "yes")

\* The document readers need the generation they read.
Reads(r) == r.form \in {"document", "outcome"} /\ r.generation # "none"
read_decision(r) ==
  CASE r.form = "outcome" -> Result("CouldNotAsk", "no")
    [] r.form # "outcome" /\ Reads(r) -> Result("Answered", "no")
    [] OTHER -> Unreadable

\* The kept connection's readings.  A generation it does not speak is
\* complained of first, at every status; one that is not readable is not.
echoed_generation(r) == r.form # "value" /\ r.generation = "other"
classify(r) == IF r.form = "document" THEN read_problem(r) ELSE Unreadable

kept_ask_decision(r) ==
  CASE echoed_generation(r) -> WrongGeneration
    [] ~echoed_generation(r) /\ r.ok -> read_decision(r)
    [] OTHER -> classify(r)

kept_document_answer(r) ==
  CASE echoed_generation(r) -> WrongGeneration
    [] ~echoed_generation(r) /\ ~r.ok -> classify(r)
    [] OTHER -> IF Reads(r) THEN Result("Answered", "no") ELSE Unreadable

kept_read_status(r) == kept_document_answer(r)

\* Evidence is handed over without a reader, on its version alone.
kept_evidence_read(r) ==
  CASE ~r.ok -> IF echoed_generation(r) THEN WrongGeneration ELSE classify(r)
    [] r.ok /\ r.form = "value" -> Unreadable
    [] OTHER -> IF r.generation = "this" THEN Result("Answered", "no") ELSE WrongGeneration

\* The per-request client's reading of an object.  Its own complaint about the
\* generation gives way to a far end that published that very problem, and the
\* status is read in whatever generation it was written.
fresh_interpret(o, r) ==
  CASE r.generation = "none" -> WrongGeneration
    [] r.generation = "other" /\ ~r.ok /\ r.code # "generation_unsupported" -> WrongGeneration
    [] r.generation = "other" /\ r.ok /\ o # "status" -> WrongGeneration
    [] OTHER -> CASE ~r.ok /\ r.form = "document" -> read_problem(r)
                  [] ~r.ok /\ r.form # "document" -> Result("CouldNotAsk", "unknown")
                  [] r.ok /\ o \in Writes -> read_decision(r)
                  [] OTHER -> IF Reads(r) THEN Result("Answered", "no") ELSE Unreadable

fresh_evidence_read(r) ==
  CASE ~r.ok -> fresh_interpret("evidence", r)
    [] OTHER -> IF r.generation = "this" THEN Result("Answered", "no") ELSE WrongGeneration

Reading(o, r) ==
  CASE r.form = "unparsed" \/ (client = "fresh" /\ r.form = "value") -> Unreadable
    [] client = "kept" /\ r.form # "unparsed" ->
         CASE o = "status" -> kept_read_status(r)
           [] o = "read" -> kept_document_answer(r)
           [] o = "evidence" -> kept_evidence_read(r)
           [] OTHER -> kept_ask_decision(r)
    [] OTHER -> IF o = "evidence" THEN fresh_evidence_read(r) ELSE fresh_interpret(o, r)

-----------------------------------------------------------------------------
(* The address is opened and the far end verified before a byte is sent.   *)

\* Mutant: the expectation is the one the connection was first opened with.
ExpectedOnce == IF conn.expected # NoOne THEN conn.expected
                ELSE IF mode = "system" THEN account ELSE Daemon

expected_principal_uid == IF mode = "system" THEN account ELSE Daemon

\* What comes of one open: a verified stream, or the problem that says why not.
Opened(established) ==
  LET expected == expected_principal_uid IN
  CASE expected = NoOne -> "server_not_the_daemon_principal"
    [] expected # NoOne /\ listener = NoOne -> "unreachable"
    [] expected # NoOne /\ listener # NoOne /\ ~established -> "peer_credential_unavailable"
    [] OTHER -> IF listener = expected THEN "verified" ELSE "server_not_the_daemon_principal"

\* A verified stream; `named` is a history of whom the profile named then.
Stream(id) ==
  [open |-> TRUE, far |-> listener, expected |-> expected_principal_uid,
   named |-> IF mode = "system" THEN account ELSE Daemon,
   state |-> "Idle", unread |-> 0, first |-> id]

\* connect, and reconnect: what was open is closed first, and an open that
\* failed leaves nothing open and the uids of the last one in place.
Connect(established) ==
  /\ client = "kept" /\ call = "none" /\ opens < MaxOpens
  /\ opens' = opens + 1
  /\ conn' = IF Opened(established) = "verified" THEN Stream(asked + 1)
             ELSE [Closed EXCEPT !.expected = conn.expected]
  /\ out' = <<>> /\ gone' = FALSE
  /\ UNCHANGED <<client, mode, host, call, op, asked, writes, waiting, acted, results, heard>>

-----------------------------------------------------------------------------
(* One request.                                                            *)

Told(r, reply) == results' = Append(results, [r EXCEPT !.reply = reply])

Ask(o) ==
  /\ call = "none" /\ asked < MaxRequests
  /\ asked' = asked + 1
  /\ writes' = IF o \in Writes THEN writes \cup {asked + 1} ELSE writes

\* HTTPConnection.request on a connection: bytes reach the far end, the
\* request whole or not.  One not whole cannot be taken up.
Sends(o, c, whole) ==
  /\ conn' = [c EXCEPT !.state = "Request-sent"]
  /\ heard' = heard \cup {<<c.far, c.named>>}
  /\ IF whole
     THEN /\ call' = "sent" /\ op' = o /\ waiting' = waiting \cup {asked + 1}
          /\ UNCHANGED results
     ELSE Told(Unsent, 0) /\ UNCHANGED <<call, op, waiting>>

\* The connection the caller keeps.
KeptRequest(o, whole) ==
  /\ client = "kept" /\ conn.expected # NoOne /\ o # "hold" /\ Ask(o)
  /\ conn.state = "Idle" /\ conn.open /\ ~gone
  /\ Sends(o, conn, whole)
  /\ UNCHANGED <<client, mode, host, opens, out, gone, acted>>

\* One that waits for an answer, lost its socket or whose far end left sends
\* nothing, and refuses every later request until it is reconnected.
KeptRefusal(o) ==
  /\ client = "kept" /\ conn.expected # NoOne /\ o # "hold" /\ Ask(o)
  /\ ~(conn.state = "Idle" /\ conn.open /\ ~gone)
  /\ conn' = [conn EXCEPT !.state = "Request-sent"]
  /\ Told(Unsent, 0)
  /\ UNCHANGED <<client, mode, host, opens, out, gone, call, op, waiting, acted, heard>>

\* A connection of the request's own, verified before the request is sent.
FreshRequest(o, established, whole) ==
  /\ client = "fresh" /\ Ask(o)
  /\ out' = <<>> /\ gone' = FALSE
  /\ IF Opened(established) = "verified"
     THEN Sends(o, Stream(asked + 1), whole)
     ELSE /\ Told(problem(Opened(established), TRUE), 0)
          /\ UNCHANGED <<conn, heard, call, op, waiting>>
  /\ UNCHANGED <<client, mode, host, opens, acted>>

\* The per-request client closes its connection with the call, and hands it
\* over only with an answer to hold (module Boundary); the other one keeps it.
EndCall(c, r, reply, rest) ==
  LET kept == client = "kept" /\ c.open IN
  /\ call' = "none" /\ op' = "none"
  /\ Told(r, reply)
  /\ conn' = IF client = "kept" THEN c ELSE Closed
  /\ out' = IF kept THEN rest ELSE <<>>
  /\ gone' = (kept /\ gone)
  /\ UNCHANGED <<client, mode, host, opens, asked, writes, waiting, acted, heard>>

\* What the two make of a reply that breaks off or is no HTTP: nothing was
\* obtained, or something arrived that cannot be read.
Broken == IF client = "fresh" THEN Unreadable ELSE Lost(op)

\* getresponse: refused while an earlier response is unread.
GetResponse ==
  /\ call = "sent" /\ conn.unread = 0 /\ out # <<>>
  /\ \/ ~Head(out).http /\ EndCall(conn, Broken, 0, out)
     \/ /\ Head(out).http /\ call' = "reading"
        /\ conn' = [conn EXCEPT !.state = "Idle", !.unread = Head(out).id]
        /\ UNCHANGED <<client, mode, host, opens, out, gone, op, asked, writes, waiting,
                       acted, results, heard>>

ResponseNotReady ==
  /\ call = "sent" /\ conn.unread # 0
  /\ EndCall(conn, Lost(op), 0, out)

\* The far end left without a byte of an answer: the connection is closed.
Disconnected ==
  /\ call = "sent" /\ conn.unread = 0 /\ out = <<>> /\ gone
  /\ EndCall([Closed EXCEPT !.expected = conn.expected], Lost(op), 0, <<>>)

\* Mutant: a connection whose answer did not come in time is used again.
ForgetsTheWait ==
  /\ call # "none"
  /\ EndCall([conn EXCEPT !.state = "Idle", !.unread = 0], Lost(op), 0, out)

\* A wait that ran past the timeout, for the head of an answer or its body:
\* the connection stays as it is, and sends nothing or reads nothing more.
TimesOut ==
  /\ call # "none"
  /\ EndCall(conn, Lost(op), 0, out)

\* The body, whole or broken off by a hangup.
ReadBody ==
  /\ call = "reading"
  /\ LET read == [conn EXCEPT !.unread = 0]
         reply == Head(out)
     IN \/ /\ reply.body # Coming
           /\ EndCall(read, Reading(op, reply.body), reply.id, Tail(out))
        \/ /\ reply.body = Coming /\ gone
           /\ EndCall(read, Broken, 0, Tail(out))

-----------------------------------------------------------------------------
(* The far end and the host.                                               *)

\* The far end takes up what it received, in order, on the stream it came on.
OnStream(id) == conn.open /\ ~gone /\ conn.first <= id

Serve(id, acts, http) ==
  /\ id \in waiting /\ OnStream(id)
  /\ \A j \in waiting : j < id => ~OnStream(j)
  /\ acts => id \in writes
  /\ waiting' = waiting \ {id}
  /\ acted' = IF acts THEN acted \cup {id} ELSE acted
  /\ out' = Append(out, [id |-> id, http |-> http, body |-> Coming])
  /\ UNCHANGED <<client, mode, host, opens, conn, gone, call, op, asked, writes, results, heard>>

\* The same on a stream the client gave up: there is nobody to answer.
ServeNobody(id, acts) ==
  /\ id \in waiting /\ ~OnStream(id)
  /\ acts => id \in writes
  /\ waiting' = waiting \ {id}
  /\ acted' = IF acts THEN acted \cup {id} ELSE acted
  /\ UNCHANGED <<client, mode, host, opens, conn, out, gone, call, op, asked, writes,
                 results, heard>>

\* A problem is published of what changed nothing, and a document of this
\* generation answers a write only when it was carried out.
Carries(id, r) ==
  /\ id \in acted => r.ok
  /\ r = [ok |-> TRUE, generation |-> "this", form |-> "document", code |-> "none"]
       => (id \in writes => id \in acted)
  /\ r.form = "outcome" => id \in writes

WriteBody(r) ==
  /\ conn.open /\ ~gone
  /\ \E i \in 1..Len(out) :
       /\ \A j \in 1..Len(out) : out[j].body = Coming => i <= j
       /\ out[i].body = Coming /\ Carries(out[i].id, r)
       /\ out' = [out EXCEPT ![i].body = r]
  /\ UNCHANGED <<client, mode, host, opens, conn, gone, call, op, asked, writes, waiting,
                 acted, results, heard>>

HangUp ==
  /\ conn.open /\ ~gone /\ gone' = TRUE
  /\ UNCHANGED <<client, mode, host, opens, conn, out, call, op, asked, writes, waiting,
                 acted, results, heard>>

\* Another process listens at the address, or the account is remapped.
Move ==
  /\ moves < MaxMoves /\ moves' = moves + 1
  /\ \/ listener' \in (Uids \cup {NoOne}) \ {listener} /\ UNCHANGED account
     \/ /\ mode = "system"
        /\ account' \in (Uids \cup {NoOne}) \ {account} /\ UNCHANGED listener
  /\ UNCHANGED <<client, mode, opens, conn, out, gone, call, op, asked, writes, waiting,
                 acted, results, heard>>

Next ==
  \/ \E e \in BOOLEAN : Connect(e)
  \/ \E o \in Ops : KeptRefusal(o)
  \/ \E o \in Ops, w \in BOOLEAN : KeptRequest(o, w)
  \/ \E o \in Ops, e, w \in BOOLEAN : FreshRequest(o, e, w)
  \/ GetResponse \/ ResponseNotReady \/ Disconnected \/ TimesOut \/ ReadBody
  \/ \E id \in Ids, acts, http \in BOOLEAN : Serve(id, acts, http)
  \/ \E id \in Ids, acts \in BOOLEAN : ServeNobody(id, acts)
  \/ \E r \in Replies : WriteBody(r)
  \/ HangUp \/ Move

Spec == Init /\ [][Next]_vars

-----------------------------------------------------------------------------
(* Properties.                                                             *)

\* A result that says the request may be sent again is never given for a
\* write the far end carried out, nor for one it carries out later, however
\* the reply was lost (the `repeatable` of _problem and _client_problem).
NoRetryAfterAnAct ==
  \A id \in DOMAIN results : results[id].retryable = "yes" => id \notin acted

\* What a caller is told of a request was read off the reply to that very
\* request, also on a connection whose earlier answers came late, and an
\* answer to a write is given only for a write that was carried out.
AnswersAreTheirRequests ==
  \A id \in DOMAIN results :
    /\ results[id].reply \in {0, id}
    /\ results[id].kind = "Answered" => results[id].reply = id
    /\ results[id].kind = "Answered" /\ id \in writes => id \in acted

\* A refusal is the far end's own: the write it refuses was not carried out,
\* whatever generation or form the reply has (problem_class_of).
RefusedMeansNotDone ==
  \A id \in DOMAIN results :
    results[id].kind = "Refused" => results[id].reply = id /\ id \notin acted

\* A caller is told what happened to its write: neither a refusal nor leave to
\* send it again is given for one that was, or will be, carried out.
ToldWhatHappened == TypeOK /\ NoRetryAfterAnAct /\ RefusedMeansNotDone

\* No byte of a request reaches a process of another account than the one the
\* profile named when the connection was opened, through every reconnect, new
\* listener and remapped account (open_verified, _UnixConnection.connect).
ImpostorGetsNothing == \A h \in heard : h[1] = h[2]

-----------------------------------------------------------------------------
(* What makes them inductive.                                              *)

\* The far end of a stream is whom the profile named when it was opened.
ConnShape ==
  conn.far = conn.named /\ (conn.open => conn.far # NoOne) /\ ImpostorGetsNothing

\* The request in hand, and the acts that were asked for.
CallShape ==
  /\ call # "none" => asked # 0 /\ op \in Ops /\ (op \in Writes <=> asked \in writes)
  /\ acted \subseteq writes

\* A connection that may send has nothing of an earlier request on its way,
\* and one that was left with a reply unread reads no other.
Underway == {id \in waiting : conn.first <= id}

StreamShape ==
  /\ call # "none" => conn.open
  /\ call = "none" /\ conn.open /\ conn.state = "Idle" /\ conn.unread = 0 =>
       out = <<>> /\ Underway = {}
  /\ call = "sent" => conn.state = "Request-sent"
  /\ call = "sent" /\ conn.unread = 0 =>
       /\ Len(out) <= 1 /\ \A i \in DOMAIN out : out[i].id = asked
       /\ Underway \subseteq {asked} /\ (out # <<>> => Underway = {})
  /\ call = "reading" =>
       /\ conn.state = "Idle" /\ conn.unread # 0
       /\ Len(out) = 1 /\ out[1].id = asked /\ Underway = {}

\* What is replied was taken up, and says no other than what was done.
ReplyShape ==
  \A i \in DOMAIN out :
    /\ out[i].id \in 1..asked /\ out[i].id \notin waiting
    /\ out[i].body # Coming => Carries(out[i].id, out[i].body)

\* A request that may be sent again, or was refused, is not going to be done.
ResultShape ==
  \A id \in DOMAIN results :
    results[id].retryable = "yes" \/ results[id].kind = "Refused" =>
      id \notin acted /\ ~(id \in waiting /\ id \in writes)

ClientInv ==
  /\ TypeOK /\ ConnShape /\ CallShape /\ StreamShape /\ ReplyShape /\ ResultShape
  /\ AnswersAreTheirRequests /\ RefusedMeansNotDone
=============================================================================
