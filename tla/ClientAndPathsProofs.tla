------------------------ MODULE ClientAndPathsProofs ------------------------
(***************************************************************************)
(* Proofs about what the daemon's neighbours can do: the contract's two    *)
(* clients, and the principals who share its file system.                  *)
(*                                                                         *)
(* Client: ClientInv is kept by every step; what a caller is told follows  *)
(* from it, for any number of requests, reconnects and changes of the      *)
(* host.  The many ways a request is made, a call ends and the caller is   *)
(* told are each said once (Requested, Ending, NewResult); the invariant   *)
(* is kept by those.  What every reading of a reply may say is Says.       *)
(*                                                                         *)
(* Paths: PathsInv is kept by every replacement, change of mode and write  *)
(* of a stranger.  A lookup is a sequence of looks, each of them Advance   *)
(* of the one before; LookupEnds says where it ends once a look that stops *)
(* is found, and the walks of the tree's few names are such lookups.  Then *)
(* what each passing verdict says of the components it walked is said once *)
(* (Leads, RootsAlone, NoWriterAbove, Guarded, OutOfReach), and that no    *)
(* step of a stranger reaches what those hold off.                         *)
(***************************************************************************)
EXTENDS Client, Paths, WellFoundedInduction, SequenceTheorems, FiniteSetTheorems, TLAPS

-----------------------------------------------------------------------------
(* The one reply to a write that says it was carried out.                  *)
Done == [ok |-> TRUE, generation |-> "this", form |-> "document", code |-> "none"]

(* What a reply can be read as: an answer to a write is read off the one   *)
(* document that says so, and what may be retried, or was refused, off a   *)
(* problem.                                                                *)
Says(t, o, r) ==
  /\ t \in ResultType /\ t.reply = 0
  /\ t.kind = "Answered" /\ o \in Writes => r = Done
  /\ t.kind = "Refused" => ~ r.ok
  /\ t.retryable = "yes" => ~ r.ok

(* The client's own problems and the published ones.                       *)
LEMMA Problems ==
  /\ Unreadable = Result("CouldNotAsk", "unknown")
  /\ WrongGeneration = Result("CouldNotAsk", "no")
  /\ Unsent = Result("CouldNotAsk", "yes")
  /\ \A o : Lost(o) = Result("CouldNotAsk", IF o \in Writes THEN "unknown" ELSE "yes")
  /\ \A code : problem(code, TRUE).kind = "CouldNotAsk" /\ problem(code, TRUE) \in ResultType
BY ClientAssumption DEF problem, Unreadable, WrongGeneration, Unsent, Lost, Result, ResultType

(* A decision is answered only by the document that carries it.            *)
LEMMA DecisionSays ==
  ASSUME NEW r \in Replies, NEW o, r.ok, r.generation # "other"
  PROVE  Says(read_decision(r), o, r)
BY Problems, ClientAssumption DEF Says, read_decision, Reads, Replies, Result, ResultType, Done

(* A published problem is a refusal or leaves the request to be sent       *)
(* again, and answers nothing.                                             *)
LEMMA ClassifySays ==
  ASSUME NEW r \in Replies, NEW o, ~ r.ok
  PROVE  Says(classify(r), o, r) /\ Says(read_problem(r), o, r)
BY Problems, ClientAssumption
   DEF Says, classify, read_problem, problem_class, Replies, Result, ResultType, Done

(* Whichever client reads it, a reply says no more than that.              *)
LEMMA ReadingSays ==
  ASSUME NEW o \in Ops, NEW r \in Replies, client \in {"kept", "fresh"}
  PROVE  Says(Reading(o, r), o, r)
<1> USE Problems DEF Result
<1>1. Says(Unreadable, o, r) /\ Says(WrongGeneration, o, r)
  BY ClientAssumption DEF Says, ResultType
<1>2. Reads(r) /\ o \notin Writes /\ r.ok => Says(Result("Answered", "no"), o, r)
  BY ClientAssumption DEF Says, ResultType
<1>3. Says(Result("CouldNotAsk", "unknown"), o, r)
  BY ClientAssumption DEF Says, ResultType
<1>4. r.form # "value" \/ r.generation = "none"  BY DEF Replies
<1>5. o \in Writes => Says(kept_ask_decision(r), o, r)
  <2>1. CASE echoed_generation(r)
    BY <1>1, <2>1 DEF kept_ask_decision
  <2>2. CASE ~ echoed_generation(r) /\ r.ok
    <3>1. r.generation # "other"  BY <1>4, <2>2 DEF echoed_generation
    <3>2. Says(read_decision(r), o, r)  BY <2>2, <3>1, DecisionSays
    <3> QED  BY <2>2, <3>2 DEF kept_ask_decision
  <2>3. CASE ~ echoed_generation(r) /\ ~ r.ok
    <3>1. Says(classify(r), o, r)  BY <2>3, ClassifySays
    <3> QED  BY <2>3, <3>1 DEF kept_ask_decision
  <2> QED  BY <2>1, <2>2, <2>3
<1>6. o \notin Writes => Says(kept_document_answer(r), o, r)
  <2> SUFFICES ASSUME o \notin Writes PROVE Says(kept_document_answer(r), o, r)  OBVIOUS
  <2>1. CASE echoed_generation(r)
    BY <1>1, <2>1 DEF kept_document_answer
  <2>2. CASE ~ echoed_generation(r) /\ ~ r.ok
    <3>1. Says(classify(r), o, r)  BY <2>2, ClassifySays
    <3> QED  BY <2>2, <3>1 DEF kept_document_answer
  <2>3. CASE ~ echoed_generation(r) /\ r.ok
    <3>1. kept_document_answer(r) = IF Reads(r) THEN Result("Answered", "no") ELSE Unreadable
      BY <2>3 DEF kept_document_answer
    <3> QED  BY <1>1, <1>2, <2>3, <3>1
  <2> QED  BY <2>1, <2>2, <2>3
<1>7. o \notin Writes => Says(kept_evidence_read(r), o, r)
  <2> SUFFICES ASSUME o \notin Writes PROVE Says(kept_evidence_read(r), o, r)  OBVIOUS
  <2>1. CASE ~ r.ok
    <3>1. Says(classify(r), o, r)  BY <2>1, ClassifySays
    <3>2. kept_evidence_read(r) = IF echoed_generation(r) THEN WrongGeneration ELSE classify(r)
      BY <2>1 DEF kept_evidence_read
    <3> QED  BY <1>1, <3>1, <3>2
  <2>2. CASE r.ok
    <3>1. Says(Result("Answered", "no"), o, r)  BY ClientAssumption DEF Says, ResultType
    <3>2. kept_evidence_read(r) \in {Unreadable, Result("Answered", "no"), WrongGeneration}
      BY <2>2 DEF kept_evidence_read
    <3> QED  BY <1>1, <3>1, <3>2
  <2> QED  BY <2>1, <2>2
<1>8. Says(fresh_interpret(o, r), o, r)
  <2>1. CASE r.generation = "none"
    BY <1>1, <2>1 DEF fresh_interpret
  <2>2. CASE ~ r.ok /\ r.generation # "none"
    <3>1. Says(read_problem(r), o, r)  BY <2>2, ClassifySays
    <3>2. fresh_interpret(o, r) \in
            {WrongGeneration, read_problem(r), Result("CouldNotAsk", "unknown")}
      BY <2>2 DEF fresh_interpret
    <3> QED  BY <1>1, <1>3, <3>1, <3>2
  <2>3. CASE r.ok /\ r.generation = "other"
    <3>1. o # "status" => fresh_interpret(o, r) = WrongGeneration
      BY <2>3 DEF fresh_interpret
    <3>2. o = "status" => o \notin Writes  BY DEF Writes
    <3>3. o = "status" =>
            fresh_interpret(o, r) = IF Reads(r) THEN Result("Answered", "no") ELSE Unreadable
      BY <2>3, <3>2 DEF fresh_interpret
    <3> QED  BY <1>1, <1>2, <2>3, <3>1, <3>2, <3>3
  <2>4. CASE r.ok /\ r.generation = "this"
    <3>1. o \in Writes => fresh_interpret(o, r) = read_decision(r)
      BY <2>4 DEF fresh_interpret
    <3>2. Says(read_decision(r), o, r)  BY <2>4, DecisionSays
    <3>3. o \notin Writes =>
            fresh_interpret(o, r) = IF Reads(r) THEN Result("Answered", "no") ELSE Unreadable
      BY <2>4 DEF fresh_interpret
    <3> QED  BY <1>1, <1>2, <2>4, <3>1, <3>2, <3>3
  <2>5. r.generation \in {"this", "other", "none"} /\ r.ok \in BOOLEAN  BY DEF Replies
  <2> QED  BY <2>1, <2>2, <2>3, <2>4, <2>5
<1>9. o = "evidence" => Says(fresh_evidence_read(r), o, r)
  <2> SUFFICES ASSUME o = "evidence" PROVE Says(fresh_evidence_read(r), o, r)  OBVIOUS
  <2>1. CASE ~ r.ok
    <3>1. fresh_evidence_read(r) = fresh_interpret("evidence", r)
      BY <2>1 DEF fresh_evidence_read
    <3> QED  BY <1>8, <3>1
  <2>2. CASE r.ok
    <3>1. "evidence" \notin Writes  BY DEF Writes
    <3>2. Says(Result("Answered", "no"), o, r)  BY <3>1, ClientAssumption DEF Says, ResultType
    <3>3. fresh_evidence_read(r) \in {Result("Answered", "no"), WrongGeneration}
      BY <2>2 DEF fresh_evidence_read
    <3> QED  BY <1>1, <3>2, <3>3
  <2> QED  BY <2>1, <2>2
<1>10. Reading(o, r) = Unreadable \/ Says(Reading(o, r), o, r)
  <2>1. o \in {"status", "read", "evidence"} => o \notin Writes  BY DEF Writes
  <2>2. o \notin {"status", "read", "evidence"} => o \in Writes  BY DEF Writes, Ops
  <2>3. CASE r.form = "unparsed" \/ (client = "fresh" /\ r.form = "value")
    BY <2>3 DEF Reading
  <2>4. CASE client = "kept" /\ r.form # "unparsed"
    <3>1. o = "status" => Reading(o, r) = kept_document_answer(r)
      BY <2>4 DEF Reading, kept_read_status
    <3>2. o = "read" => Reading(o, r) = kept_document_answer(r)
      BY <2>4 DEF Reading
    <3>3. o = "evidence" => Reading(o, r) = kept_evidence_read(r)
      BY <2>4 DEF Reading
    <3>4. o \notin {"status", "read", "evidence"} => Reading(o, r) = kept_ask_decision(r)
      BY <2>4 DEF Reading
    <3> QED  BY <1>5, <1>6, <1>7, <2>1, <2>2, <3>1, <3>2, <3>3, <3>4
  <2>5. CASE client = "fresh" /\ r.form # "unparsed" /\ r.form # "value"
    <3>1. Reading(o, r) = IF o = "evidence" THEN fresh_evidence_read(r) ELSE fresh_interpret(o, r)
      BY <2>5 DEF Reading
    <3> QED  BY <1>8, <1>9, <3>1
  <2> QED  BY <2>3, <2>4, <2>5
<1> QED  BY <1>1, <1>10

-----------------------------------------------------------------------------
(* Types, a group of variables at a time.                                  *)
ConnType ==
  [open: BOOLEAN, far: Uids \cup {NoOne}, expected: Uids \cup {NoOne},
   named: Uids \cup {NoOne}, state: {"Idle", "Request-sent"},
   unread: 0..MaxRequests, first: 0..(MaxRequests + 1)]
ReplyType == [id: Ids, http: BOOLEAN, body: Replies \cup {Coming}]
Finished == IF call = "none" THEN asked ELSE asked - 1

HostTypes ==
  /\ client \in {"kept", "fresh"} /\ mode \in {"per_user", "system"}
  /\ listener \in Uids \cup {NoOne} /\ account \in Uids \cup {NoOne}
  /\ moves \in 0..MaxMoves /\ opens \in 0..MaxOpens
OutTypes == out \in Seq(ReplyType) /\ gone \in BOOLEAN
CallTypes ==
  /\ call \in {"none", "sent", "reading"}
  /\ op \in Ops \cup {"none"} /\ asked \in 0..MaxRequests /\ writes \subseteq 1..asked
  /\ waiting \subseteq 1..asked /\ acted \subseteq 1..asked
ResultTypes == results \in [1..Finished -> ResultType]
HeardTypes == heard \subseteq Uids \X (Uids \cup {NoOne})

(* Together they are the types of the client.                              *)
LEMMA Groups ==
  TypeOK <=> HostTypes /\ conn \in ConnType /\ OutTypes /\ CallTypes /\ ResultTypes /\ HeardTypes
BY DEF TypeOK, HostTypes, ConnType, OutTypes, ReplyType, CallTypes, ResultTypes, Finished, HeardTypes

-----------------------------------------------------------------------------
(* How a call ends: with nothing obtained and the connection as it was or  *)
(* closed, or with what the reply in hand says.                            *)
Ending(c, r, reply, rest) ==
  /\ EndCall(c, r, reply, rest) /\ call # "none"
  /\ r \in ResultType
  /\ \/ c = conn /\ rest = out
     \/ c = [Closed EXCEPT !.expected = conn.expected] /\ rest = <<>>
     \/ c = [conn EXCEPT !.unread = 0] /\ rest = Tail(out) /\ call = "reading"
  /\ \/ reply = 0 /\ r.kind = "CouldNotAsk" /\ (r.retryable = "yes" => op \notin Writes)
     \/ /\ call = "reading" /\ reply = Head(out).id /\ Head(out).body # Coming
        /\ Says(r, op, Head(out).body)

Ended == \E c, r, reply, rest : Ending(c, r, reply, rest)

(* What is said of a reply that was not obtained.                          *)
LEMMA NotObtained ==
  /\ Lost(op) \in ResultType /\ Lost(op).kind = "CouldNotAsk"
  /\ Lost(op).retryable = "yes" => op \notin Writes
  /\ Broken \in ResultType /\ Broken.kind = "CouldNotAsk"
  /\ Broken.retryable = "yes" => op \notin Writes
BY Problems, ClientAssumption DEF Result, ResultType, Broken

(* Every way a call ends is one of these.                                  *)
LEMMA Endings ==
  ASSUME HostTypes, OutTypes, CallShape, StreamShape,
         (GetResponse /\ call' = "none") \/ ResponseNotReady \/ Disconnected \/ TimesOut \/ ReadBody
  PROVE  Ended
<1>1. CASE GetResponse /\ call' = "none"
  <2>1. EndCall(conn, Broken, 0, out) /\ call # "none"  BY <1>1 DEF GetResponse
  <2> QED  BY <2>1, NotObtained DEF Ended, Ending
<1>2. CASE ResponseNotReady
  <2>1. EndCall(conn, Lost(op), 0, out) /\ call # "none"  BY <1>2 DEF ResponseNotReady
  <2> QED  BY <2>1, NotObtained DEF Ended, Ending
<1>3. CASE Disconnected
  <2>1. EndCall([Closed EXCEPT !.expected = conn.expected], Lost(op), 0, <<>>) /\ call # "none"
    BY <1>3 DEF Disconnected
  <2> QED  BY <2>1, NotObtained DEF Ended, Ending
<1>4. CASE TimesOut
  <2>1. EndCall(conn, Lost(op), 0, out) /\ call # "none"  BY <1>4 DEF TimesOut
  <2> QED  BY <2>1, NotObtained DEF Ended, Ending
<1>5. CASE ReadBody
  <2>1. call = "reading"  BY <1>5 DEF ReadBody
  <2>2. op \in Ops /\ Head(out) \in ReplyType
    <3>1. op \in Ops /\ Len(out) = 1 /\ out \in Seq(ReplyType)
      BY <2>1 DEF CallShape, StreamShape, OutTypes
    <3> QED  BY <3>1
  <2>3. CASE EndCall([conn EXCEPT !.unread = 0], Broken, 0, Tail(out))
    BY <2>1, <2>3, NotObtained DEF Ended, Ending
  <2>4. CASE /\ Head(out).body # Coming
             /\ EndCall([conn EXCEPT !.unread = 0], Reading(op, Head(out).body), Head(out).id,
                        Tail(out))
    <3>1. Head(out).body \in Replies  BY <2>2, <2>4 DEF ReplyType
    <3>2. Says(Reading(op, Head(out).body), op, Head(out).body)
      BY <2>2, <3>1, ReadingSays DEF HostTypes
    <3>3. Reading(op, Head(out).body) \in ResultType  BY <3>2 DEF Says
    <3>4. Ending([conn EXCEPT !.unread = 0], Reading(op, Head(out).body), Head(out).id, Tail(out))
      BY <2>1, <2>4, <3>2, <3>3 DEF Ending
    <3> QED  BY <3>4 DEF Ended
  <2> QED  BY <1>5, <2>3, <2>4 DEF ReadBody
<1> QED  BY <1>1, <1>2, <1>3, <1>4, <1>5

(* The head of a reply has come: its body is waited for.                   *)
Heads ==
  /\ call = "sent" /\ conn.unread = 0 /\ out # <<>> /\ call' = "reading"
  /\ conn' = [conn EXCEPT !.state = "Idle", !.unread = Head(out).id]
  /\ UNCHANGED <<client, mode, host, opens, out, gone, op, asked, writes, waiting,
                 acted, results, heard>>

(* A step is one of these.                                                 *)
LEMMA StepCases ==
  ASSUME [Next]_vars, HostTypes, OutTypes, CallShape, StreamShape
  PROVE  \/ \E e \in BOOLEAN : Connect(e)
         \/ \E o \in Ops : KeptRefusal(o)
         \/ \E o \in Ops, w \in BOOLEAN : KeptRequest(o, w)
         \/ \E o \in Ops, e, w \in BOOLEAN : FreshRequest(o, e, w)
         \/ Heads \/ Ended
         \/ \E id \in Ids, acts, http \in BOOLEAN : Serve(id, acts, http)
         \/ \E id \in Ids, acts \in BOOLEAN : ServeNobody(id, acts)
         \/ \E r \in Replies : WriteBody(r)
         \/ HangUp \/ Move \/ UNCHANGED vars
<1>1. GetResponse => Heads \/ (GetResponse /\ call' = "none")
  BY DEF GetResponse, Heads, EndCall
<1> QED  BY <1>1, Endings DEF Next

-----------------------------------------------------------------------------
(* A stream is opened only to whom the profile names.                      *)
Verified(c) ==
  /\ c = Stream(asked + 1)
  /\ c.open /\ c.state = "Idle" /\ c.unread = 0 /\ c.first = asked + 1
  /\ c.far = c.named /\ c.far # NoOne /\ c \in ConnType

(* What open_verified returns is such a stream.                            *)
LEMMA OpenedVerified ==
  ASSUME HostTypes, CallTypes, NEW e \in BOOLEAN, Opened(e) = "verified"
  PROVE  Verified(Stream(asked + 1))
<1>1. listener = expected_principal_uid /\ listener # NoOne
  BY DEF Opened
<1>2. expected_principal_uid = IF mode = "system" THEN account ELSE Daemon
  BY DEF expected_principal_uid
<1>3. asked + 1 \in 0..(MaxRequests + 1) /\ 0 \in 0..MaxRequests
  BY ClientAssumption DEF CallTypes
<1> QED
  BY <1>1, <1>2, <1>3 DEF Verified, Stream, ConnType, HostTypes, Uids

(* A request is made.  It leaves on the connection kept or on one of its   *)
(* own, or the caller is told at once that it did not.                     *)
NotSent ==
  /\ \E r \in ResultType : r.kind = "CouldNotAsk" /\ Told(r, 0)
  /\ UNCHANGED <<call, op, waiting>>
OnItsWay(o) ==
  /\ call' = "sent" /\ op' = o /\ waiting' = waiting \cup {asked + 1}
  /\ UNCHANGED results

Leaves(o, c) ==
  /\ \/ c = conn /\ UNCHANGED <<out, gone>>
     \/ Verified(c) /\ out' = <<>> /\ gone' = FALSE
  /\ conn' = [c EXCEPT !.state = "Request-sent"]
  /\ \/ UNCHANGED heard /\ NotSent
     \/ /\ c.open /\ c.state = "Idle" /\ heard' = heard \cup {<<c.far, c.named>>}
        /\ NotSent \/ OnItsWay(o)

Stays == UNCHANGED <<conn, heard>> /\ out' = <<>> /\ gone' = FALSE /\ NotSent

Requested(o) ==
  /\ o \in Ops /\ Ask(o) /\ UNCHANGED <<client, mode, host, opens, acted>>
  /\ Stays \/ \E c : Leaves(o, c)

(* Every request is one of these.                                          *)
LEMMA Requesting ==
  ASSUME HostTypes, CallTypes, NEW o \in Ops, NEW w \in BOOLEAN, NEW e \in BOOLEAN,
         KeptRefusal(o) \/ KeptRequest(o, w) \/ FreshRequest(o, e, w)
  PROVE  Requested(o)
<1>0. /\ Unsent \in ResultType /\ Unsent.kind = "CouldNotAsk"
      /\ \A code : problem(code, TRUE).kind = "CouldNotAsk" /\ problem(code, TRUE) \in ResultType
  <2>1. Unsent \in ResultType /\ Unsent.kind = "CouldNotAsk"
    BY Problems, ClientAssumption DEF Result, ResultType
  <2> QED  BY <2>1, Problems, Zenon
<1>1. CASE KeptRefusal(o)
  <2>1. NotSent  BY <1>0, <1>1 DEF KeptRefusal, NotSent
  <2>2. Leaves(o, conn)  BY <1>1, <2>1 DEF KeptRefusal, Leaves
  <2> QED  BY <1>1, <2>2 DEF KeptRefusal, Requested
<1>2. CASE KeptRequest(o, w)
  <2>1. NotSent \/ OnItsWay(o)
    BY <1>0, <1>2 DEF KeptRequest, Sends, NotSent, OnItsWay
  <2>2. Leaves(o, conn)  BY <1>2, <2>1 DEF KeptRequest, Sends, Leaves
  <2> QED  BY <1>2, <2>2 DEF KeptRequest, Requested
<1>3. CASE FreshRequest(o, e, w)
  <2>1. CASE Opened(e) = "verified"
    <3>1. Sends(o, Stream(asked + 1), w) /\ Verified(Stream(asked + 1))
      BY <1>3, <2>1, OpenedVerified DEF FreshRequest
    <3>2. NotSent \/ OnItsWay(o)  BY <1>0, <3>1 DEF Sends, NotSent, OnItsWay
    <3>3. Stream(asked + 1).open /\ Stream(asked + 1).state = "Idle"  BY <3>1 DEF Verified
    <3>4. Leaves(o, Stream(asked + 1))
      BY <1>3, <3>1, <3>2, <3>3 DEF FreshRequest, Sends, Leaves
    <3> QED  BY <1>3, <3>4 DEF FreshRequest, Requested
  <2>2. CASE Opened(e) # "verified"
    <3>1. Told(problem(Opened(e), TRUE), 0) /\ UNCHANGED <<conn, heard, call, op, waiting>>
      BY <1>3, <2>2 DEF FreshRequest
    <3>2. NotSent  BY <1>0, <3>1 DEF NotSent
    <3> QED  BY <1>3, <3>1, <3>2 DEF FreshRequest, Stays, Requested
  <2> QED  BY <2>1, <2>2
<1> QED  BY <1>1, <1>2, <1>3

(* connect leaves a verified stream or none.                               *)
Reconnected ==
  /\ call = "none"
  /\ Verified(conn') \/ conn' = [Closed EXCEPT !.expected = conn.expected]
  /\ out' = <<>> /\ gone' = FALSE
  /\ UNCHANGED <<client, mode, host, call, op, asked, writes, waiting, acted, results, heard>>
  /\ opens' \in 0..MaxOpens

(* That is what every connect and reconnect does.                          *)
LEMMA Connecting ==
  ASSUME HostTypes, CallTypes, NEW e \in BOOLEAN, Connect(e)
  PROVE  Reconnected
<1>1. opens' \in 0..MaxOpens  BY ClientAssumption DEF Connect, HostTypes
<1>2. CASE Opened(e) = "verified"
  <2>1. conn' = Stream(asked + 1)  BY <1>2 DEF Connect
  <2>2. Verified(Stream(asked + 1))  BY <1>2, OpenedVerified
  <2>3. Verified(conn')  BY <2>1, <2>2
  <2> QED  BY <1>1, <2>3 DEF Connect, Reconnected
<1>3. CASE Opened(e) # "verified"
  BY <1>1, <1>3 DEF Connect, Reconnected
<1> QED  BY <1>2, <1>3

(* The caller is told one thing more.                                      *)
LEMMA Telling ==
  ASSUME ResultTypes, CallTypes, CallShape,
         NEW r \in ResultType, NEW reply \in 0..MaxRequests, Told(r, reply)
  PROVE  LET n == Finished IN
         /\ n \in Nat /\ DOMAIN results = 1..n /\ DOMAIN results' = 1..(n + 1)
         /\ results' \in [1..(n + 1) -> ResultType]
         /\ results'[n + 1] = [r EXCEPT !.reply = reply]
         /\ \A id \in 1..n : results'[id] = results[id]
<1> DEFINE n == Finished
           t == [r EXCEPT !.reply = reply]
<1>1. n \in Nat
  <2>1. asked \in Nat  BY ClientAssumption DEF CallTypes
  <2>2. CASE call = "none"  BY <2>1, <2>2 DEF Finished
  <2>3. CASE call # "none"
    BY <2>1, <2>3 DEF Finished, CallShape
  <2> QED  BY <2>2, <2>3
<1>2. results \in [1..n -> ResultType]  BY DEF ResultTypes
<1>3. t \in ResultType  BY DEF ResultType
<1>4. results' = Append(results, t)  BY DEF Told
<1> HIDE DEF n, t
<1>5. results \in Seq(ResultType) /\ Len(results) = n /\ DOMAIN results = 1..n  BY <1>1, <1>2
<1>6. /\ results' \in Seq(ResultType) /\ Len(results') = n + 1
      /\ results'[n + 1] = t /\ \A id \in 1..n : results'[id] = results[id]
  BY <1>1, <1>3, <1>4, <1>5
<1>7. DOMAIN results' = 1..(n + 1) /\ results' \in [1..(n + 1) -> ResultType]  BY <1>6
<1> QED  BY <1>1, <1>5, <1>6, <1>7 DEF n, t

-----------------------------------------------------------------------------
(* The steps, by what they do.                                             *)
Taken == \E id \in Ids, acts, http \in BOOLEAN : Serve(id, acts, http)
TakenLate == \E id \in Ids, acts \in BOOLEAN : ServeNobody(id, acts)
Written == \E r \in Replies : WriteBody(r)
Asks == \E o \in Ops : Requested(o)
Outside == HangUp \/ Move \/ UNCHANGED vars

(* Every step is one of them.                                              *)
LEMMA StepKinds ==
  ASSUME [Next]_vars, HostTypes, OutTypes, CallTypes, CallShape, StreamShape
  PROVE  Reconnected \/ Asks \/ Heads \/ Ended \/ Taken \/ TakenLate \/ Written \/ Outside
<1>1. (\E e \in BOOLEAN : Connect(e)) => Reconnected  BY Connecting
<1>2. ASSUME NEW o \in Ops, KeptRefusal(o) PROVE Asks
  BY <1>2, Requesting DEF Asks
<1>3. ASSUME NEW o \in Ops, NEW w \in BOOLEAN, KeptRequest(o, w) PROVE Asks
  BY <1>3, Requesting DEF Asks
<1>4. ASSUME NEW o \in Ops, NEW e \in BOOLEAN, NEW w \in BOOLEAN, FreshRequest(o, e, w) PROVE Asks
  BY <1>4, Requesting DEF Asks
<1> QED
  BY <1>1, <1>2, <1>3, <1>4, StepCases DEF Taken, TakenLate, Written, Outside

(* The host keeps its types.                                               *)
LEMMA HostStep ==
  ASSUME HostTypes, OutTypes, CallTypes, CallShape, StreamShape, [Next]_vars
  PROVE  HostTypes'
<1>1. CASE Reconnected  BY <1>1 DEF Reconnected, host, HostTypes
<1>2. CASE Asks  BY <1>2 DEF Asks, Requested, host, HostTypes
<1>3. CASE Heads  BY <1>3 DEF Heads, host, HostTypes
<1>4. CASE Ended  BY <1>4 DEF Ended, Ending, EndCall, host, HostTypes
<1>5. CASE Taken  BY <1>5 DEF Taken, Serve, host, HostTypes
<1>6. CASE TakenLate  BY <1>6 DEF TakenLate, ServeNobody, host, HostTypes
<1>7. CASE Written  BY <1>7 DEF Written, WriteBody, host, HostTypes
<1>8. CASE HangUp \/ UNCHANGED vars  BY <1>8 DEF HangUp, host, vars, HostTypes
<1>9. CASE Move
  <2>1. moves' \in 0..MaxMoves  BY <1>9, ClientAssumption DEF Move, HostTypes
  <2> QED  BY <1>9, <2>1 DEF Move, HostTypes
<1> QED  BY <1>1, <1>2, <1>3, <1>4, <1>5, <1>6, <1>7, <1>8, <1>9, StepKinds DEF Outside

(* The connection keeps its type.                                          *)
LEMMA ConnStep ==
  ASSUME HostTypes, conn \in ConnType, OutTypes, CallTypes, CallShape, StreamShape, [Next]_vars
  PROVE  conn' \in ConnType
<1>0. [Closed EXCEPT !.expected = conn.expected] \in ConnType
  <2>1. conn.expected \in Uids \cup {NoOne}  BY DEF ConnType
  <2>2. 0 \in 0..MaxRequests /\ 0 \in 0..(MaxRequests + 1)  BY ClientAssumption
  <2> QED  BY <2>1, <2>2 DEF Closed, ConnType
<1>1. CASE Reconnected
  <2>1. Verified(conn') => conn' \in ConnType  BY DEF Verified
  <2> QED  BY <1>0, <1>1, <2>1 DEF Reconnected
<1>2. CASE Asks
  <2>1. ASSUME NEW c, conn' = [c EXCEPT !.state = "Request-sent"],
               c \in ConnType
        PROVE  conn' \in ConnType
    BY <2>1 DEF ConnType
  <2>2. ASSUME NEW o, NEW c, Leaves(o, c) PROVE conn' \in ConnType
    BY <2>1, <2>2 DEF Leaves, Verified
  <2> QED  BY <1>2, <2>2 DEF Asks, Requested, Stays
<1>3. CASE Heads
  <2>1. out \in Seq(ReplyType) /\ out # <<>>  BY <1>3 DEF Heads, OutTypes
  <2>2. Head(out) \in ReplyType  BY <2>1
  <2>3. Head(out).id \in 0..MaxRequests  BY <2>2, ClientAssumption DEF ReplyType, Ids
  <2> QED  BY <1>3, <2>3 DEF Heads, ConnType
<1>4. CASE Ended
  <2>1. ASSUME NEW c, NEW r, NEW reply, NEW rest, Ending(c, r, reply, rest) PROVE conn' \in ConnType
    <3>1. [conn EXCEPT !.unread = 0] \in ConnType  BY ClientAssumption DEF ConnType
    <3>2. c \in ConnType  BY <1>0, <2>1, <3>1 DEF Ending
    <3>3. Closed \in ConnType  BY ClientAssumption DEF Closed, ConnType
    <3> QED  BY <2>1, <3>2, <3>3 DEF Ending, EndCall
  <2> QED  BY <1>4, <2>1 DEF Ended
<1>5. CASE Taken \/ TakenLate \/ Written \/ Outside
  BY <1>5 DEF Taken, Serve, TakenLate, ServeNobody, Written, WriteBody, Outside, HangUp, Move, vars
<1> QED  BY <1>1, <1>2, <1>3, <1>4, <1>5, StepKinds

(* The stream keeps its type.                                              *)
LEMMA OutStep ==
  ASSUME HostTypes, OutTypes, CallTypes, CallShape, StreamShape, [Next]_vars
  PROVE  OutTypes'
<1>0. <<>> \in Seq(ReplyType)  OBVIOUS
<1>1. CASE Reconnected  BY <1>0, <1>1 DEF Reconnected, OutTypes
<1>2. CASE Asks  BY <1>0, <1>2 DEF Asks, Requested, Stays, Leaves, OutTypes
<1>3. CASE Heads  BY <1>3 DEF Heads, OutTypes
<1>4. CASE Ended
  <2>1. ASSUME NEW c, NEW r, NEW reply, NEW rest, Ending(c, r, reply, rest) PROVE OutTypes'
    <3>1. gone' \in BOOLEAN  BY <2>1 DEF Ending, EndCall, OutTypes
    <3>2. call = "reading" => Tail(out) \in Seq(ReplyType)
      <4>1. call = "reading" => Len(out) = 1  BY DEF StreamShape
      <4>2. out \in Seq(ReplyType)  BY DEF OutTypes
      <4> QED  BY <4>1, <4>2
    <3>3. rest \in Seq(ReplyType)  BY <1>0, <2>1, <3>2 DEF Ending, OutTypes
    <3>4. out' \in {rest, <<>>}  BY <2>1 DEF Ending, EndCall
    <3> QED  BY <1>0, <3>1, <3>3, <3>4 DEF OutTypes
  <2> QED  BY <1>4, <2>1 DEF Ended
<1>5. CASE Taken
  <2>1. PICK id \in Ids, acts \in BOOLEAN, http \in BOOLEAN : Serve(id, acts, http)
    BY <1>5 DEF Taken
  <2>2. [id |-> id, http |-> http, body |-> Coming] \in ReplyType  BY DEF ReplyType
  <2> QED  BY <2>1, <2>2 DEF Serve, OutTypes
<1>6. CASE Written
  <2>1. PICK r \in Replies : WriteBody(r)  BY <1>6 DEF Written
  <2>2. PICK i \in 1..Len(out) : out' = [out EXCEPT ![i].body = r]  BY <2>1 DEF WriteBody
  <2>3. out[i] \in ReplyType  BY <2>2 DEF OutTypes
  <2>4. [out[i] EXCEPT !.body = r] \in ReplyType  BY <2>3 DEF ReplyType
  <2>5. gone' = gone  BY <2>1 DEF WriteBody
  <2>6. out' = [out EXCEPT ![i] = [out[i] EXCEPT !.body = r]]  BY <2>2
  <2> QED  BY <2>4, <2>5, <2>6 DEF OutTypes
<1>7. CASE TakenLate \/ Outside
  BY <1>7 DEF TakenLate, ServeNobody, Outside, HangUp, Move, vars, OutTypes
<1> QED  BY <1>1, <1>2, <1>3, <1>4, <1>5, <1>6, <1>7, StepKinds

(* The request in hand keeps its types.                                    *)
LEMMA CallStep ==
  ASSUME HostTypes, OutTypes, CallTypes, CallShape, StreamShape, [Next]_vars
  PROVE  CallTypes'
<1>0. asked \in Nat /\ MaxRequests \in Nat  BY ClientAssumption DEF CallTypes
<1>1. CASE Reconnected  BY <1>1 DEF Reconnected, CallTypes
<1>2. CASE Asks
  <2>1. PICK o \in Ops : Requested(o)  BY <1>2 DEF Asks
  <2>2. /\ asked' = asked + 1 /\ asked' \in 0..MaxRequests
        /\ writes' \subseteq writes \cup {asked + 1} /\ acted' = acted
    BY <1>0, <2>1 DEF Requested, Ask, CallTypes
  <2>3. \/ UNCHANGED <<call, op, waiting>>
        \/ call' = "sent" /\ op' = o /\ waiting' = waiting \cup {asked + 1}
    BY <2>1 DEF Requested, Stays, Leaves, NotSent, OnItsWay
  <2>4. 1..asked \subseteq 1..asked' /\ asked + 1 \in 1..asked'  BY <1>0, <2>2
  <2>5. call' \in {"none", "sent", "reading"} /\ op' \in Ops \cup {"none"}
    BY <2>3 DEF CallTypes
  <2>6. writes' \subseteq 1..asked' /\ acted' \subseteq 1..asked'  BY <2>2, <2>4 DEF CallTypes
  <2>7. waiting' \subseteq 1..asked'  BY <2>3, <2>4 DEF CallTypes
  <2> QED  BY <2>2, <2>5, <2>6, <2>7 DEF CallTypes
<1>3. CASE Heads  BY <1>3 DEF Heads, CallTypes
<1>4. CASE Ended  BY <1>4 DEF Ended, Ending, EndCall, CallTypes
<1>5. CASE Taken  BY <1>5 DEF Taken, Serve, CallTypes
<1>6. CASE TakenLate  BY <1>6 DEF TakenLate, ServeNobody, CallTypes
<1>7. CASE Written \/ Outside
  BY <1>7 DEF Written, WriteBody, Outside, HangUp, Move, vars, CallTypes
<1> QED  BY <1>1, <1>2, <1>3, <1>4, <1>5, <1>6, <1>7, StepKinds

-----------------------------------------------------------------------------
(* What the caller is told: nothing, that its request never left, or what  *)
(* came of the one in hand.                                                *)
Unasked(r, reply) ==
  /\ call = "none" /\ asked' = asked + 1 /\ reply = 0 /\ r.kind = "CouldNotAsk"
  /\ UNCHANGED <<waiting, acted>>
Heard(r, reply) ==
  /\ call # "none" /\ asked' = asked /\ UNCHANGED <<waiting, acted, writes>>
  /\ \/ reply = 0 /\ r.kind = "CouldNotAsk" /\ (r.retryable = "yes" => op \notin Writes)
     \/ /\ call = "reading" /\ reply = Head(out).id /\ Head(out).body # Coming
        /\ Says(r, op, Head(out).body)

SameResults == UNCHANGED results /\ Finished' = Finished
NewResult(r, reply) ==
  /\ Told(r, reply) /\ Finished' = Finished + 1 /\ asked' = Finished + 1
  /\ Unasked(r, reply) \/ Heard(r, reply)

(* Every step tells it nothing, or one thing of one request.               *)
LEMMA Answering ==
  ASSUME HostTypes, OutTypes, CallTypes, CallShape, StreamShape, [Next]_vars
  PROVE  SameResults \/ \E r \in ResultType, reply \in 0..MaxRequests : NewResult(r, reply)
<1>0. asked \in Nat /\ MaxRequests \in Nat /\ 0 \in 0..MaxRequests
  BY ClientAssumption DEF CallTypes
<1>1. CASE Reconnected  BY <1>1 DEF Reconnected, SameResults, Finished
<1>2. CASE Asks
  <2>1. PICK o \in Ops : Requested(o)  BY <1>2 DEF Asks
  <2>2. call = "none" /\ asked' = asked + 1 /\ acted' = acted
    BY <2>1 DEF Requested, Ask
  <2>3. Finished = asked  BY <2>2 DEF Finished
  <2>4. CASE NotSent
    <3>1. Finished' = asked + 1  BY <2>2, <2>4 DEF NotSent, Finished
    <3>2. PICK r \in ResultType : r.kind = "CouldNotAsk" /\ Told(r, 0)  BY <2>4 DEF NotSent
    <3>3. NewResult(r, 0)
      BY <2>2, <2>3, <2>4, <3>1, <3>2 DEF NewResult, Unasked, NotSent
    <3> QED  BY <1>0, <3>3
  <2>5. CASE OnItsWay(o)
    <3>1. Finished' = asked
      <4>1. call' # "none"  BY <2>5 DEF OnItsWay
      <4> QED  BY <1>0, <2>2, <4>1 DEF Finished
    <3> QED  BY <2>3, <2>5, <3>1 DEF OnItsWay, SameResults
  <2> QED  BY <2>1, <2>4, <2>5 DEF Requested, Stays, Leaves
<1>3. CASE Heads  BY <1>3 DEF Heads, SameResults, Finished
<1>4. CASE Ended
  <2>1. PICK c, r, reply, rest : Ending(c, r, reply, rest)  BY <1>4 DEF Ended
  <2>2. /\ r \in ResultType /\ call # "none" /\ Told(r, reply) /\ call' = "none"
        /\ asked' = asked /\ UNCHANGED <<waiting, acted, writes>>
    BY <2>1 DEF Ending, EndCall
  <2>3. reply \in 0..MaxRequests
    <3>1. CASE reply = 0  BY <1>0, <3>1
    <3>2. CASE call = "reading" /\ reply = Head(out).id
      <4>1. Len(out) = 1 /\ out \in Seq(ReplyType)  BY <3>2 DEF StreamShape, OutTypes
      <4>2. Head(out) \in ReplyType  BY <4>1
      <4>3. Head(out).id \in Ids  BY <4>2 DEF ReplyType
      <4> QED  BY <1>0, <3>2, <4>3 DEF Ids
    <3> QED  BY <2>1, <3>1, <3>2 DEF Ending
  <2>4. Finished' = Finished + 1 /\ asked' = Finished + 1
    <3>1. Finished = asked - 1 /\ Finished' = asked  BY <2>2 DEF Finished
    <3> QED  BY <1>0, <2>2, <3>1
  <2>5. Heard(r, reply)
    <3>1. \/ reply = 0 /\ r.kind = "CouldNotAsk" /\ (r.retryable = "yes" => op \notin Writes)
          \/ /\ call = "reading" /\ reply = Head(out).id /\ Head(out).body # Coming
             /\ Says(r, op, Head(out).body)
      BY <2>1 DEF Ending
    <3> QED  BY <2>2, <3>1 DEF Heard
  <2>6. NewResult(r, reply)  BY <2>2, <2>4, <2>5 DEF NewResult
  <2> QED  BY <2>2, <2>3, <2>6
<1>5. CASE Taken  BY <1>5 DEF Taken, Serve, SameResults, Finished
<1>6. CASE TakenLate  BY <1>6 DEF TakenLate, ServeNobody, SameResults, Finished
<1>7. CASE Written \/ Outside
  BY <1>7 DEF Written, WriteBody, Outside, HangUp, Move, vars, SameResults, Finished
<1> QED  BY <1>1, <1>2, <1>3, <1>4, <1>5, <1>6, <1>7, StepKinds

(* What is told has its type.                                              *)
LEMMA ResultStep ==
  ASSUME HostTypes, OutTypes, CallTypes, ResultTypes, CallShape, StreamShape, [Next]_vars
  PROVE  ResultTypes'
<1>1. CASE SameResults  BY <1>1 DEF SameResults, ResultTypes
<1>2. ASSUME NEW r \in ResultType, NEW reply \in 0..MaxRequests, NewResult(r, reply)
      PROVE  ResultTypes'
  <2>1. Told(r, reply) /\ Finished' = Finished + 1  BY <1>2 DEF NewResult
  <2>2. results' \in [1..(Finished + 1) -> ResultType]  BY <2>1, Telling
  <2> QED  BY <2>1, <2>2 DEF ResultTypes
<1> QED  BY <1>1, <1>2, Answering

-----------------------------------------------------------------------------
(* Bytes go to whom the profile named.                                     *)
LEMMA ConnShapeStep ==
  ASSUME HostTypes, conn \in ConnType, OutTypes, CallTypes, HeardTypes,
         ConnShape, CallShape, StreamShape, [Next]_vars
  PROVE  ConnShape' /\ HeardTypes'
<1>0. Closed.far = Closed.named /\ ~ Closed.open  BY DEF Closed
<1>1. CASE Reconnected
  <2>1. heard' = heard  BY <1>1 DEF Reconnected
  <2>2. Verified(conn') => conn'.far = conn'.named /\ conn'.far # NoOne  BY DEF Verified
  <2>3. conn' = [Closed EXCEPT !.expected = conn.expected] =>
          conn'.far = conn'.named /\ ~ conn'.open
    BY DEF Closed
  <2>4. conn'.far = conn'.named /\ (conn'.open => conn'.far # NoOne)
    BY <1>1, <2>2, <2>3 DEF Reconnected
  <2> QED  BY <2>1, <2>4 DEF ConnShape, ImpostorGetsNothing, HeardTypes
<1>2. CASE Asks
  <2>1. PICK o \in Ops : Requested(o)  BY <1>2 DEF Asks
  <2>2. CASE Stays
    BY <2>2 DEF Stays, ConnShape, ImpostorGetsNothing, HeardTypes
  <2>3. ASSUME NEW c, Leaves(o, c) PROVE ConnShape' /\ HeardTypes'
    <3>1. c \in ConnType /\ c.far = c.named /\ (c.open => c.far # NoOne)
      BY <2>3 DEF Leaves, Verified, ConnShape
    <3>2. conn' = [c EXCEPT !.state = "Request-sent"]  BY <2>3 DEF Leaves
    <3>3. conn'.far = conn'.named /\ (conn'.open => conn'.far # NoOne)
      BY <3>1, <3>2 DEF ConnType
    <3>4. heard' = heard \/ (c.open /\ heard' = heard \cup {<<c.far, c.named>>})
      BY <2>3 DEF Leaves
    <3>5. c.open => c.far \in Uids /\ c.named \in Uids \cup {NoOne}
      BY <3>1 DEF ConnType
    <3> QED  BY <3>1, <3>3, <3>4, <3>5 DEF ConnShape, ImpostorGetsNothing, HeardTypes
  <2> QED  BY <2>1, <2>2, <2>3 DEF Requested
<1>3. CASE Heads
  <2>1. conn'.far = conn.far /\ conn'.named = conn.named /\ conn'.open = conn.open /\ heard' = heard
    BY <1>3 DEF Heads, ConnType
  <2> QED  BY <2>1 DEF ConnShape, ImpostorGetsNothing, HeardTypes
<1>4. CASE Ended
  <2>1. ASSUME NEW c, NEW r, NEW reply, NEW rest, Ending(c, r, reply, rest)
        PROVE  ConnShape' /\ HeardTypes'
    <3>1. heard' = heard /\ conn' \in {c, Closed}  BY <2>1 DEF Ending, EndCall
    <3>2. /\ [Closed EXCEPT !.expected = conn.expected].far = NoOne
          /\ [Closed EXCEPT !.expected = conn.expected].named = NoOne
          /\ ~ [Closed EXCEPT !.expected = conn.expected].open
      BY DEF Closed
    <3>3. /\ [conn EXCEPT !.unread = 0].far = conn.far
          /\ [conn EXCEPT !.unread = 0].named = conn.named
          /\ [conn EXCEPT !.unread = 0].open = conn.open
      BY DEF ConnType
    <3>4. c.far = c.named /\ (c.open => c.far # NoOne)
      BY <2>1, <3>2, <3>3 DEF Ending, ConnShape
    <3>5. conn'.far = conn'.named /\ (conn'.open => conn'.far # NoOne)
      BY <1>0, <3>1, <3>4
    <3> QED  BY <3>1, <3>5 DEF ConnShape, ImpostorGetsNothing, HeardTypes
  <2> QED  BY <1>4, <2>1 DEF Ended
<1>5. CASE Taken \/ TakenLate \/ Written \/ Outside
  <2>1. UNCHANGED <<conn, heard>>
    BY <1>5 DEF Taken, Serve, TakenLate, ServeNobody, Written, WriteBody, Outside, HangUp, Move, vars
  <2> QED  BY <2>1 DEF ConnShape, ImpostorGetsNothing, HeardTypes
<1> QED  BY <1>1, <1>2, <1>3, <1>4, <1>5, StepKinds

(* An act is carried out for a request that asked for one.                 *)
LEMMA CallShapeStep ==
  ASSUME HostTypes, OutTypes, CallTypes, CallShape, StreamShape, [Next]_vars
  PROVE  CallShape'
<1>0. asked \in Nat  BY ClientAssumption DEF CallTypes
<1>1. CASE Reconnected  BY <1>1 DEF Reconnected, CallShape
<1>2. CASE Asks
  <2>1. PICK o \in Ops : Requested(o)  BY <1>2 DEF Asks
  <2>2. /\ call = "none" /\ asked' = asked + 1 /\ acted' = acted
        /\ writes' = IF o \in Writes THEN writes \cup {asked + 1} ELSE writes
    BY <2>1 DEF Requested, Ask
  <2>3. asked' # 0 /\ asked' \notin writes  BY <1>0, <2>2 DEF CallTypes
  <2>4. acted' \subseteq writes'  BY <2>2 DEF CallShape
  <2>5. (call' = "none" /\ call' = call) \/ op' = o
    BY <2>1, <2>2 DEF Requested, Stays, Leaves, NotSent, OnItsWay
  <2>6. o \in Writes <=> asked' \in writes'  BY <2>2, <2>3
  <2> QED  BY <2>3, <2>4, <2>5, <2>6 DEF CallShape
<1>3. CASE Heads  BY <1>3 DEF Heads, CallShape
<1>4. CASE Ended  BY <1>4 DEF Ended, Ending, EndCall, CallShape
<1>5. CASE Taken  BY <1>5 DEF Taken, Serve, CallShape
<1>6. CASE TakenLate  BY <1>6 DEF TakenLate, ServeNobody, CallShape
<1>7. CASE Written \/ Outside
  BY <1>7 DEF Written, WriteBody, Outside, HangUp, Move, vars, CallShape
<1> QED  BY <1>1, <1>2, <1>3, <1>4, <1>5, <1>6, <1>7, StepKinds

-----------------------------------------------------------------------------
(* The last element of a sequence.                                         *)
LEMMA OneLeft ==
  ASSUME NEW S, NEW s \in Seq(S), s # <<>>, Len(s) <= 1
  PROVE  Len(s) = 1 /\ 1 \in DOMAIN s /\ Head(s) = s[1] /\ Tail(s) = <<>>
<1>1. Len(s) \in Nat \ {0}  BY EmptySeq
<1>2. Len(s) = 1 /\ 1 \in DOMAIN s  BY <1>1
<1>3. Tail(s) \in Seq(S) /\ Len(Tail(s)) = 0  BY <1>2
<1>4. Tail(s) = <<>>  BY <1>3, EmptySeq
<1> QED  BY <1>2, <1>4

(* A connection that may send is clean.                                    *)
LEMMA AskingStream ==
  ASSUME CallTypes, conn \in ConnType, StreamShape, NEW o, Requested(o)
  PROVE  StreamShape'
<1>0. asked \in Nat  BY ClientAssumption DEF CallTypes
<1>1. call = "none" /\ asked' = asked + 1  BY DEF Requested, Ask
<1>2. CASE Stays
  <2>1. call' = "none" /\ waiting' = waiting /\ conn' = conn /\ out' = <<>>
    BY <1>1, <1>2 DEF Stays, NotSent
  <2>2. Underway' = Underway  BY <2>1 DEF Underway
  <2> QED  BY <1>1, <2>1, <2>2 DEF StreamShape
<1>3. ASSUME NEW c, Leaves(o, c) PROVE StreamShape'
  <2>1. c \in ConnType  BY <1>3 DEF Leaves, Verified
  <2>2. /\ conn'.state = "Request-sent" /\ conn'.open = c.open /\ conn'.unread = c.unread
        /\ conn'.first = c.first
    BY <1>3, <2>1 DEF Leaves, ConnType
  <2>3. CASE NotSent
    BY <1>1, <2>2, <2>3 DEF NotSent, StreamShape
  <2>4. CASE OnItsWay(o) /\ c.open /\ c.state = "Idle"
    <3>1. call' = "sent" /\ waiting' = waiting \cup {asked + 1}  BY <2>4 DEF OnItsWay
    <3>2. c.unread = 0 => out' = <<>> /\ \A id \in waiting : ~ (c.first <= id)
      <4>1. CASE c = conn /\ UNCHANGED <<out, gone>>
        BY <1>1, <2>4, <4>1 DEF StreamShape, Underway
      <4>2. CASE Verified(c) /\ out' = <<>>
        <5>1. c.first = asked + 1  BY <4>2 DEF Verified
        <5>2. \A id \in waiting : id \in Nat /\ id <= asked  BY <1>0 DEF CallTypes
        <5> QED  BY <1>0, <4>2, <5>1, <5>2
      <4> QED  BY <1>3, <4>1, <4>2 DEF Leaves
    <3>3. c.unread = 0 => out' = <<>> /\ Underway' \subseteq {asked'}
      BY <1>1, <2>2, <3>1, <3>2 DEF Underway
    <3> QED  BY <2>2, <2>4, <3>1, <3>3 DEF StreamShape
  <2> QED  BY <1>3, <2>3, <2>4 DEF Leaves
<1> QED  BY <1>2, <1>3 DEF Requested

(* A call that ends leaves the stream clean, or closed to requests.        *)
LEMMA EndingStream ==
  ASSUME conn \in ConnType, CallTypes, OutTypes, StreamShape, Ended
  PROVE  StreamShape'
<1>1. PICK c, r, reply, rest : Ending(c, r, reply, rest)  BY DEF Ended
<1>2. /\ call # "none" /\ call' = "none" /\ waiting' = waiting
      /\ conn' = (IF client = "kept" THEN c ELSE Closed)
      /\ out' = (IF client = "kept" /\ c.open THEN rest ELSE <<>>)
  BY <1>1 DEF Ending, EndCall
<1>3. ~ Closed.open /\ ~ [Closed EXCEPT !.expected = conn.expected].open  BY DEF Closed
<1>4. CASE ~ conn'.open  BY <1>2, <1>4 DEF StreamShape
<1>5. CASE conn'.open
  <2>1. conn' = c /\ out' = rest /\ c.open  BY <1>2, <1>3, <1>5
  <2>2. CASE c = conn
    <3>1. ~ (conn.state = "Idle" /\ conn.unread = 0)
      BY <1>2 DEF CallTypes, StreamShape
    <3> QED
      BY <1>2, <2>1, <2>2, <3>1 DEF StreamShape
  <2>3. CASE c = [conn EXCEPT !.unread = 0] /\ rest = Tail(out) /\ call = "reading"
    <3>1. Len(out) = 1 /\ out \in Seq(ReplyType) /\ Underway = {}
      BY <2>3 DEF StreamShape, OutTypes
    <3>2. Tail(out) = <<>>
      <4>1. out # <<>> /\ Len(out) <= 1  BY <3>1
      <4> QED  BY <3>1, <4>1, OneLeft
    <3>3. c.first = conn.first  BY <2>3 DEF ConnType
    <3>4. Underway' = {}  BY <1>2, <2>1, <3>1, <3>3 DEF Underway
    <3> QED  BY <1>2, <2>1, <2>3, <3>2, <3>4 DEF StreamShape
  <2> QED  BY <1>1, <1>3, <2>1, <2>2, <2>3 DEF Ending
<1> QED  BY <1>4, <1>5

(* What the far end takes up, writes or leaves.                            *)
LEMMA FarStream ==
  ASSUME HostTypes, conn \in ConnType, OutTypes, CallTypes, CallShape, StreamShape,
         Taken \/ TakenLate \/ Written \/ Outside
  PROVE  StreamShape'
<1>1. CASE Taken
  <2>1. PICK id \in Ids, acts \in BOOLEAN, http \in BOOLEAN : Serve(id, acts, http)
    BY <1>1 DEF Taken
  <2> DEFINE reply == [id |-> id, http |-> http, body |-> Coming]
  <2>2. /\ id \in waiting /\ conn.first <= id /\ conn.open
        /\ waiting' = waiting \ {id} /\ out' = Append(out, reply)
        /\ UNCHANGED <<conn, call, asked>>
    BY <2>1 DEF Serve, OnStream
  <2>3. id \in Underway /\ Underway' = Underway \ {id}  BY <2>2 DEF Underway
  <2>4. call # "none" => call = "sent"
    BY <2>3 DEF CallTypes, StreamShape
  <2>5. CASE call = "sent" /\ conn.unread = 0
    <3>1. id = asked /\ out = <<>> /\ Underway' = {}
      BY <2>3, <2>5 DEF StreamShape
    <3>2. Len(out') = 1 /\ DOMAIN out' = 1..1 /\ out'[1].id = asked
      BY <2>2, <3>1
    <3>3. \A i \in DOMAIN out' : out'[i].id = asked'
      BY <2>2, <3>2
    <3> QED  BY <2>2, <2>5, <3>1, <3>2, <3>3 DEF StreamShape
  <2>6. CASE ~ (call = "sent" /\ conn.unread = 0)
    BY <2>2, <2>3, <2>4, <2>6 DEF StreamShape
  <2> QED  BY <2>5, <2>6
<1>2. CASE TakenLate
  <2>1. PICK id \in Ids, acts \in BOOLEAN : ServeNobody(id, acts)  BY <1>2 DEF TakenLate
  <2>2. waiting' = waiting \ {id} /\ UNCHANGED <<conn, call, asked, out>>
    BY <2>1 DEF ServeNobody
  <2>3. Underway' \subseteq Underway  BY <2>2 DEF Underway
  <2> QED  BY <2>2, <2>3 DEF StreamShape
<1>3. CASE Written
  <2>1. PICK r \in Replies : WriteBody(r)  BY <1>3 DEF Written
  <2>2. PICK i \in 1..Len(out) : out' = [out EXCEPT ![i].body = r]  BY <2>1 DEF WriteBody
  <2>3. UNCHANGED <<conn, call, asked, waiting>>  BY <2>1 DEF WriteBody
  <2>4. /\ DOMAIN out' = DOMAIN out /\ Len(out') = Len(out) /\ out # <<>>
        /\ \A j \in DOMAIN out : out'[j].id = out[j].id
    BY <2>2 DEF OutTypes, ReplyType
  <2>5. Underway' = Underway  BY <2>3 DEF Underway
  <2>6. call = "reading" => out'[1].id = out[1].id
    <3>1. call = "reading" => Len(out) = 1  BY DEF StreamShape
    <3>2. call = "reading" => 1 \in DOMAIN out  BY <3>1 DEF OutTypes
    <3> QED  BY <2>4, <3>2
  <2>7. ~ (call = "none" /\ conn.open /\ conn.state = "Idle" /\ conn.unread = 0)
    BY <2>4 DEF StreamShape
  <2>8. CASE call = "none"  BY <2>3, <2>7, <2>8 DEF StreamShape
  <2>9. CASE call = "sent"  BY <2>3, <2>4, <2>5, <2>9 DEF StreamShape
  <2>10. CASE call = "reading"  BY <2>3, <2>4, <2>5, <2>6, <2>10 DEF StreamShape
  <2> QED  BY <2>8, <2>9, <2>10 DEF CallTypes
<1>4. CASE Outside
  <2>1. UNCHANGED <<conn, call, asked, waiting, out>>
    BY <1>4 DEF Outside, HangUp, Move, vars
  <2>2. Underway' = Underway  BY <2>1 DEF Underway
  <2> QED  BY <2>1, <2>2 DEF StreamShape
<1> QED  BY <1>1, <1>2, <1>3, <1>4

(* A connection whose answer did not come in time is not used again.       *)
LEMMA StreamStep ==
  ASSUME HostTypes, conn \in ConnType, OutTypes, CallTypes, CallShape, StreamShape, [Next]_vars
  PROVE  StreamShape'
<1>1. CASE Reconnected
  <2>1. call' = "none" /\ out' = <<>> /\ waiting' = waiting  BY <1>1 DEF Reconnected
  <2>2. CASE Verified(conn')
    <3>1. conn'.first = asked + 1  BY <2>2 DEF Verified
    <3>2. \A id \in waiting : id \in Nat /\ id <= asked /\ asked \in Nat
      BY ClientAssumption DEF CallTypes
    <3>3. Underway' = {}  BY <2>1, <3>1, <3>2 DEF Underway
    <3> QED  BY <2>1, <3>3 DEF StreamShape
  <2>3. CASE conn' = [Closed EXCEPT !.expected = conn.expected]
    <3>1. ~ conn'.open  BY <2>3 DEF Closed
    <3> QED  BY <2>1, <3>1 DEF StreamShape
  <2> QED  BY <1>1, <2>2, <2>3 DEF Reconnected
<1>2. CASE Asks  BY <1>2, AskingStream DEF Asks
<1>3. CASE Heads
  <2>1. /\ call = "sent" /\ conn.unread = 0 /\ out # <<>> /\ call' = "reading"
        /\ conn' = [conn EXCEPT !.state = "Idle", !.unread = Head(out).id]
        /\ UNCHANGED <<out, asked, waiting>>
    BY <1>3 DEF Heads
  <2>2. Len(out) = 1 /\ out[1].id = asked /\ Underway = {} /\ conn.open
    <3>1. Len(out) <= 1 /\ (\A i \in DOMAIN out : out[i].id = asked) /\ Underway = {} /\ conn.open
      BY <2>1 DEF StreamShape
    <3>2. out \in Seq(ReplyType)  BY DEF OutTypes
    <3>3. Len(out) = 1 /\ 1 \in DOMAIN out  BY <2>1, <3>1, <3>2, OneLeft
    <3> QED  BY <3>1, <3>3
  <2>3. Head(out).id = asked
    <3>1. Head(out) = out[1]  BY <2>1 DEF OutTypes
    <3> QED  BY <2>2, <3>1
  <2>4. /\ conn'.state = "Idle" /\ conn'.unread = asked /\ conn'.open = conn.open
        /\ conn'.first = conn.first
    BY <2>1, <2>3 DEF ConnType
  <2>5. Underway' = Underway  BY <2>1, <2>4 DEF Underway
  <2> QED  BY <2>1, <2>2, <2>4, <2>5 DEF StreamShape, CallShape
<1>4. CASE Ended  BY <1>4, EndingStream
<1>5. CASE Taken \/ TakenLate \/ Written \/ Outside  BY <1>5, FarStream
<1> QED  BY <1>1, <1>2, <1>3, <1>4, <1>5, StepKinds

-----------------------------------------------------------------------------
(* What was taken up is done or not for good, and what was asked for stays.*)
LEMMA Settled ==
  ASSUME HostTypes, OutTypes, CallTypes, CallShape, StreamShape, [Next]_vars,
         NEW id \in 1..asked
  PROVE  /\ id \in 1..asked'
         /\ id \in writes' <=> id \in writes
         /\ id \in waiting' => id \in waiting
         /\ id \in acted => id \in acted'
         /\ id \notin waiting => (id \in acted' <=> id \in acted)
         /\ id \notin writes => (id \in acted' <=> id \in acted)
<1>0. asked \in Nat /\ id \in Nat /\ id # asked + 1  BY ClientAssumption DEF CallTypes
<1>1. CASE Reconnected  BY <1>1 DEF Reconnected
<1>2. CASE Asks
  <2>1. PICK o \in Ops : Requested(o)  BY <1>2 DEF Asks
  <2>2. /\ asked' = asked + 1 /\ acted' = acted
        /\ writes' = IF o \in Writes THEN writes \cup {asked + 1} ELSE writes
    BY <2>1 DEF Requested, Ask
  <2>3. waiting' = waiting \/ waiting' = waiting \cup {asked + 1}
    BY <2>1 DEF Requested, Stays, Leaves, NotSent, OnItsWay
  <2> QED  BY <1>0, <2>2, <2>3
<1>3. CASE Heads  BY <1>3 DEF Heads
<1>4. CASE Ended  BY <1>4 DEF Ended, Ending, EndCall
<1>5. CASE Taken  BY <1>5 DEF Taken, Serve
<1>6. CASE TakenLate  BY <1>6 DEF TakenLate, ServeNobody
<1>7. CASE Written \/ Outside
  BY <1>7 DEF Written, WriteBody, Outside, HangUp, Move, vars
<1> QED  BY <1>1, <1>2, <1>3, <1>4, <1>5, <1>6, <1>7, StepKinds

(* A reply goes on saying no other than what was done.                     *)
Replied(i) ==
  /\ out[i].id \in 1..asked /\ out[i].id \notin waiting
  /\ out[i].body # Coming => Carries(out[i].id, out[i].body)

(* A reply that stays on the stream stays true.                            *)
LEMMA RepliedStays ==
  ASSUME HostTypes, OutTypes, CallTypes, CallShape, StreamShape, [Next]_vars,
         NEW i, NEW j, Replied(j), out'[i] = out[j]
  PROVE  Replied(i)'
<1>1. PICK id, body : id = out[j].id /\ body = out[j].body  OBVIOUS
<1>2. id \in 1..asked /\ id \notin waiting /\ (body # Coming => Carries(id, body))
  BY <1>1 DEF Replied
<1>3. /\ id \in 1..asked' /\ id \notin waiting'
      /\ (id \in writes' <=> id \in writes) /\ (id \in acted' <=> id \in acted)
  BY <1>2, Settled
<1>4. body # Coming => Carries(id, body)'  BY <1>2, <1>3 DEF Carries
<1>5. id = out'[i].id /\ body = out'[i].body  BY <1>1
<1> QED  BY <1>3, <1>4, <1>5 DEF Replied, Carries

(* A far end writes only what is true, and it stays so.                    *)
LEMMA ReplyShapeStep ==
  ASSUME HostTypes, OutTypes, CallTypes, CallShape, StreamShape, ReplyShape, [Next]_vars
  PROVE  ReplyShape'
<1>0. ReplyShape = \A i \in DOMAIN out : Replied(i)  BY DEF ReplyShape, Replied
<1>9. (\A i \in DOMAIN out' : Replied(i)') => ReplyShape'  BY DEF ReplyShape, Replied
<1> SUFFICES ASSUME NEW i \in DOMAIN out' PROVE Replied(i)'  BY <1>9
<1>1. out' = out => Replied(i)'
  <2> SUFFICES ASSUME out' = out PROVE Replied(i)'  OBVIOUS
  <2>1. Replied(i) /\ out'[i] = out[i]  BY <1>0
  <2> QED  BY <2>1, RepliedStays
<1>2. out' # <<>>  OBVIOUS
<1>3. CASE Reconnected  BY <1>2, <1>3 DEF Reconnected
<1>4. CASE Asks  BY <1>1, <1>2, <1>4 DEF Asks, Requested, Stays, Leaves
<1>5. CASE Heads  BY <1>1, <1>5 DEF Heads
<1>6. CASE Ended
  <2>1. PICK c, r, reply, rest : Ending(c, r, reply, rest)  BY <1>6 DEF Ended
  <2>2. out' = rest /\ (rest = out \/ rest = <<>> \/ (rest = Tail(out) /\ call = "reading"))
    BY <1>2, <2>1 DEF Ending, EndCall
  <2>3. ~ (rest = Tail(out) /\ call = "reading")
    <3> SUFFICES ASSUME rest = Tail(out), call = "reading" PROVE FALSE  OBVIOUS
    <3>1. Len(out) = 1 /\ out \in Seq(ReplyType)  BY DEF StreamShape, OutTypes
    <3>2. out # <<>> /\ Len(out) <= 1  BY <3>1
    <3>3. Tail(out) = <<>>  BY <3>1, <3>2, OneLeft
    <3> QED  BY <1>2, <2>2, <3>3
  <2> QED  BY <1>1, <1>2, <2>2, <2>3
<1>7. CASE Taken
  <2>1. PICK id \in Ids, acts \in BOOLEAN, http \in BOOLEAN : Serve(id, acts, http)
    BY <1>7 DEF Taken
  <2> DEFINE reply == [id |-> id, http |-> http, body |-> Coming]
  <2>2. /\ id \in waiting /\ waiting' = waiting \ {id} /\ asked' = asked
        /\ out' = Append(out, reply)
    BY <2>1 DEF Serve
  <2>3. /\ DOMAIN out' = 1..(Len(out) + 1) /\ DOMAIN out = 1..Len(out)
        /\ out'[Len(out) + 1] = reply /\ \A j \in DOMAIN out : out'[j] = out[j]
    BY <2>2 DEF OutTypes
  <2>4. CASE i \in DOMAIN out
    <3>1. Replied(i) /\ out'[i] = out[i]  BY <1>0, <2>3, <2>4
    <3> QED  BY <3>1, RepliedStays
  <2>5. CASE i = Len(out) + 1
    <3>1. out'[i].id = id /\ out'[i].body = Coming  BY <2>3, <2>5
    <3>2. id \in 1..asked' /\ id \notin waiting'  BY <2>2 DEF CallTypes
    <3> QED  BY <3>1, <3>2 DEF Replied
  <2>6. i \in DOMAIN out \/ i = Len(out) + 1  BY <2>3 DEF OutTypes
  <2> QED  BY <2>4, <2>5, <2>6
<1>8. CASE Written
  <2>1. PICK r \in Replies : WriteBody(r)  BY <1>8 DEF Written
  <2>2. PICK k \in 1..Len(out) :
          Carries(out[k].id, r) /\ out' = [out EXCEPT ![k].body = r]
    BY <2>1 DEF WriteBody
  <2>3. UNCHANGED <<waiting, acted, writes, asked>>  BY <2>1 DEF WriteBody
  <2>4. i \in DOMAIN out /\ (i # k => out'[i] = out[i])  BY <2>2 DEF OutTypes
  <2>5. CASE i # k
    <3>1. Replied(i) /\ out'[i] = out[i]  BY <1>0, <2>4, <2>5
    <3> QED  BY <3>1, RepliedStays
  <2>6. CASE i = k
    <3>1. PICK id : id = out[k].id  OBVIOUS
    <3>2. out'[i].id = id /\ out'[i].body = r
      <4>1. out[k] \in ReplyType /\ k \in DOMAIN out  BY <2>2 DEF OutTypes
      <4>2. out'[k] = [out[k] EXCEPT !.body = r]  BY <2>2, <4>1
      <4> QED  BY <2>6, <3>1, <4>1, <4>2 DEF ReplyType
    <3>3. id \in 1..asked /\ id \notin waiting  BY <1>0, <2>4, <2>6, <3>1 DEF Replied
    <3>4. Carries(id, r)'  BY <2>2, <2>3, <3>1 DEF Carries
    <3> QED  BY <2>3, <3>2, <3>3, <3>4 DEF Replied, Carries
  <2> QED  BY <2>5, <2>6
<1>10. CASE TakenLate \/ Outside
  <2>1. out' = out
    BY <1>10 DEF TakenLate, ServeNobody, Outside, HangUp, Move, vars
  <2> QED  BY <1>1, <2>1
<1> QED  BY <1>3, <1>4, <1>5, <1>6, <1>7, <1>8, <1>10, StepKinds

-----------------------------------------------------------------------------
(* What one request was told.                                              *)
ToldRight(id) ==
  /\ results[id].reply \in {0, id}
  /\ results[id].kind = "Answered" =>
       results[id].reply = id /\ (id \in writes => id \in acted)
  /\ results[id].kind = "Refused" => results[id].reply = id
  /\ results[id].retryable = "yes" \/ results[id].kind = "Refused" =>
       id \notin acted /\ ~ (id \in waiting /\ id \in writes)

(* The properties speak of every request told.                             *)
LEMMA AllToldRight ==
  AnswersAreTheirRequests /\ RefusedMeansNotDone /\ ResultShape <=>
    \A id \in DOMAIN results : ToldRight(id)
BY DEF AnswersAreTheirRequests, RefusedMeansNotDone, ResultShape, ToldRight

(* What came of the request in hand is said of that request.               *)
LEMMA Conclusion ==
  ASSUME OutTypes, CallTypes, CallShape, StreamShape, ReplyShape,
         NEW r \in ResultType, NEW reply, Heard(r, reply)
  PROVE  /\ reply \in {0, asked}
         /\ r.kind = "Answered" => reply = asked /\ (asked \in writes => asked \in acted)
         /\ r.kind = "Refused" => reply = asked
         /\ r.retryable = "yes" \/ r.kind = "Refused" =>
              asked \notin acted /\ ~ (asked \in waiting /\ asked \in writes)
<1>1. call # "none" /\ (op \in Writes <=> asked \in writes) /\ acted \subseteq writes
  BY DEF Heard, CallShape
<1>2. CASE reply = 0 /\ r.kind = "CouldNotAsk" /\ (r.retryable = "yes" => op \notin Writes)
  BY <1>1, <1>2
<1>3. CASE /\ call = "reading" /\ reply = Head(out).id /\ Head(out).body # Coming
           /\ Says(r, op, Head(out).body)
  <2>1. Len(out) = 1 /\ out[1].id = asked  BY <1>3 DEF StreamShape
  <2>2. 1 \in DOMAIN out /\ Head(out) = out[1]
    <3>1. out # <<>> /\ Len(out) <= 1 /\ out \in Seq(ReplyType)  BY <2>1 DEF OutTypes
    <3> QED  BY <3>1, OneLeft
  <2>3. PICK b : b = out[1].body  OBVIOUS
  <2>4. asked \notin waiting /\ Carries(asked, b)
    BY <1>3, <2>1, <2>2, <2>3 DEF ReplyShape
  <2>5. reply = asked /\ Says(r, op, b)  BY <1>3, <2>1, <2>2, <2>3
  <2>6. r.kind = "Answered" /\ op \in Writes => b = Done  BY <2>5 DEF Says
  <2>7. r.kind = "Answered" /\ asked \in writes => asked \in acted
    BY <1>1, <2>4, <2>6 DEF Carries, Done
  <2>8. r.retryable = "yes" \/ r.kind = "Refused" => asked \notin acted
    BY <2>4, <2>5 DEF Says, Carries
  <2> QED  BY <2>4, <2>5, <2>7, <2>8
<1> QED  BY <1>2, <1>3 DEF Heard

(* What was told stays right, and what is told is right.                   *)
LEMMA ToldStep ==
  ASSUME HostTypes, OutTypes, CallTypes, ResultTypes, CallShape, StreamShape, ReplyShape,
         \A id \in DOMAIN results : ToldRight(id), [Next]_vars
  PROVE  \A id \in DOMAIN results' : ToldRight(id)'
<1>0. /\ Finished \in Nat /\ asked \in Nat /\ Finished <= asked /\ DOMAIN results = 1..Finished
      /\ MaxRequests \in Nat
  <2>1. asked \in Nat /\ MaxRequests \in Nat  BY ClientAssumption DEF CallTypes
  <2>2. call # "none" => asked # 0  BY DEF CallShape
  <2> QED  BY <2>1, <2>2 DEF Finished, ResultTypes
<1>1. ASSUME NEW id \in 1..Finished, results'[id] = results[id] PROVE ToldRight(id)'
  <2>1. ToldRight(id) /\ id \in 1..asked  BY <1>0
  <2>2. /\ id \in writes' <=> id \in writes
        /\ id \in waiting' => id \in waiting
        /\ id \in acted => id \in acted'
        /\ id \notin waiting => (id \in acted' <=> id \in acted)
        /\ id \notin writes => (id \in acted' <=> id \in acted)
    BY <2>1, Settled
  <2> QED  BY <1>1, <2>1, <2>2 DEF ToldRight
<1>2. CASE SameResults
  BY <1>0, <1>1, <1>2 DEF SameResults
<1>3. ASSUME NEW r \in ResultType, NEW reply \in 0..MaxRequests, NewResult(r, reply)
      PROVE  \A id \in DOMAIN results' : ToldRight(id)'
  <2>1. /\ DOMAIN results' = 1..(Finished + 1) /\ results'[Finished + 1] = [r EXCEPT !.reply = reply]
        /\ \A id \in 1..Finished : results'[id] = results[id]
    BY <1>3, Telling DEF NewResult
  <2>2. PICK n : n = Finished + 1 /\ n = asked'  BY <1>3 DEF NewResult
  <2>3. /\ results'[n].reply = reply /\ results'[n].kind = r.kind
        /\ results'[n].retryable = r.retryable
    BY <2>1, <2>2 DEF ResultType
  <2>4. CASE Unasked(r, reply)
    <3>1. n = asked + 1 /\ reply = 0 /\ r.kind = "CouldNotAsk" /\ UNCHANGED <<waiting, acted>>
      BY <2>2, <2>4 DEF Unasked
    <3>2. n \notin acted /\ n \notin waiting  BY <1>0, <3>1 DEF CallTypes
    <3> QED  BY <1>0, <1>1, <2>1, <2>2, <2>3, <3>1, <3>2 DEF ToldRight
  <2>5. CASE Heard(r, reply)
    <3>1. n = asked /\ UNCHANGED <<waiting, acted, writes>>  BY <2>2, <2>5 DEF Heard
    <3>2. /\ reply \in {0, asked}
          /\ r.kind = "Answered" => reply = asked /\ (asked \in writes => asked \in acted)
          /\ r.kind = "Refused" => reply = asked
          /\ r.retryable = "yes" \/ r.kind = "Refused" =>
               asked \notin acted /\ ~ (asked \in waiting /\ asked \in writes)
      BY <2>5, Conclusion
    <3>3. ToldRight(n)'  BY <2>3, <3>1, <3>2 DEF ToldRight
    <3> QED  BY <1>0, <1>1, <2>1, <2>2, <3>3
  <2> QED  BY <1>3, <2>4, <2>5 DEF NewResult
<1> QED  BY <1>2, <1>3, Answering

-----------------------------------------------------------------------------
(* The client's invariant holds before anything is connected.              *)
LEMMA InitLemma ==
  ASSUME Init
  PROVE  ClientInv
<1>1. 0 \in 0..MaxRequests /\ 0 \in 0..MaxMoves /\ 0 \in 0..MaxOpens /\ 0 \in 0..(MaxRequests + 1)
  BY ClientAssumption
<1>2. HostTypes  BY <1>1 DEF Init, HostTypes, Uids
<1>3. conn \in ConnType
  <2>1. Closed \in ConnType  BY <1>1 DEF Closed, ConnType
  <2> QED  BY <2>1 DEF Init
<1>4. OutTypes /\ HeardTypes
  <2>1. <<>> \in Seq(ReplyType)  BY EmptySeq
  <2>2. OutTypes  BY <2>1, Zenon DEF Init, OutTypes
  <2>3. HeardTypes  BY DEF Init, HeardTypes
  <2> QED  BY <2>2, <2>3
<1>5. CallTypes  BY <1>1 DEF Init, CallTypes
<1>6. ResultTypes  BY DEF Init, ResultTypes, Finished
<1>7. TypeOK  BY <1>2, <1>3, <1>4, <1>5, <1>6, Groups
<1>8. ConnShape /\ CallShape
  BY DEF Init, Closed, ConnShape, ImpostorGetsNothing, CallShape
<1>9. StreamShape /\ ReplyShape  BY DEF Init, Closed, StreamShape, ReplyShape
<1>10. ResultShape /\ AnswersAreTheirRequests /\ RefusedMeansNotDone
  BY DEF Init, ResultShape, AnswersAreTheirRequests, RefusedMeansNotDone
<1> QED  BY <1>7, <1>8, <1>9, <1>10 DEF ClientInv

(* Every step keeps it.                                                    *)
LEMMA StepLemma ==
  ASSUME ClientInv, [Next]_vars
  PROVE  ClientInv'
<1>1. /\ TypeOK /\ ConnShape /\ CallShape /\ StreamShape /\ ReplyShape /\ ResultShape
      /\ AnswersAreTheirRequests /\ RefusedMeansNotDone
  BY DEF ClientInv
<1>2. HostTypes /\ conn \in ConnType /\ OutTypes /\ CallTypes /\ ResultTypes /\ HeardTypes
  BY <1>1, Groups
<1>3. \A id \in DOMAIN results : ToldRight(id)  BY <1>1, AllToldRight
<1>4. ConnShape' /\ HeardTypes'  BY <1>1, <1>2, ConnShapeStep
<1>5. TypeOK'
  <2>1. HostTypes' /\ conn' \in ConnType /\ OutTypes' /\ CallTypes' /\ ResultTypes'
    BY <1>1, <1>2, HostStep, ConnStep, OutStep, CallStep, ResultStep
  <2> QED
    BY <1>4, <2>1 DEF TypeOK, HostTypes, ConnType, OutTypes, ReplyType, CallTypes, ResultTypes,
       Finished, HeardTypes
<1>6. CallShape' /\ StreamShape' /\ ReplyShape'
  BY <1>1, <1>2, CallShapeStep, StreamStep, ReplyShapeStep
<1>7. \A id \in DOMAIN results' : ToldRight(id)'  BY <1>1, <1>2, <1>3, ToldStep
<1>8. ResultShape' /\ AnswersAreTheirRequests' /\ RefusedMeansNotDone'
  BY <1>7 DEF ToldRight, ResultShape, AnswersAreTheirRequests, RefusedMeansNotDone
<1> QED  BY <1>4, <1>5, <1>6, <1>8 DEF ClientInv

(* The invariant holds in every state the program reaches, and with it     *)
(* every variable has its type.                                            *)
THEOREM Clients == Spec => []ClientInv
<1>1. Init => ClientInv  BY InitLemma
<1>2. ClientInv /\ [Next]_vars => ClientInv'  BY StepLemma
<1> QED  BY <1>1, <1>2, PTL DEF Spec

(* Neither leave to send a write again nor a refusal is given for one that *)
(* was carried out or is going to be: _problem's `repeatable` and          *)
(* problem_class_of never say it, whenever the reply is lost or comes.     *)
THEOREM CallersAreToldWhatHappened == Spec => []ToldWhatHappened
<1>1. ClientInv => ToldWhatHappened
  BY DEF ClientInv, ToldWhatHappened, NoRetryAfterAnAct, ResultShape
<1> QED  BY <1>1, Clients, PTL

(* An answer is read off the reply to its own request, for any number of   *)
(* requests, timeouts and reconnects: the state Request-sent and the       *)
(* unread response keep a late reply from being taken for the next one. An *)
(* answer to a write means it was carried out.                             *)
THEOREM RepliesAreTheirRequests == Spec => []AnswersAreTheirRequests
<1>1. ClientInv => AnswersAreTheirRequests  BY DEF ClientInv
<1> QED  BY <1>1, Clients, PTL

(* No byte reaches another account than the one the profile named when the *)
(* stream was opened: the peer is verified before HTTPConnection sends.    *)
THEOREM OnlyTheNamedPrincipalHears == Spec => []ImpostorGetsNothing
<1>1. ClientInv => ImpostorGetsNothing  BY DEF ClientInv, ConnShape
<1> QED  BY <1>1, Clients, PTL

-----------------------------------------------------------------------------
(* A set of numbers that is not empty has a least one.                     *)
LEMMA LeastIn ==
  ASSUME NEW S \in SUBSET Nat, S # {}
  PROVE  \E m \in S : \A n \in S : m <= n
<1>1. IsWellFoundedOn(OpToRel(<, Nat), Nat)
  BY NatLessThanWellFounded, Zenon
<1>2. PICK m \in S : \A n \in S : ~ (<<n, m>> \in OpToRel(<, Nat))
  BY <1>1, WFMin, Zenon
<1>3. \A n \in S : ~ (<<n, m>> \in OpToRel(<, Nat)) => ~ (n < m)
  BY DEF OpToRel
<1>4. \A n \in S : ~ (n < m) => m <= n
  OBVIOUS
<1> QED  BY <1>2, <1>3, <1>4

Parts == Names \cup {".."}

\* The nodes along a path.
Along(path, node) == node = [i \in 0..Len(path) |-> IF i = 0 THEN "/" ELSE Child(node[i - 1], path[i])]

(* The nodes along a path are a function.                                  *)
LEMMA HasNodes ==
  ASSUME NEW path \in Seq(Parts)
  PROVE  \E node : Along(path, node)
<1> DEFINE Upto(n, node) == node = [i \in 0..n |-> IF i = 0 THEN "/" ELSE Child(node[i - 1], path[i])]
           Missing == {n \in 0..Len(path) : ~ \E node : Upto(n, node)}
<1>1. PICK k \in Nat : k = Len(path)
  BY LenProperties
<1>2. Missing \in SUBSET Nat
  OBVIOUS
<1>3. ASSUME Missing # {} PROVE FALSE
  <2>1. PICK n \in Missing : \A m \in Missing : n <= m
    BY <1>2, <1>3, LeastIn
  <2>2. n \in 0..k /\ ~ \E node : Upto(n, node)
    BY <1>1, <2>1
  <2>3. n # 0
    <3> DEFINE node == [i \in 0..0 |-> "/"]
    <3>1. ASSUME n = 0 PROVE FALSE
      <4>1. node = [i \in 0..0 |-> IF i = 0 THEN "/" ELSE Child(node[i - 1], path[i])]
        OBVIOUS
      <4> HIDE DEF node
      <4>2. Upto(0, node)
        BY <4>1
      <4> QED  BY <2>2, <3>1, <4>2
    <3> QED  BY <3>1
  <2>4. n - 1 \in 0..k /\ n - 1 \notin Missing
    BY <1>1, <2>1, <2>2, <2>3
  <2>5. PICK node : Upto(n - 1, node)
    BY <1>1, <2>4
  <2>6. node[0] = "/" /\ \A i \in 1..(n - 1) : node[i] = Child(node[i - 1], path[i])
    <3>1. \A i \in 0..(n - 1) : node[i] = IF i = 0 THEN "/" ELSE Child(node[i - 1], path[i])
      BY <2>5
    <3>2. 0 \in 0..(n - 1) /\ \A i \in 1..(n - 1) : i \in 0..(n - 1) /\ i # 0
      BY <2>2, <2>3
    <3> QED  BY <3>1, <3>2
  <2> DEFINE last == Child(node[n - 1], path[n])
             more == [i \in 0..n |-> IF i < n THEN node[i] ELSE last]
  <2>7. /\ \A i \in 0..n : i < n => more[i] = node[i]
        /\ more[n] = last
    BY <2>2
  <2>8. ASSUME NEW i \in 0..n PROVE more[i] = IF i = 0 THEN "/" ELSE Child(more[i - 1], path[i])
    <3> HIDE DEF more
    <3>1. CASE i = 0
      BY <2>2, <2>3, <2>6, <2>7, <3>1
    <3>2. CASE i # 0 /\ i < n
      <4>1. i \in 1..(n - 1) /\ i - 1 \in 0..n /\ i - 1 < n
        BY <2>2, <3>2
      <4>2. more[i] = node[i] /\ more[i - 1] = node[i - 1]
        BY <2>7, <3>2, <4>1
      <4> QED  BY <2>6, <3>2, <4>1, <4>2
    <3>3. CASE i = n
      <4>1. n - 1 \in 0..n /\ n - 1 < n
        BY <2>2, <2>3
      <4>2. more[n - 1] = node[n - 1]
        BY <2>7, <4>1
      <4> QED  BY <2>3, <2>7, <3>3, <4>2
    <3> QED  BY <2>2, <3>1, <3>2, <3>3
  <2>9. more = [i \in 0..n |-> more[i]]
    OBVIOUS
  <2> HIDE DEF more, last
  <2>10. more = [i \in 0..n |-> IF i = 0 THEN "/" ELSE Child(more[i - 1], path[i])]
    BY <2>8, <2>9
  <2> QED  BY <2>2, <2>10
<1>4. k \in 0..Len(path) /\ k \notin Missing
  BY <1>1, <1>3
<1>5. \E node : Upto(k, node)
  BY <1>4
<1> QED  BY <1>1, <1>5 DEF Along

\* The nodes along a path, as At reads them.
NodesOf(path) == CHOOSE node : Along(path, node)

(* At is the last of them.                                                 *)
LEMMA NodesAre ==
  ASSUME NEW path \in Seq(Parts)
  PROVE  /\ At(path) = NodesOf(path)[Len(path)]
         /\ NodesOf(path)[0] = "/"
         /\ \A i \in 1..Len(path) : NodesOf(path)[i] = Child(NodesOf(path)[i - 1], path[i])
<1>1. At(path) = NodesOf(path)[Len(path)]
  BY Zenon DEF At, NodesOf, Along
<1>2. Along(path, NodesOf(path))
  BY HasNodes, Zenon DEF NodesOf
<1> DEFINE node == NodesOf(path)
<1>3. node = [i \in 0..Len(path) |-> IF i = 0 THEN "/" ELSE Child(node[i - 1], path[i])]
  BY <1>2, Zenon DEF Along
<1> HIDE DEF node
<1>4. PICK k \in Nat : k = Len(path)
  BY LenProperties
<1>5. \A i \in 0..k : node[i] = IF i = 0 THEN "/" ELSE Child(node[i - 1], path[i])
  BY <1>3, <1>4
<1>6. node[0] = "/" /\ \A i \in 1..k : node[i] = Child(node[i - 1], path[i])
  <2>1. 0 \in 0..k /\ \A i \in 1..k : i \in 0..k /\ i # 0
    BY <1>4
  <2> QED  BY <1>5, <2>1
<1> QED  BY <1>1, <1>4, <1>6 DEF node

\* Paths that begin alike lead over the same nodes.
LEMMA NodesAgree ==
  ASSUME NEW p \in Seq(Parts), NEW q \in Seq(Parts), NEW k \in Nat, k <= Len(p), k <= Len(q),
         \A i \in 1..k : p[i] = q[i]
  PROVE  \A i \in 0..k : NodesOf(p)[i] = NodesOf(q)[i]
<1> DEFINE Differ == {i \in 0..k : NodesOf(p)[i] # NodesOf(q)[i]}
<1>1. Len(p) \in Nat /\ Len(q) \in Nat
  BY LenProperties
<1>2. ASSUME Differ # {} PROVE FALSE
  <2>1. Differ \in SUBSET Nat
    OBVIOUS
  <2>2. PICK n \in Differ : \A m \in Differ : n <= m
    BY <1>2, <2>1, LeastIn
  <2>3. n # 0
    BY NodesAre
  <2>4. n \in 1..k /\ n - 1 \in 0..k /\ n - 1 \notin Differ
    BY <2>2, <2>3
  <2>5. NodesOf(p)[n - 1] = NodesOf(q)[n - 1] /\ p[n] = q[n]
    BY <2>4
  <2>6. n \in 1..Len(p) /\ n \in 1..Len(q)
    BY <1>1, <2>4
  <2>7. NodesOf(p)[n] = NodesOf(q)[n]
    BY <2>5, <2>6, NodesAre
  <2> QED  BY <2>2, <2>7
<1> QED  BY <1>2

LEMMA AtRoot == At(<<>>) = "/"
<1>1. <<>> \in Seq(Parts) /\ Len(<<>>) = 0
  BY EmptySeq
<1> QED  BY <1>1, NodesAre

(* One name further is one entry further.                                  *)
LEMMA AtChild ==
  ASSUME NEW path \in Seq(Parts), NEW name \in Parts
  PROVE  At(Append(path, name)) = Child(At(path), name)
<1>1. PICK k \in Nat : k = Len(path)
  BY LenProperties
<1> DEFINE next == Append(path, name)
<1>2. next \in Seq(Parts) /\ Len(next) = k + 1 /\ next[k + 1] = name /\ \A i \in 1..k : next[i] = path[i]
  BY <1>1, AppendProperties
<1> HIDE DEF next
<1>3. NodesOf(next)[k] = NodesOf(path)[k]
  BY <1>1, <1>2, NodesAgree
<1>4. k + 1 \in 1..Len(next) /\ k + 1 - 1 = k
  BY <1>1, <1>2
<1>5. NodesOf(next)[k + 1] = Child(NodesOf(next)[k], name)
  BY <1>2, <1>4, NodesAre
<1> QED  BY <1>1, <1>2, <1>3, <1>5, NodesAre DEF next

-----------------------------------------------------------------------------
(* A lookup.                                                               *)

Look == [current : Seq(Names), rest : Seq(Parts), links : Nat]

(* A link names two entries at the most.                                   *)
LEMMA TargetIs ==
  ASSUME layout \in Layouts
  PROVE  Target(layout) \in Seq(Names) /\ Len(Target(layout)) \in 0..2
<1>1. layout = "direct" \/ layout = "linked" \/ layout = "dotdot" \/ layout = "loop"
  BY PathsAssumption
<1>2. CASE layout = "direct"
  <2>1. Target(layout) = <<>>
    BY <1>2 DEF Target
  <2> QED  BY <2>1, EmptySeq
<1>3. CASE layout = "linked"
  <2>1. Target(layout) = <<"b">>
    BY <1>3 DEF Target
  <2> QED  BY <2>1 DEF Names
<1>4. CASE layout = "dotdot"
  <2>1. Target(layout) = <<"b", "d">>
    BY <1>4 DEF Target
  <2> QED  BY <2>1 DEF Names
<1>5. CASE layout = "loop"
  <2>1. Target(layout) = <<"a", "l">>
    BY <1>5 DEF Target
  <2> QED  BY <2>1 DEF Names
<1> QED  BY <1>1, <1>2, <1>3, <1>4, <1>5

LEMMA RestShape ==
  ASSUME NEW look \in Look, look.rest # <<>>
  PROVE  /\ Len(look.rest) \in Nat \ {0} /\ Head(look.rest) \in Parts /\ Head(look.rest) = look.rest[1]
         /\ Tail(look.rest) \in Seq(Parts) /\ Len(Tail(look.rest)) = Len(look.rest) - 1
         /\ \A i \in 1..(Len(look.rest) - 1) : Tail(look.rest)[i] = look.rest[i + 1]
<1> DEFINE r == look.rest
<1>1. r \in Seq(Parts) /\ r # <<>>
  BY DEF Look
<1> HIDE DEF r
<1>2. Len(r) \in Nat \ {0} /\ Head(r) = r[1] /\ Head(r) \in Parts
  <2>1. Len(r) \in Nat /\ Len(r) # 0
    BY <1>1, EmptySeq
  <2>2. 1 \in 1..Len(r)
    BY <2>1
  <2> QED  BY <1>1, <2>1, <2>2, HeadTailProperties
<1>3. Tail(r) \in Seq(Parts) /\ Len(Tail(r)) = Len(r) - 1 /\ \A i \in 1..(Len(r) - 1) : Tail(r)[i] = r[i + 1]
  <2>1. Tail(r) \in Seq(Parts) /\ Len(Tail(r)) = Len(r) - 1
    BY <1>1, HeadTailProperties
  <2>2. \A i \in 1..Len(Tail(r)) : Tail(r)[i] = r[i + 1]
    BY <1>1, HeadTailProperties
  <2> QED  BY <2>1, <2>2
<1> QED  BY <1>2, <1>3 DEF r

Up(path) == IF path = <<>> THEN <<>> ELSE Front(path)

LEMMA UpShape ==
  ASSUME NEW path \in Seq(Names)
  PROVE  /\ Up(path) \in Seq(Names)
         /\ path # <<>> => Append(Up(path), path[Len(path)]) = path /\ path[Len(path)] \in Names
<1>1. CASE path = <<>>
  BY <1>1, EmptySeq DEF Up
<1>2. CASE path # <<>>
  <2>1. PICK k \in Nat : k = Len(path)
    BY LenProperties
  <2>2. k # 0
    BY <1>2, <2>1, EmptySeq
  <2> DEFINE front == SubSeq(path, 1, k - 1)
  <2>3. Up(path) = front
    BY <1>2, <2>1 DEF Up, Front
  <2>4. front \in Seq(Names) /\ Len(front) = k - 1 /\ \A i \in 1..(k - 1) : front[i] = path[i]
    <3>1. \A i \in 1..(k - 1) : path[i] \in Names
      BY <2>1
    <3> QED  BY <2>1, <2>2, <3>1
  <2> HIDE DEF front
  <2>5. path[k] \in Names
    BY <2>1, <2>2
  <2> DEFINE again == Append(front, path[k])
  <2>6. again \in Seq(Names) /\ Len(again) = k /\ again[k] = path[k] /\ \A i \in 1..(k - 1) : again[i] = front[i]
    <3>1. Len(again) = k - 1 + 1 /\ again[k - 1 + 1] = path[k] /\ again \in Seq(Names)
      BY <2>4, <2>5, AppendProperties
    <3>2. \A i \in 1..(k - 1) : again[i] = front[i]
      BY <2>4, <2>5, AppendProperties
    <3>3. k - 1 + 1 = k
      BY <2>1
    <3> QED  BY <3>1, <3>2, <3>3
  <2> HIDE DEF again
  <2>7. \A i \in 1..k : again[i] = path[i]
    <3>1. \A i \in 1..k : i = k \/ i \in 1..(k - 1)
      BY <2>2
    <3> QED  BY <2>4, <2>6, <3>1
  <2>8. again = path
    BY <2>1, <2>6, <2>7, SeqEqual
  <2> QED  BY <2>1, <2>3, <2>4, <2>5, <2>8 DEF again
<1> QED  BY <1>1, <1>2

\* What a step of a lookup does.
LEMMA AdvanceIs ==
  ASSUME layout \in Layouts, NEW look \in Look
  PROVE  /\ Advance(look) \in Look
         /\ Over(look) => Advance(look) = look
         /\ StepsBack(look) => /\ Advance(look).current = Up(look.current)
                               /\ Advance(look).rest = Tail(look.rest)
                               /\ Advance(look).links = look.links
         /\ Follows(look) => /\ Advance(look).current = <<>>
                             /\ Advance(look).rest = Target(layout) \o Tail(look.rest)
                             /\ Advance(look).links = look.links + 1
         /\ Descends(look) /\ ~Follows(look) => /\ Advance(look).current = Below(look)
                                                /\ Advance(look).rest = Tail(look.rest)
                                                /\ Advance(look).links = look.links
<1> DEFINE next == Advance(look)
<1>0. look.current \in Seq(Names) /\ look.rest \in Seq(Parts) /\ look.links \in Nat
  BY DEF Look
<1>1. CASE Over(look)
  <2>1. next = look
    BY <1>1, Zenon DEF Advance
  <2>2. ~StepsBack(look) /\ ~Follows(look) /\ ~Descends(look)
    BY <1>1 DEF StepsBack, Follows, Descends
  <2> QED  BY <2>1, <2>2
<1>2. CASE StepsBack(look)
  <2>1. ~Over(look) /\ look.rest # <<>> /\ ~Descends(look) /\ ~Follows(look)
    BY <1>2 DEF StepsBack, Over, Descends, Follows
  <2>2. next = [look EXCEPT !.current = IF @ = <<>> THEN <<>> ELSE Front(@), !.rest = Tail(@)]
    BY <1>2, <2>1, Zenon DEF Advance
  <2>3. look = [current |-> look.current, rest |-> look.rest, links |-> look.links]
    BY DEF Look
  <2> DEFINE up == Up(look.current)
             tail == Tail(look.rest)
  <2>4. next = [current |-> up, rest |-> tail, links |-> look.links]
    BY <2>2, <2>3 DEF Up
  <2>5. up \in Seq(Names) /\ tail \in Seq(Parts)
    BY <1>0, <2>1, UpShape, RestShape
  <2> HIDE DEF up, tail, next
  <2>6. next \in Look /\ next.current = up /\ next.rest = tail /\ next.links = look.links
    BY <1>0, <2>4, <2>5 DEF Look
  <2> QED  BY <2>1, <2>6 DEF up, tail, next
<1>3. CASE Follows(look)
  <2>1. ~Over(look) /\ look.rest # <<>> /\ ~StepsBack(look)
    BY <1>3 DEF StepsBack, Over, Descends, Follows
  <2> DEFINE rest == Target(layout) \o Tail(look.rest)
  <2>2. next = [current |-> <<>>, rest |-> rest, links |-> look.links + 1]
    BY <1>3, <2>1, Zenon DEF Advance
  <2>3. rest \in Seq(Parts)
    <3>1. Tail(look.rest) \in Seq(Parts)
      BY <2>1, RestShape
    <3>2. Target(layout) \in Seq(Parts)
      BY TargetIs DEF Parts
    <3> QED  BY <3>1, <3>2, ConcatProperties
  <2> HIDE DEF rest, next
  <2>4. next \in Look /\ next.current = <<>> /\ next.rest = rest /\ next.links = look.links + 1
    BY <1>0, <2>2, <2>3, EmptySeq DEF Look
  <2> QED  BY <1>3, <2>1, <2>4 DEF rest, next
<1>4. CASE Descends(look) /\ ~Follows(look)
  <2>1. ~Over(look) /\ look.rest # <<>> /\ ~StepsBack(look) /\ Head(look.rest) # ".."
    BY <1>4 DEF StepsBack, Over, Descends, Follows
  <2>2. next = [look EXCEPT !.current = Below(look), !.rest = Tail(@)]
    BY <1>4, <2>1, Zenon DEF Advance
  <2>3. look = [current |-> look.current, rest |-> look.rest, links |-> look.links]
    BY DEF Look
  <2> DEFINE below == Below(look)
             tail == Tail(look.rest)
  <2>4. next = [current |-> below, rest |-> tail, links |-> look.links]
    BY <2>2, <2>3
  <2>5. tail \in Seq(Parts) /\ Head(look.rest) \in Names
    BY <2>1, RestShape DEF Parts
  <2>6. below \in Seq(Names)
    BY <1>0, <2>5, AppendProperties DEF Below
  <2> HIDE DEF below, tail, next
  <2>7. next \in Look /\ next.current = below /\ next.rest = tail /\ next.links = look.links
    BY <1>0, <2>4, <2>5, <2>6 DEF Look
  <2> QED  BY <1>4, <2>1, <2>7 DEF below, tail, next
<1>5. Over(look) \/ StepsBack(look) \/ Follows(look) \/ (Descends(look) /\ ~Follows(look))
  BY DEF StepsBack, Descends
<1> QED  BY <1>1, <1>2, <1>3, <1>4, <1>5

StepsOf(name, look) ==
  look = [i \in 0..Steps(name) |-> IF i = 0 THEN Begin(name) ELSE Advance(look[i - 1])]

LEMMA HasLooks ==
  ASSUME NEW name, Steps(name) \in Nat
  PROVE  \E look : StepsOf(name, look)
<1> DEFINE begin == Begin(name)
           Upto(n, look) == look = [i \in 0..n |-> IF i = 0 THEN begin ELSE Advance(look[i - 1])]
           Missing == {n \in 0..Steps(name) : ~ \E look : Upto(n, look)}
<1>1. PICK k \in Nat : k = Steps(name)
  OBVIOUS
<1>2. Missing \in SUBSET Nat
  OBVIOUS
<1>3. ASSUME Missing # {} PROVE FALSE
  <2>1. PICK n \in Missing : \A m \in Missing : n <= m
    BY <1>2, <1>3, LeastIn
  <2>2. n \in 0..k /\ ~ \E look : Upto(n, look)
    BY <1>1, <2>1
  <2>3. n # 0
    <3> DEFINE look == [i \in 0..0 |-> begin]
    <3>1. ASSUME n = 0 PROVE FALSE
      <4>1. look = [i \in 0..0 |-> IF i = 0 THEN begin ELSE Advance(look[i - 1])]
        OBVIOUS
      <4> HIDE DEF look
      <4>2. Upto(0, look)
        BY <4>1
      <4> QED  BY <2>2, <3>1, <4>2
    <3> QED  BY <3>1
  <2>4. n - 1 \in 0..k /\ n - 1 \notin Missing
    <3>1. n \in Nat /\ n - 1 \in 0..k /\ ~ (n <= n - 1)
      BY <1>1, <2>2, <2>3
    <3> HIDE DEF Missing
    <3> QED  BY <2>1, <3>1
  <2>5. PICK look : Upto(n - 1, look)
    BY <1>1, <2>4
  <2>6. look[0] = begin /\ \A i \in 1..(n - 1) : look[i] = Advance(look[i - 1])
    <3>1. \A i \in 0..(n - 1) : look[i] = IF i = 0 THEN begin ELSE Advance(look[i - 1])
      BY <2>5
    <3>2. 0 \in 0..(n - 1) /\ \A i \in 1..(n - 1) : i \in 0..(n - 1) /\ i # 0
      BY <2>2, <2>3
    <3> QED  BY <3>1, <3>2
  <2> DEFINE last == Advance(look[n - 1])
             more == [i \in 0..n |-> IF i < n THEN look[i] ELSE last]
  <2>7. /\ \A i \in 0..n : i < n => more[i] = look[i]
        /\ more[n] = last
    BY <2>2
  <2>8. ASSUME NEW i \in 0..n PROVE more[i] = IF i = 0 THEN begin ELSE Advance(more[i - 1])
    <3> HIDE DEF more
    <3>1. CASE i = 0
      BY <2>2, <2>3, <2>6, <2>7, <3>1
    <3>2. CASE i # 0 /\ i < n
      <4>1. i \in 1..(n - 1) /\ i - 1 \in 0..n /\ i - 1 < n
        BY <2>2, <3>2
      <4>2. more[i] = look[i] /\ more[i - 1] = look[i - 1]
        BY <2>7, <3>2, <4>1
      <4> QED  BY <2>6, <3>2, <4>1, <4>2
    <3>3. CASE i = n
      <4>1. n - 1 \in 0..n /\ n - 1 < n
        BY <2>2, <2>3
      <4>2. more[n - 1] = look[n - 1]
        BY <2>7, <4>1
      <4> QED  BY <2>3, <2>7, <3>3, <4>2
    <3> QED  BY <2>2, <3>1, <3>2, <3>3
  <2>9. more = [i \in 0..n |-> more[i]]
    OBVIOUS
  <2> HIDE DEF more, last
  <2>10. more = [i \in 0..n |-> IF i = 0 THEN begin ELSE Advance(more[i - 1])]
    BY <2>8, <2>9
  <2> QED  BY <2>2, <2>10
<1>4. k \in 0..Steps(name) /\ k \notin Missing
  BY <1>1, <1>3
<1>5. \E look : Upto(k, look)
  BY <1>4
<1> QED  BY <1>1, <1>5 DEF StepsOf

LEMMA StepsIsNat ==
  ASSUME NEW name \in Seq(Parts)
  PROVE  Steps(name) \in Nat /\ Steps(name) = Len(name) + 3 * MaxLinks + 3 /\ Len(name) \in Nat /\ MaxLinks \in Nat
<1>1. PICK k \in Nat : k = Len(name)
  BY LenProperties
<1>2. MaxLinks \in Nat
  BY PathsAssumption
<1>3. Steps(name) = k + 3 * (MaxLinks + 1)
  BY <1>1 DEF Steps
<1> QED  BY <1>1, <1>2, <1>3

(* Each look is Advance of the one before.                                 *)
LEMMA LookupIs ==
  ASSUME NEW name \in Seq(Parts)
  PROVE  /\ DOMAIN Lookup(name) = 0..Steps(name)
         /\ Lookup(name)[0] = Begin(name)
         /\ \A i \in 1..Steps(name) : Lookup(name)[i] = Advance(Lookup(name)[i - 1])
         /\ Looks(name) = {Lookup(name)[i] : i \in 0..Steps(name)}
<1>1. StepsOf(name, CHOOSE look : StepsOf(name, look))
  BY HasLooks, StepsIsNat, Zenon
<1>2. Lookup(name) = CHOOSE look : StepsOf(name, look)
  BY Zenon DEF Lookup, StepsOf
<1> DEFINE look == Lookup(name)
<1>3. look = [i \in 0..Steps(name) |-> IF i = 0 THEN Begin(name) ELSE Advance(look[i - 1])]
  BY <1>1, <1>2, Zenon DEF StepsOf
<1>4. Looks(name) = {look[i] : i \in DOMAIN look}
  BY DEF Looks, Range
<1> HIDE DEF look
<1>5. PICK k \in Nat : k = Steps(name)
  BY StepsIsNat
<1>6. \A i \in 0..k : look[i] = IF i = 0 THEN Begin(name) ELSE Advance(look[i - 1])
  BY <1>3, <1>5
<1>7. look[0] = Begin(name) /\ \A i \in 1..k : look[i] = Advance(look[i - 1])
  <2>1. 0 \in 0..k /\ \A i \in 1..k : i \in 0..k /\ i # 0
    BY <1>5
  <2> QED  BY <1>6, <2>1
<1>8. DOMAIN look = 0..k
  BY <1>3, <1>5
<1> QED  BY <1>4, <1>5, <1>7, <1>8 DEF look

(* Every look of a lookup is one.                                          *)
LEMMA LooksAre ==
  ASSUME layout \in Layouts, NEW name \in Seq(Parts)
  PROVE  \A i \in 0..Steps(name) : Lookup(name)[i] \in Look
<1> DEFINE look == Lookup(name)
           Wrong == {i \in 0..Steps(name) : look[i] \notin Look}
<1>1. PICK k \in Nat : k = Steps(name)
  BY StepsIsNat
<1>2. Wrong \in SUBSET Nat
  OBVIOUS
<1>3. ASSUME Wrong # {} PROVE FALSE
  <2>1. PICK n \in Wrong : \A m \in Wrong : n <= m
    BY <1>2, <1>3, LeastIn
  <2>2. n \in 0..k /\ look[n] \notin Look
    BY <1>1, <2>1
  <2>3. Begin(name) \in Look
    BY EmptySeq DEF Begin, Look
  <2>4. n # 0
    BY <2>2, <2>3, LookupIs
  <2>5. n - 1 \in 0..k /\ n - 1 \notin Wrong /\ n \in 1..k
    BY <1>1, <2>1, <2>2, <2>4
  <2>6. look[n - 1] \in Look
    BY <1>1, <2>5
  <2>7. look[n] = Advance(look[n - 1])
    BY <1>1, <2>5, LookupIs
  <2> HIDE DEF look
  <2> QED  BY <2>2, <2>6, <2>7, AdvanceIs
<1> QED  BY <1>3

(* What is left of a lookup, a link's three steps counted, shrinks.        *)
LEMMA LeftShrinks ==
  ASSUME NEW r \in Nat, NEW s \in Nat, NEW l \in Nat, NEW h \in Nat, NEW n \in Nat, NEW m \in Nat, NEW k \in Nat,
         r + 3 * m + 3 - 3 * l + (n - 1) <= k,
         (s = r - 1 /\ h = l) \/ (s <= r + 1 /\ h = l + 1)
  PROVE  s + 3 * m + 3 - 3 * h + n <= k
OBVIOUS

LEMMA LeftIsSome ==
  ASSUME NEW r \in Nat \ {0}, NEW l \in Nat, NEW m \in Nat, NEW k \in Nat, ~ (l > m),
         r + 3 * m + 3 - 3 * l + k <= k
  PROVE  FALSE
OBVIOUS

LEMMA TwoAtMost == \A t \in 0..2 : t \in Nat /\ t <= 2
OBVIOUS

LEMMA AtMostOneMore ==
  ASSUME NEW r \in Nat, NEW s \in Nat, NEW t \in Nat, t <= 2, s = t + (r - 1)
  PROVE  s <= r + 1
OBVIOUS

(* Every lookup is over within its steps.                                  *)
LEMMA LookupEnds ==
  ASSUME layout \in Layouts, NEW name \in Seq(Parts)
  PROVE  Arrival(name) \in Look /\ Over(Arrival(name))
<1> DEFINE look == Lookup(name)
           Left(i) == Len(look[i].rest) + 3 * MaxLinks + 3 - 3 * look[i].links
           Long == {i \in 0..Steps(name) : ~Over(look[i]) /\ ~ (Left(i) + i <= Steps(name))}
<1>1. PICK k \in Nat : k = Steps(name) /\ k = Len(name) + 3 * MaxLinks + 3
  BY StepsIsNat
<1>2. MaxLinks \in Nat /\ Len(name) \in Nat
  BY StepsIsNat
<1>3. \A i \in 0..k : look[i] \in Look /\ Len(look[i].rest) \in Nat /\ look[i].links \in Nat
  <2>1. \A at \in Look : Len(at.rest) \in Nat /\ at.links \in Nat
    BY LenProperties DEF Look
  <2> QED  BY <1>1, <2>1, LooksAre
<1>4. Long \in SUBSET Nat
  OBVIOUS
<1>5. ASSUME Long # {} PROVE FALSE
  <2>1. PICK n \in Long : \A m \in Long : n <= m
    BY <1>4, <1>5, LeastIn
  <2>2. n \in 0..k /\ ~Over(look[n]) /\ ~ (Left(n) + n <= k)
    BY <1>1, <2>1
  <2>3. n # 0
    <3>1. ASSUME n = 0 PROVE FALSE
      <4>1. look[0].rest = name /\ look[0].links = 0
        <5>1. look[0] = Begin(name)
          BY LookupIs
        <5> HIDE DEF look
        <5> QED  BY <5>1 DEF Begin
      <4>2. Left(0) + 0 = k
        BY <1>1, <1>2, <4>1
      <4> QED  BY <1>1, <2>2, <3>1, <4>2
    <3> QED  BY <3>1
  <2>4. n - 1 \in 0..k /\ n - 1 \notin Long /\ n \in 1..k
    BY <1>1, <2>1, <2>2, <2>3
  <2>5. look[n] = Advance(look[n - 1]) /\ look[n - 1] \in Look
    BY <1>1, <1>3, <2>4, LookupIs
  <2>6. ~Over(look[n - 1])
    <3>1. ASSUME Over(look[n - 1]) PROVE FALSE
      <4>1. look[n] = look[n - 1]
        <5> HIDE DEF look
        <5> QED  BY <2>5, <3>1, AdvanceIs
      <4> QED  BY <2>2, <3>1, <4>1
    <3> QED  BY <3>1
  <2>7. Left(n - 1) + (n - 1) <= k
    BY <1>1, <2>4, <2>6
  <2> DEFINE last == look[n - 1]
             now == look[n]
  <2>8. last \in Look /\ now = Advance(last) /\ last.rest # <<>> /\ Len(last.rest) \in Nat /\ Len(now.rest) \in Nat
        /\ last.links \in Nat /\ now.links \in Nat
    BY <1>3, <2>2, <2>4, <2>5, <2>6 DEF Over
  <2>9. \/ Len(now.rest) = Len(last.rest) - 1 /\ now.links = last.links
        \/ Len(now.rest) <= Len(last.rest) + 1 /\ now.links = last.links + 1
    <3> HIDE DEF last, now
    <3>1. ~Over(last)
      BY <2>6 DEF last
    <3>2. CASE StepsBack(last)
      BY <2>8, <3>2, AdvanceIs, RestShape
    <3>3. CASE Follows(last)
      <4>1. now.rest = Target(layout) \o Tail(last.rest) /\ now.links = last.links + 1
        BY <2>8, <3>3, AdvanceIs
      <4>2. Len(Target(layout)) \in 0..2 /\ Target(layout) \in Seq(Parts)
        BY TargetIs DEF Parts
      <4>3. Tail(last.rest) \in Seq(Parts) /\ Len(Tail(last.rest)) = Len(last.rest) - 1
        BY <2>8, RestShape
      <4>4. Len(now.rest) = Len(Target(layout)) + Len(Tail(last.rest))
        BY <4>1, <4>2, <4>3, ConcatProperties
      <4>5. Len(now.rest) <= Len(last.rest) + 1
        <5>1. PICK t \in 0..2 : t = Len(Target(layout))
          BY <4>2
        <5>2. Len(now.rest) = t + (Len(last.rest) - 1)
          BY <4>3, <4>4, <5>1
        <5>3. t \in Nat /\ t <= 2
          BY <5>1, TwoAtMost
        <5>4. Len(now.rest) \in Nat /\ Len(last.rest) \in Nat
          BY <2>8
        <5> QED  BY <5>2, <5>3, <5>4, AtMostOneMore
      <4> QED  BY <4>1, <4>5
    <3>4. CASE Descends(last) /\ ~Follows(last)
      BY <2>8, <3>4, AdvanceIs, RestShape
    <3> QED  BY <3>1, <3>2, <3>3, <3>4 DEF StepsBack, Descends
  <2>10. Left(n - 1) = Len(last.rest) + 3 * MaxLinks + 3 - 3 * last.links
         /\ Left(n) = Len(now.rest) + 3 * MaxLinks + 3 - 3 * now.links
    OBVIOUS
  <2> HIDE DEF last, now, look, Left
  <2>11. Left(n) + n <= k
    <3>1. n \in Nat /\ k \in Nat
      BY <1>1, <2>2
    <3>2. Len(last.rest) + 3 * MaxLinks + 3 - 3 * last.links + (n - 1) <= k
      BY <2>7, <2>10
    <3>3. Len(now.rest) + 3 * MaxLinks + 3 - 3 * now.links + n <= k
      BY <1>2, <2>8, <2>9, <3>1, <3>2, LeftShrinks
    <3> QED  BY <2>10, <3>3
  <2> QED  BY <2>2, <2>11
<1>6. look[k] \in Look /\ Over(look[k])
  <2>1. ASSUME ~Over(look[k]) PROVE FALSE
    <3>1. Left(k) + k <= k
      BY <1>1, <1>5, <2>1
    <3>2. look[k].rest # <<>> /\ ~ (look[k].links > MaxLinks) /\ look[k] \in Look
      BY <1>1, <1>3, <2>1 DEF Over
    <3>3. Len(look[k].rest) \in Nat \ {0} /\ look[k].links \in Nat
      <4> HIDE DEF look
      <4> QED  BY <3>2, RestShape DEF Look
    <3>4. Left(k) = Len(look[k].rest) + 3 * MaxLinks + 3 - 3 * look[k].links
      OBVIOUS
    <3> HIDE DEF look, Left
    <3>5. Len(look[k].rest) + 3 * MaxLinks + 3 - 3 * look[k].links + k <= k
      BY <3>1, <3>4
    <3> QED  BY <1>1, <1>2, <3>2, <3>3, <3>5, LeftIsSome
  <2> QED  BY <1>1, <1>3, <2>1
<1> QED  BY <1>1, <1>6 DEF Arrival

\* The i-th look of a name.
Sees(name, i, c, r, k) ==
    /\ i \in 0..Steps(name) /\ Lookup(name)[i] \in Look
    /\ Lookup(name)[i].current = c /\ Lookup(name)[i].rest = r /\ Lookup(name)[i].links = k

LEMMA SeesFirst ==
  ASSUME layout \in Layouts, NEW name \in Seq(Parts)
  PROVE  Sees(name, 0, <<>>, name, 0)
<1>1. 0 \in 0..Steps(name)
  BY StepsIsNat
<1>2. Lookup(name)[0] \in Look
  BY <1>1, LooksAre
<1>3. Lookup(name)[0] = [current |-> <<>>, rest |-> name, links |-> 0]
  BY LookupIs DEF Begin
<1> DEFINE at == Lookup(name)[0]
<1> HIDE DEF at
<1>4. at.current = <<>> /\ at.rest = name /\ at.links = 0
  BY <1>3 DEF at
<1> QED  BY <1>1, <1>2, <1>4 DEF Sees, at

LEMMA NextLook ==
  ASSUME layout \in Layouts, NEW name \in Seq(Parts), NEW i \in Nat, i + 1 <= Steps(name)
  PROVE  /\ i + 1 \in 0..Steps(name) /\ Lookup(name)[i + 1] \in Look
         /\ Lookup(name)[i + 1] = Advance(Lookup(name)[i])
<1>1. PICK k \in Nat : k = Steps(name)
  BY StepsIsNat
<1>2. i + 1 \in 1..k /\ i + 1 \in 0..k /\ i + 1 - 1 = i
  BY <1>1
<1>3. Lookup(name)[i + 1] = Advance(Lookup(name)[i + 1 - 1])
  BY <1>1, <1>2, LookupIs
<1> QED  BY <1>1, <1>2, <1>3, LooksAre

(* The steps of a lookup: what was looked up, what is left, where it leads. *)
DownFrom(name, i, j, c, r, k, x, b, t) ==
    /\ name \in Seq(Parts) /\ i \in Nat /\ j = i + 1 /\ j <= Steps(name)
    /\ Sees(name, i, c, r, k) /\ k \in Nat /\ k <= MaxLinks
    /\ r # <<>> /\ Head(r) = x /\ Tail(r) = t /\ x \in Names /\ Append(c, x) = b /\ ~Is("link", At(b))

(* A look that descends into an entry that is no link.                     *)
LEMMA GoesDown ==
  ASSUME layout \in Layouts, NEW name, NEW i, NEW j, NEW c, NEW r, NEW k, NEW x, NEW b, NEW t,
         DownFrom(name, i, j, c, r, k, x, b, t)
  PROVE  /\ Sees(name, j, b, t, k) /\ Lookup(name)[i] \in Looks(name) /\ Lookup(name)[i].current = c
         /\ Descends(Lookup(name)[i]) /\ Below(Lookup(name)[i]) = b
<1> DEFINE at == Lookup(name)[i]
           then == Lookup(name)[j]
<1>1. j \in 0..Steps(name) /\ then \in Look /\ then = Advance(at)
  BY NextLook DEF DownFrom
<1>2. at \in Look /\ at.current = c /\ at.rest = r /\ at.links = k /\ at \in Looks(name)
  BY LookupIs DEF DownFrom, Sees
<1> HIDE DEF at, then
<1>3. ~Over(at)
  <2>1. ~ (k > MaxLinks) /\ r # <<>>
    BY PathsAssumption DEF DownFrom
  <2> QED  BY <1>2, <2>1 DEF Over
<1>4. Head(r) # ".." /\ Append(c, Head(r)) = b /\ Tail(r) = t /\ ~Is("link", At(b))
  BY DEF DownFrom, Names
<1>5. Descends(at) /\ Below(at) = b /\ ~Follows(at)
  BY <1>2, <1>3, <1>4, Zenon DEF Descends, Below, Follows
<1>6. then.current = b /\ then.rest = t /\ then.links = k
  BY <1>1, <1>2, <1>4, <1>5, AdvanceIs
<1> QED  BY <1>1, <1>2, <1>5, <1>6 DEF Sees, at, then

LinkFrom(name, i, j, c, r, k, x, b, t, l) ==
    /\ name \in Seq(Parts) /\ i \in Nat /\ j = i + 1 /\ j <= Steps(name)
    /\ Sees(name, i, c, r, k) /\ k \in Nat /\ k <= MaxLinks /\ l = k + 1
    /\ r # <<>> /\ Head(r) = x /\ Target(layout) \o Tail(r) = t /\ x \in Names /\ Append(c, x) = b /\ Is("link", At(b))

(* A look that follows a link.                                             *)
LEMMA GoesOn ==
  ASSUME layout \in Layouts, NEW name, NEW i, NEW j, NEW c, NEW r, NEW k, NEW x, NEW b, NEW t, NEW l,
         LinkFrom(name, i, j, c, r, k, x, b, t, l)
  PROVE  /\ Sees(name, j, <<>>, t, l) /\ Lookup(name)[i] \in Looks(name) /\ Lookup(name)[i].current = c
         /\ Descends(Lookup(name)[i]) /\ Below(Lookup(name)[i]) = b /\ Follows(Lookup(name)[i])
<1> DEFINE at == Lookup(name)[i]
           then == Lookup(name)[j]
<1>1. j \in 0..Steps(name) /\ then \in Look /\ then = Advance(at)
  BY NextLook DEF LinkFrom
<1>2. at \in Look /\ at.current = c /\ at.rest = r /\ at.links = k /\ at \in Looks(name)
  BY LookupIs DEF LinkFrom, Sees
<1> HIDE DEF at, then
<1>3. ~Over(at)
  <2>1. ~ (k > MaxLinks) /\ r # <<>>
    BY PathsAssumption DEF LinkFrom
  <2> QED  BY <1>2, <2>1 DEF Over
<1>4. Head(r) # ".." /\ Append(c, Head(r)) = b /\ Target(layout) \o Tail(r) = t /\ Is("link", At(b)) /\ l = k + 1
  BY DEF LinkFrom, Names
<1>5. Descends(at) /\ Below(at) = b /\ Follows(at)
  BY <1>2, <1>3, <1>4, Zenon DEF Descends, Below, Follows
<1>6. then.current = <<>> /\ then.rest = t /\ then.links = l
  BY <1>1, <1>2, <1>4, <1>5, AdvanceIs
<1> QED  BY <1>1, <1>2, <1>5, <1>6 DEF Sees, at, then

UpFrom(name, i, j, c, r, k, b, t) ==
    /\ name \in Seq(Parts) /\ i \in Nat /\ j = i + 1 /\ j <= Steps(name)
    /\ Sees(name, i, c, r, k) /\ k \in Nat /\ k <= MaxLinks
    /\ r # <<>> /\ Head(r) = ".." /\ Tail(r) = t /\ Up(c) = b

(* A look that steps back.                                                 *)
LEMMA GoesUp ==
  ASSUME layout \in Layouts, NEW name, NEW i, NEW j, NEW c, NEW r, NEW k, NEW b, NEW t,
         UpFrom(name, i, j, c, r, k, b, t)
  PROVE  /\ Sees(name, j, b, t, k) /\ Lookup(name)[i] \in Looks(name) /\ Lookup(name)[i].current = c
         /\ StepsBack(Lookup(name)[i]) /\ ~Descends(Lookup(name)[i])
<1> DEFINE at == Lookup(name)[i]
           then == Lookup(name)[j]
<1>1. j \in 0..Steps(name) /\ then \in Look /\ then = Advance(at)
  BY NextLook DEF UpFrom
<1>2. at \in Look /\ at.current = c /\ at.rest = r /\ at.links = k /\ at \in Looks(name)
  BY LookupIs DEF UpFrom, Sees
<1> HIDE DEF at, then
<1>3. ~Over(at)
  <2>1. ~ (k > MaxLinks) /\ r # <<>>
    BY PathsAssumption DEF UpFrom
  <2> QED  BY <1>2, <2>1 DEF Over
<1>4. Head(r) = ".." /\ Up(c) = b /\ Tail(r) = t
  BY DEF UpFrom
<1>5. StepsBack(at) /\ ~Descends(at)
  BY <1>2, <1>3, <1>4, Zenon DEF Descends, StepsBack
<1>6. then.current = b /\ then.rest = t /\ then.links = k
  BY <1>1, <1>2, <1>4, <1>5, AdvanceIs
<1> QED  BY <1>1, <1>2, <1>5, <1>6 DEF Sees, at, then

(* A lookup that is over stays where it is.                                *)
LEMMA Stops ==
  ASSUME layout \in Layouts, NEW name \in Seq(Parts), NEW n \in 0..Steps(name), Over(Lookup(name)[n])
  PROVE  /\ Arrival(name) = Lookup(name)[n]
         /\ \A look \in Looks(name) : \E i \in 0..n : look = Lookup(name)[i]
<1> DEFINE look == Lookup(name)
           Moves == {i \in 0..Steps(name) : n <= i /\ look[i] # look[n]}
<1>1. PICK k \in Nat : k = Steps(name)
  BY StepsIsNat
<1>2. n \in 0..k /\ n \in Nat
  BY <1>1
<1>3. ASSUME Moves # {} PROVE FALSE
  <2>1. Moves \in SUBSET Nat
    OBVIOUS
  <2>2. PICK m \in Moves : \A i \in Moves : m <= i
    BY <1>3, <2>1, LeastIn
  <2>3. m \in 0..k /\ n <= m /\ look[m] # look[n]
    BY <1>1, <2>2
  <2>4. m # n
    BY <2>3
  <2>5. m - 1 \in 0..k /\ n <= m - 1 /\ m \in 1..k /\ ~ (m <= m - 1)
    BY <1>2, <2>3, <2>4
  <2>6. m - 1 \notin Moves
    <3> HIDE DEF Moves
    <3> QED  BY <2>2, <2>5
  <2>7. look[m - 1] = look[n]
    BY <1>1, <2>5, <2>6
  <2>8. look[m] = Advance(look[m - 1])
    BY <1>1, <2>5, LookupIs
  <2>9. look[m] = look[n]
    <3>1. Advance(look[n]) = look[n]
      BY Zenon DEF Advance
    <3> QED  BY <2>7, <2>8, <3>1
  <2> QED  BY <2>3, <2>9
<1>4. \A i \in 0..k : n <= i => look[i] = look[n]
  BY <1>1, <1>3
<1>5. look[k] = look[n]
  <2>1. k \in 0..k /\ n <= k
    BY <1>1, <1>2
  <2> QED  BY <1>4, <2>1
<1>6. ASSUME NEW at \in Looks(name) PROVE \E i \in 0..n : at = look[i]
  <2>1. PICK i \in 0..k : at = look[i]
    BY <1>1, LookupIs
  <2>2. CASE n <= i
    <3>1. n \in 0..n
      BY <1>2
    <3> QED  BY <1>4, <2>1, <2>2, <3>1
  <2>3. CASE ~ (n <= i)
    <3>1. i \in 0..n
      BY <1>2, <2>1, <2>3
    <3> QED  BY <2>1, <3>1
  <2> QED  BY <2>2, <2>3
<1>7. Arrival(name) = look[k]
  BY <1>1 DEF Arrival
<1> QED  BY <1>5, <1>6, <1>7 DEF look

LEMMA SeesStop ==
  ASSUME layout \in Layouts, NEW name \in Seq(Parts), NEW n \in Nat,
         NEW c, NEW r, NEW k \in Nat, Sees(name, n, c, r, k), r = <<>> \/ k > MaxLinks
  PROVE  /\ Arrival(name).current = c /\ Arrival(name).rest = r /\ Arrival(name).links = k
         /\ \A look \in Looks(name) : \E i \in 0..n : look = Lookup(name)[i]
         /\ ~Descends(Lookup(name)[n]) /\ ~StepsBack(Lookup(name)[n])
<1> DEFINE at == Lookup(name)[n]
<1>1. at.current = c /\ at.rest = r /\ at.links = k /\ n \in 0..Steps(name)
  BY DEF Sees
<1> HIDE DEF at
<1>2. Over(at) /\ ~Descends(at) /\ ~StepsBack(at)
  BY <1>1 DEF Over, Descends, StepsBack
<1>3. Arrival(name) = at /\ \A look \in Looks(name) : \E i \in 0..n : look = Lookup(name)[i]
  BY <1>1, <1>2, Stops DEF at
<1> QED  BY <1>1, <1>2, <1>3 DEF at

StopsAt(name, n, c, k) == name \in Seq(Parts) /\ n \in Nat /\ k \in Nat /\ Sees(name, n, c, <<>>, k)

(* Where a lookup with nothing left to look up arrives.                    *)
LEMMA GoesNoFurther ==
  ASSUME layout \in Layouts, NEW name, NEW n, NEW c, NEW k, StopsAt(name, n, c, k)
  PROVE  /\ Arrival(name).current = c /\ Arrival(name).rest = <<>> /\ Arrival(name).links = k
         /\ \A look \in Looks(name) : \E i \in 0..n : look = Lookup(name)[i]
         /\ ~Descends(Lookup(name)[n])
<1>1. name \in Seq(Parts) /\ n \in Nat /\ k \in Nat /\ Sees(name, n, c, <<>>, k)
  BY DEF StopsAt
<1> QED  BY <1>1, SeesStop

(* Short sequences, written out.                                           *)
LEMMA OneLong == ASSUME NEW S, NEW s \in Seq(S), Len(s) = 1 PROVE s = <<s[1]>>
<1>1. s[1] \in S
  <2>1. 1 \in 1..1
    OBVIOUS
  <2>2. \A i \in 1..1 : s[i] \in S
    BY ElementOfSeq
  <2> QED  BY <2>1, <2>2
<1> DEFINE t == <<s[1]>>
<1>2. t \in Seq(S) /\ Len(t) = 1 /\ t[1] = s[1]
  BY <1>1
<1> HIDE DEF t
<1>3. \A i \in 1..1 : s[i] = t[i]
  <2>1. \A i \in 1..1 : i = 1
    OBVIOUS
  <2> QED  BY <1>2, <2>1
<1> QED  BY <1>2, <1>3, SeqEqual DEF t
LEMMA TwoLong == ASSUME NEW S, NEW s \in Seq(S), Len(s) = 2 PROVE s = <<s[1], s[2]>>
<1>1. s[1] \in S /\ s[2] \in S
  <2>1. 1 \in 1..2 /\ 2 \in 1..2
    OBVIOUS
  <2>2. \A i \in 1..2 : s[i] \in S
    BY ElementOfSeq
  <2> QED  BY <2>1, <2>2
<1> DEFINE t == <<s[1], s[2]>>
<1>2. t \in Seq(S) /\ Len(t) = 2 /\ t[1] = s[1] /\ t[2] = s[2]
  BY <1>1
<1> HIDE DEF t
<1>3. \A i \in 1..2 : s[i] = t[i]
  <2>1. \A i \in 1..2 : i = 1 \/ i = 2
    OBVIOUS
  <2> QED  BY <1>2, <2>1
<1> QED  BY <1>2, <1>3, SeqEqual DEF t
LEMMA ThreeLong == ASSUME NEW S, NEW s \in Seq(S), Len(s) = 3 PROVE s = <<s[1], s[2], s[3]>>
<1>1. s[1] \in S /\ s[2] \in S /\ s[3] \in S
  <2>1. 1 \in 1..3 /\ 2 \in 1..3 /\ 3 \in 1..3
    OBVIOUS
  <2>2. \A i \in 1..3 : s[i] \in S
    BY ElementOfSeq
  <2> QED  BY <2>1, <2>2
<1> DEFINE t == <<s[1], s[2], s[3]>>
<1>2. t \in Seq(S) /\ Len(t) = 3 /\ t[1] = s[1] /\ t[2] = s[2] /\ t[3] = s[3]
  BY <1>1
<1> HIDE DEF t
<1>3. \A i \in 1..3 : s[i] = t[i]
  <2>1. \A i \in 1..3 : i = 1 \/ i = 2 \/ i = 3
    OBVIOUS
  <2> QED  BY <1>2, <2>1
<1> QED  BY <1>2, <1>3, SeqEqual DEF t
LEMMA FourLong == ASSUME NEW S, NEW s \in Seq(S), Len(s) = 4 PROVE s = <<s[1], s[2], s[3], s[4]>>
<1>1. s[1] \in S /\ s[2] \in S /\ s[3] \in S /\ s[4] \in S
  <2>1. 1 \in 1..4 /\ 2 \in 1..4 /\ 3 \in 1..4 /\ 4 \in 1..4
    OBVIOUS
  <2>2. \A i \in 1..4 : s[i] \in S
    BY ElementOfSeq
  <2> QED  BY <2>1, <2>2
<1> DEFINE t == <<s[1], s[2], s[3], s[4]>>
<1>2. t \in Seq(S) /\ Len(t) = 4 /\ t[1] = s[1] /\ t[2] = s[2] /\ t[3] = s[3] /\ t[4] = s[4]
  BY <1>1
<1> HIDE DEF t
<1>3. \A i \in 1..4 : s[i] = t[i]
  <2>1. \A i \in 1..4 : i = 1 \/ i = 2 \/ i = 3 \/ i = 4
    OBVIOUS
  <2> QED  BY <1>2, <2>1
<1> QED  BY <1>2, <1>3, SeqEqual DEF t

LEMMA AppendedIs ==
  ASSUME NEW s \in Seq(Parts), NEW y \in Parts
  PROVE  Append(s, y) \in Seq(Parts) /\ Len(Append(s, y)) = Len(s) + 1 /\ Append(s, y)[Len(s) + 1] = y
         /\ \A i \in 1..Len(s) : Append(s, y)[i] = s[i]
<1>1. PICK k \in Nat : k = Len(s)
  BY LenProperties
<1> QED  BY <1>1, AppendProperties

LEMMA AppendTo ==
  ASSUME NEW w \in Parts, NEW x \in Parts, NEW y \in Parts, NEW z \in Parts
  PROVE  Append(<<>>, x) = <<x>> /\ Append(<<w>>, x) = <<w, x>> /\ Append(<<w, x>>, y) = <<w, x, y>>
         /\ Append(<<w, x, y>>, z) = <<w, x, y, z>>
<1>1. Append(<<w>>, x) = <<w, x>>
  <2> DEFINE s == <<w>>
             t == Append(s, x)
  <2>1. s \in Seq(Parts) /\ Len(s) = 1 /\ s[1] = w
    OBVIOUS
  <2> HIDE DEF s
  <2>2. t \in Seq(Parts) /\ Len(t) = 2 /\ t[2] = x /\ t[1] = w
    <3>1. t \in Seq(Parts) /\ Len(t) = Len(s) + 1 /\ t[Len(s) + 1] = x /\ \A i \in 1..Len(s) : t[i] = s[i]
      BY <2>1, AppendedIs, Zenon
    <3>2. 1 + 1 = 2 /\ 1 \in 1..1
      OBVIOUS
    <3> HIDE DEF t
    <3> QED  BY <2>1, <3>1, <3>2
  <2> HIDE DEF t
  <2> QED  BY <2>2, TwoLong DEF s, t
<1>2. Append(<<w, x>>, y) = <<w, x, y>>
  <2> DEFINE s == <<w, x>>
             t == Append(s, y)
  <2>1. s \in Seq(Parts) /\ Len(s) = 2 /\ s[1] = w /\ s[2] = x
    OBVIOUS
  <2> HIDE DEF s
  <2>2. t \in Seq(Parts) /\ Len(t) = 3 /\ t[3] = y /\ t[1] = w /\ t[2] = x
    <3>1. t \in Seq(Parts) /\ Len(t) = Len(s) + 1 /\ t[Len(s) + 1] = y /\ \A i \in 1..Len(s) : t[i] = s[i]
      BY <2>1, AppendedIs, Zenon
    <3>2. 2 + 1 = 3 /\ 1 \in 1..2 /\ 2 \in 1..2
      OBVIOUS
    <3> HIDE DEF t
    <3> QED  BY <2>1, <3>1, <3>2
  <2> HIDE DEF t
  <2> QED  BY <2>2, ThreeLong DEF s, t
<1>3. Append(<<w, x, y>>, z) = <<w, x, y, z>>
  <2> DEFINE s == <<w, x, y>>
             t == Append(s, z)
  <2>1. s \in Seq(Parts) /\ Len(s) = 3 /\ s[1] = w /\ s[2] = x /\ s[3] = y
    OBVIOUS
  <2> HIDE DEF s
  <2>2. t \in Seq(Parts) /\ Len(t) = 4 /\ t[4] = z /\ t[1] = w /\ t[2] = x /\ t[3] = y
    <3>1. t \in Seq(Parts) /\ Len(t) = Len(s) + 1 /\ t[Len(s) + 1] = z /\ \A i \in 1..Len(s) : t[i] = s[i]
      BY <2>1, AppendedIs, Zenon
    <3>2. 3 + 1 = 4 /\ 1 \in 1..3 /\ 2 \in 1..3 /\ 3 \in 1..3
      OBVIOUS
    <3> HIDE DEF t
    <3> QED  BY <2>1, <3>1, <3>2
  <2> HIDE DEF t
  <2> QED  BY <2>2, FourLong DEF s, t
<1>4. Append(<<>>, x) = <<x>>
  OBVIOUS
<1> QED  BY <1>1, <1>2, <1>3, <1>4

ConcatOf(s, u) ==
    /\ s \o u \in Seq(Parts) /\ Len(s \o u) = Len(s) + Len(u)
    /\ \A i \in 1..(Len(s) + Len(u)) : (s \o u)[i] = IF i <= Len(s) THEN s[i] ELSE u[i - Len(s)]

LEMMA ConcatsAre == ASSUME NEW s \in Seq(Parts), NEW u \in Seq(Parts) PROVE ConcatOf(s, u)
<1>1. PICK m \in Nat : m = Len(s)
  BY LenProperties
<1>2. PICK n \in Nat : n = Len(u)
  BY LenProperties
<1> QED  BY <1>1, <1>2, ConcatProperties DEF ConcatOf

LEMMA JoinedTo ==
  ASSUME NEW w \in Parts, NEW x \in Parts, NEW y \in Parts
  PROVE  /\ <<w>> \o <<>> = <<w>> /\ <<w>> \o <<x>> = <<w, x>> /\ <<w, x>> \o <<>> = <<w, x>> /\ <<w, x>> \o <<y>> = <<w, x, y>>
<1> DEFINE e == <<>>
           s == <<w>>
           t == <<w, x>>
           u == <<x>>
           v == <<y>>
<1>1. /\ e \in Seq(Parts) /\ Len(e) = 0
      /\ s \in Seq(Parts) /\ Len(s) = 1 /\ s[1] = w
      /\ t \in Seq(Parts) /\ Len(t) = 2 /\ t[1] = w /\ t[2] = x
      /\ u \in Seq(Parts) /\ Len(u) = 1 /\ u[1] = x
      /\ v \in Seq(Parts) /\ Len(v) = 1 /\ v[1] = y
  OBVIOUS
<1>2. s \o e = s /\ t \o e = t
  BY <1>1, ConcatEmptySeq
<1> HIDE DEF e, s, t, u, v
<1>3. s \o u = <<w, x>>
  <2>1. s \o u \in Seq(Parts) /\ Len(s \o u) = 2 /\ (s \o u)[1] = w /\ (s \o u)[2] = x
    <3>1. ConcatOf(s, u)
      BY <1>1, ConcatsAre, Zenon
    <3> QED  BY <1>1, <3>1 DEF ConcatOf
  <2> QED  BY <2>1, TwoLong
<1>4. t \o v = <<w, x, y>>
  <2>1. t \o v \in Seq(Parts) /\ Len(t \o v) = 3 /\ (t \o v)[1] = w /\ (t \o v)[2] = x /\ (t \o v)[3] = y
    <3>1. ConcatOf(t, v)
      BY <1>1, ConcatsAre, Zenon
    <3>2. 1 \in 1..(2 + 1) /\ 2 \in 1..(2 + 1) /\ 3 \in 1..(2 + 1) /\ 1 <= 2 /\ 2 <= 2 /\ ~ (3 <= 2) /\ 3 - 2 = 1 /\ 2 + 1 = 3
      OBVIOUS
    <3> QED  BY <1>1, <3>1, <3>2 DEF ConcatOf
  <2> QED  BY <2>1, ThreeLong
<1> QED  BY <1>2, <1>3, <1>4 DEF e, s, t, u, v

LEMMA UpIs ==
  ASSUME NEW w \in Names, NEW x \in Names
  PROVE  /\ Up(<<w, x>>) = <<w>> /\ SubSeq(<<w, x>>, 1, 1) = <<w>> /\ SubSeq(<<w>>, 1, 1) = <<w>>
         /\ SubSeq(<<w>>, 1, 0) = <<>> /\ SubSeq(<<w, x>>, 1, 0) = <<>> /\ SubSeq(<<w, x>>, 1, 2) = <<w, x>>
         /\ SubSeq(<<>>, 1, 0) = <<>>
<1> DEFINE s == <<w>>
           t == <<w, x>>
           e == <<>>
<1>1. s \in Seq(Names) /\ Len(s) = 1 /\ s[1] = w /\ t \in Seq(Names) /\ Len(t) = 2 /\ t[1] = w /\ t[2] = x
      /\ t # <<>> /\ e \in Seq(Names) /\ Len(e) = 0
  OBVIOUS
<1> HIDE DEF s, t, e
<1>2. SubSeq(t, 1, 1) = <<w>>
  <2>1. SubSeq(t, 1, 1) \in Seq(Names) /\ Len(SubSeq(t, 1, 1)) = 1 /\ SubSeq(t, 1, 1)[1] = w
    BY <1>1, SubSeqProperties
  <2> QED  BY <2>1, OneLong
<1>3. SubSeq(s, 1, 1) = <<w>>
  <2>1. SubSeq(s, 1, 1) \in Seq(Names) /\ Len(SubSeq(s, 1, 1)) = 1 /\ SubSeq(s, 1, 1)[1] = w
    BY <1>1, SubSeqProperties
  <2> QED  BY <2>1, OneLong
<1>4. SubSeq(t, 1, 2) = <<w, x>>
  <2>1. SubSeq(t, 1, 2) \in Seq(Names) /\ Len(SubSeq(t, 1, 2)) = 2 /\ SubSeq(t, 1, 2)[1] = w /\ SubSeq(t, 1, 2)[2] = x
    BY <1>1, SubSeqProperties
  <2> QED  BY <2>1, TwoLong
<1>5. SubSeq(s, 1, 0) = <<>> /\ SubSeq(t, 1, 0) = <<>> /\ SubSeq(e, 1, 0) = <<>>
  BY <1>1, SubSeqProperties, EmptySeq
<1>6. Up(t) = SubSeq(t, 1, 1)
  BY <1>1 DEF Up, Front
<1> QED  BY <1>2, <1>3, <1>4, <1>5, <1>6 DEF s, t, e

LEMMA TailIs ==
  ASSUME NEW w, NEW x, NEW y, NEW z
  PROVE  /\ Tail(<<w>>) = <<>> /\ Head(<<w>>) = w /\ <<w>> # <<>>
         /\ Tail(<<w, x>>) = <<x>> /\ Head(<<w, x>>) = w /\ <<w, x>> # <<>>
         /\ Tail(<<w, x, y>>) = <<x, y>> /\ Head(<<w, x, y>>) = w /\ <<w, x, y>> # <<>>
         /\ Tail(<<w, x, y, z>>) = <<x, y, z>> /\ Head(<<w, x, y, z>>) = w /\ <<w, x, y, z>> # <<>>
         /\ Len(<<w>>) = 1 /\ Len(<<w, x>>) = 2 /\ Len(<<w, x, y>>) = 3 /\ Len(<<w, x, y, z>>) = 4
<1>1. Tail(<<w>>) = <<>> /\ Head(<<w>>) = w /\ <<w>> # <<>>
  OBVIOUS
<1>2. Tail(<<w, x>>) = <<x>> /\ Head(<<w, x>>) = w /\ <<w, x>> # <<>>
  OBVIOUS
<1>3. Tail(<<w, x, y>>) = <<x, y>> /\ Head(<<w, x, y>>) = w /\ <<w, x, y>> # <<>>
  OBVIOUS
<1>4. Tail(<<w, x, y, z>>) = <<x, y, z>> /\ Head(<<w, x, y, z>>) = w /\ <<w, x, y, z>> # <<>>
  OBVIOUS
<1> QED  BY <1>1, <1>2, <1>3, <1>4
LEMMA Joined10 == ASSUME NEW w \in Parts PROVE <<w>> \o <<>> = <<w>>
BY JoinedTo
LEMMA Joined11 == ASSUME NEW w \in Parts, NEW x \in Parts PROVE <<w>> \o <<x>> = <<w, x>>
BY JoinedTo
LEMMA Joined21 == ASSUME NEW w \in Parts, NEW x \in Parts, NEW y \in Parts PROVE <<w, x>> \o <<y>> = <<w, x, y>>
BY JoinedTo
LEMMA Joined22 ==
  ASSUME NEW w \in Parts, NEW x \in Parts, NEW y \in Parts, NEW z \in Parts
  PROVE  <<w, x>> \o <<y, z>> = <<w, x, y, z>>
<1> DEFINE t == <<w, x>>
           h == <<y, z>>
<1>1. /\ t \in Seq(Parts) /\ Len(t) = 2 /\ t[1] = w /\ t[2] = x
      /\ h \in Seq(Parts) /\ Len(h) = 2 /\ h[1] = y /\ h[2] = z
  OBVIOUS
<1> HIDE DEF t, h
<1>2. t \o h \in Seq(Parts) /\ Len(t \o h) = 4 /\ (t \o h)[1] = w /\ (t \o h)[2] = x /\ (t \o h)[3] = y /\ (t \o h)[4] = z
  <2>1. ConcatOf(t, h)
    BY <1>1, ConcatsAre, Zenon
  <2>2. /\ t \o h \in Seq(Parts) /\ Len(t \o h) = 4
        /\ \A i \in 1..4 : (t \o h)[i] = IF i <= 2 THEN t[i] ELSE h[i - 2]
    BY <1>1, <2>1 DEF ConcatOf
  <2>3. 1 \in 1..4 /\ 2 \in 1..4 /\ 3 \in 1..4 /\ 4 \in 1..4 /\ 1 <= 2 /\ ~ (3 <= 2) /\ ~ (4 <= 2) /\ 3 - 2 = 1 /\ 4 - 2 = 2
    OBVIOUS
  <2> QED  BY <1>1, <2>2, <2>3
<1>3. t \o h = <<w, x, y, z>>
  BY <1>2, FourLong
<1> QED  BY <1>3 DEF t, h

-----------------------------------------------------------------------------
(* The tree while nothing was replaced.                                    *)

Whole == TreeShape /\ entry = EntriesOf(layout)

(* The tree's entries, kinds, places and names, while nothing was replaced. *)
LEMMA EntriesAre ==
  ASSUME Whole
  PROVE  /\ DOMAIN entry = {"/", "a", "b", "d"}
         /\ \A name \in Names :
              /\ entry["/"][name] = IF name = "a" THEN "a" ELSE IF name = "b" /\ layout # "direct" THEN "b" ELSE Nobody
              /\ entry["a"][name] = IF name = "l" /\ layout # "direct" THEN "l"
                                    ELSE IF name = "f" /\ layout = "direct" THEN "f" ELSE Nobody
              /\ entry["b"][name] = IF name = "d" /\ layout = "dotdot" THEN "d"
                                    ELSE IF name = "f" /\ layout # "direct" THEN "f" ELSE Nobody
              /\ entry["d"][name] = Nobody
<1>1. entry = EntriesOf(layout)
  BY DEF Whole
<1>2. DOMAIN entry = {"/", "a", "b", "d"}
  BY <1>1 DEF EntriesOf
<1>3. /\ entry["/"] = [Empty EXCEPT !["a"] = "a", !["b"] = IF layout = "direct" THEN Nobody ELSE "b"]
      /\ entry["a"] = [Empty EXCEPT !["l"] = IF layout = "direct" THEN Nobody ELSE "l",
                                    !["f"] = IF layout = "direct" THEN "f" ELSE Nobody]
      /\ entry["b"] = [Empty EXCEPT !["d"] = IF layout = "dotdot" THEN "d" ELSE Nobody,
                                    !["f"] = IF layout = "direct" THEN Nobody ELSE "f"]
      /\ entry["d"] = Empty
  BY <1>1 DEF EntriesOf
<1> DEFINE top == entry["/"]
           a == entry["a"]
           b == entry["b"]
           d == entry["d"]
<1> HIDE DEF top, a, b, d
<1>4. ASSUME NEW name \in Names
      PROVE  top[name] = IF name = "a" THEN "a" ELSE IF name = "b" /\ layout # "direct" THEN "b" ELSE Nobody
  BY <1>3 DEF Empty, Names, top
<1>5. ASSUME NEW name \in Names
      PROVE  a[name] = IF name = "l" /\ layout # "direct" THEN "l"
                       ELSE IF name = "f" /\ layout = "direct" THEN "f" ELSE Nobody
  BY <1>3 DEF Empty, Names, a
<1>6. ASSUME NEW name \in Names
      PROVE  b[name] = IF name = "d" /\ layout = "dotdot" THEN "d"
                       ELSE IF name = "f" /\ layout # "direct" THEN "f" ELSE Nobody
  BY <1>3 DEF Empty, Names, b
<1>7. ASSUME NEW name \in Names PROVE d[name] = Nobody
  BY <1>3 DEF Empty, Names, d
<1> QED  BY <1>2, <1>4, <1>5, <1>6, <1>7 DEF top, a, b, d

LEMMA LayoutsAre ==
  ASSUME Whole
  PROVE  layout \in Layouts /\ layout \in {"direct", "linked", "dotdot", "loop"} /\ MaxLinks \in Nat
BY PathsAssumption DEF Whole, TreeShape

LEMMA KindsAre ==
  ASSUME Whole
  PROVE  /\ Is("dir", "/") /\ Is("dir", "a") /\ Is("dir", "b") /\ Is("dir", "d")
         /\ Is("link", "l") /\ Is("file", "f")
         /\ \A node \in {"/", "a", "b", "d", "f", Nobody} : ~Is("link", node)
         /\ ~Is("dir", "l") /\ ~Is("dir", "f") /\ ~Is("dir", Nobody)
         /\ attr["l"].kind = "link" /\ \A node \in {"/", "a", "b", "d", "f"} : attr[node].kind # "link"
         /\ \A node \in {"/", "a", "b", "d"} : attr[node].kind = "dir"
<1>1. /\ attr["/"].kind = "dir" /\ attr["a"].kind = "dir" /\ attr["b"].kind = "dir" /\ attr["d"].kind = "dir"
      /\ attr["l"].kind = "link" /\ attr["f"].kind = "file"
  BY DEF Whole, TreeShape, Nodes
<1> QED  BY <1>1 DEF Is, Nobody

LEMMA PlacesAre ==
  ASSUME Whole
  PROVE  /\ At(<<>>) = "/" /\ At(<<"a">>) = "a"
         /\ layout = "direct" => At(<<"b">>) = Nobody /\ At(<<"a", "f">>) = "f"
         /\ layout # "direct" => At(<<"b">>) = "b" /\ At(<<"a", "l">>) = "l" /\ At(<<"b", "f">>) = "f"
         /\ layout = "dotdot" => At(<<"b", "d">>) = "d"
         /\ layout # "dotdot" => At(<<"b", "d">>) = Nobody
         /\ \A x \in Names : At(<<x>>) = entry["/"][x]
<1>1. <<>> \in Seq(Parts) /\ <<"a">> \in Seq(Parts) /\ <<"b">> \in Seq(Parts)
  BY DEF Parts, Names
<1>2. /\ Append(<<"a">>, "l") = <<"a", "l">> /\ Append(<<"a">>, "f") = <<"a", "f">>
      /\ Append(<<"b">>, "d") = <<"b", "d">> /\ Append(<<"b">>, "f") = <<"b", "f">>
  BY AppendTo DEF Parts, Names
<1>3. \A x \in Names : x \in Parts
  BY DEF Parts
<1>4. \A dir \in {"/", "a", "b", "d"} : \A x : Child(dir, x) = entry[dir][x]
  BY EntriesAre DEF Child
<1>5. ASSUME NEW x \in Names PROVE At(<<x>>) = entry["/"][x]
  <2>1. Append(<<>>, x) = <<x>>
    OBVIOUS
  <2>2. At(Append(<<>>, x)) = Child(At(<<>>), x)
    BY <1>1, <1>3, AtChild
  <2> QED  BY <1>4, <2>1, <2>2, AtRoot
<1>6. At(<<"a">>) = "a" /\ At(<<"b">>) = IF layout = "direct" THEN Nobody ELSE "b"
  BY <1>5, EntriesAre DEF Names
<1>7. At(<<"a", "l">>) = Child("a", "l") /\ At(<<"a", "f">>) = Child("a", "f")
  BY <1>1, <1>2, <1>3, <1>6, AtChild DEF Names
<1>8. At(<<"b", "d">>) = Child(At(<<"b">>), "d") /\ At(<<"b", "f">>) = Child(At(<<"b">>), "f")
  BY <1>1, <1>2, <1>3, AtChild DEF Names
<1>9. Child(Nobody, "d") = Nobody
  BY EntriesAre DEF Child, Nobody
<1>10. Child("a", "l") = entry["a"]["l"] /\ Child("a", "f") = entry["a"]["f"]
       /\ Child("b", "d") = entry["b"]["d"] /\ Child("b", "f") = entry["b"]["f"]
  BY <1>4
<1>11. /\ layout = "direct" => entry["a"]["f"] = "f"
       /\ layout # "direct" => entry["a"]["l"] = "l" /\ entry["b"]["f"] = "f"
       /\ layout = "dotdot" => entry["b"]["d"] = "d"
       /\ layout # "dotdot" => entry["b"]["d"] = Nobody
  BY EntriesAre DEF Names
<1> QED  BY <1>5, <1>6, <1>7, <1>8, <1>9, <1>10, <1>11, AtRoot

LEMMA NamesAre ==
  ASSUME Whole
  PROVE  /\ layout = "direct" => Directory = <<"a">> /\ Name = <<"a", "f">> /\ Target(layout) = <<>>
         /\ layout = "linked" => Directory = <<"a", "l">> /\ Name = <<"a", "l", "f">> /\ Target(layout) = <<"b">>
         /\ layout = "dotdot" => /\ Directory = <<"a", "l", "..">> /\ Name = <<"a", "l", "..", "f">>
                                 /\ Target(layout) = <<"b", "d">>
         /\ layout = "loop" => Directory = <<"a", "l">> /\ Name = <<"a", "l", "f">> /\ Target(layout) = <<"a", "l">>
         /\ Directory \in Seq(Parts) /\ Name \in Seq(Parts)
<1>1. /\ layout = "direct" => Directory = <<"a">> /\ Target(layout) = <<>>
      /\ layout = "linked" => Directory = <<"a", "l">> /\ Target(layout) = <<"b">>
      /\ layout = "dotdot" => Directory = <<"a", "l", "..">> /\ Target(layout) = <<"b", "d">>
      /\ layout = "loop" => Directory = <<"a", "l">> /\ Target(layout) = <<"a", "l">>
  BY DEF Directory, Spelling, Target
<1>2. /\ Append(<<"a">>, "f") = <<"a", "f">> /\ Append(<<"a", "l">>, "f") = <<"a", "l", "f">>
      /\ Append(<<"a", "l", "..">>, "f") = <<"a", "l", "..", "f">>
  <2>1. "a" \in Parts /\ "l" \in Parts /\ ".." \in Parts /\ "f" \in Parts
    BY DEF Parts, Names
  <2>2. Append(<<"a">>, "f") = <<"a", "f">>
    BY <2>1, AppendTo, Zenon
  <2>3. Append(<<"a", "l">>, "f") = <<"a", "l", "f">>
    BY <2>1, AppendTo, Zenon
  <2>4. Append(<<"a", "l", "..">>, "f") = <<"a", "l", "..", "f">>
    <3>1. \A w, x, y, z \in Parts : Append(<<w, x, y>>, z) = <<w, x, y, z>>
      BY AppendTo
    <3> QED  BY <2>1, <3>1
  <2> QED  BY <2>2, <2>3, <2>4
<1>3. /\ <<"a">> \in Seq(Parts) /\ <<"a", "f">> \in Seq(Parts) /\ <<"a", "l">> \in Seq(Parts)
      /\ <<"a", "l", "f">> \in Seq(Parts) /\ <<"a", "l", "..">> \in Seq(Parts) /\ <<"a", "l", "..", "f">> \in Seq(Parts)
  BY DEF Parts, Names
<1>4. Name = Append(Directory, "f")
  BY DEF Name
<1> QED  BY <1>1, <1>2, <1>3, <1>4, LayoutsAre

(* Where a name leads while nothing was replaced.                          *)
LEMMA DirectName ==
  ASSUME Whole, layout = "direct"
  PROVE  /\ Place(Name) = <<"a", "f">>
         /\ ~ (Arrival(Name).links > MaxLinks)
         /\ <<"a", "f">> \in Ends(Name)
<1>1. layout \in Layouts /\ Name \in Seq(Parts) /\ Name = <<"a", "f">> /\ MaxLinks \in Nat
  BY LayoutsAre, NamesAre
<1>2. \A i \in 0..2 : i <= Steps(Name)
  <2>1. Len(Name) = 2
    BY <1>1, TailIs
  <2>2. Steps(Name) = 2 + 3 * MaxLinks + 3
    BY <1>1, <2>1, StepsIsNat
  <2> QED  BY <1>1, <2>2
<1>3. Sees(Name, 0, <<>>, <<"a", "f">>, 0)
  BY <1>1, SeesFirst
<1>4. /\ Sees(Name, 1, <<"a">>, <<"f">>, 0)
      /\ Lookup(Name)[0] \in Looks(Name) /\ Lookup(Name)[0].current = <<>> /\ Descends(Lookup(Name)[0]) /\ Below(Lookup(Name)[0]) = <<"a">>
  <2>1. 0 \in Nat /\ 0 + 1 = 1 /\ 0 + 1 <= Steps(Name) /\ 0 \in Nat /\ 0 <= MaxLinks
    BY <1>1, <1>2
  <2>2. <<"a", "f">> # <<>> /\ Head(<<"a", "f">>) = "a" /\ Tail(<<"a", "f">>) = <<"f">>
    BY TailIs
  <2>3. Append(<<>>, "a") = <<"a">> /\ "a" \in Names
    BY AppendTo DEF Parts, Names
  <2>4. ~Is("link", At(<<"a">>))
    BY PlacesAre, KindsAre
  <2>5. DownFrom(Name, 0, 1, <<>>, <<"a", "f">>, 0, "a", <<"a">>, <<"f">>)
    BY <1>1, <1>3, <2>1, <2>2, <2>3, <2>4 DEF DownFrom
  <2> QED  BY <1>1, <2>5, GoesDown
<1>5. /\ Sees(Name, 2, <<"a", "f">>, <<>>, 0)
      /\ Lookup(Name)[1] \in Looks(Name) /\ Lookup(Name)[1].current = <<"a">> /\ Descends(Lookup(Name)[1]) /\ Below(Lookup(Name)[1]) = <<"a", "f">>
  <2>1. 1 \in Nat /\ 1 + 1 = 2 /\ 1 + 1 <= Steps(Name) /\ 0 \in Nat /\ 0 <= MaxLinks
    BY <1>1, <1>2
  <2>2. <<"f">> # <<>> /\ Head(<<"f">>) = "f" /\ Tail(<<"f">>) = <<>>
    BY TailIs
  <2>3. Append(<<"a">>, "f") = <<"a", "f">> /\ "f" \in Names
    BY AppendTo DEF Parts, Names
  <2>4. ~Is("link", At(<<"a", "f">>))
    BY PlacesAre, KindsAre
  <2>5. DownFrom(Name, 1, 2, <<"a">>, <<"f">>, 0, "f", <<"a", "f">>, <<>>)
    BY <1>1, <1>4, <2>1, <2>2, <2>3, <2>4 DEF DownFrom
  <2> QED  BY <1>1, <2>5, GoesDown
<1>6. StopsAt(Name, 2, <<"a", "f">>, 0)
  BY <1>1, <1>5 DEF StopsAt
<1>7. Arrival(Name).current = <<"a", "f">> /\ Arrival(Name).rest = <<>> /\ Arrival(Name).links = 0
  BY <1>1, <1>6, GoesNoFurther
<1>8. \A look \in Looks(Name) : \E i \in 0..2 : look = Lookup(Name)[i]
  BY <1>1, <1>6, GoesNoFurther
<1>9. ~Descends(Lookup(Name)[2])
  BY <1>1, <1>6, GoesNoFurther
<1>10. ASSUME NEW look \in Looks(Name), Descends(look) PROVE At(Below(look)) # Nobody
  <2>1. PICK i \in 0..2 : look = Lookup(Name)[i]
    BY <1>8
  <2>2. i = 0 \/ i = 1 \/ i = 2
    OBVIOUS
  <2>3. At(<<"a">>) # Nobody /\ At(<<"a", "f">>) # Nobody
    BY PlacesAre DEF Nobody
  <2>4. CASE i = 0
    <3>1. look = Lookup(Name)[0]
      BY <2>1, <2>4
    <3> QED  BY <1>4, <1>10, <2>3, <3>1, Zenon
  <2>5. CASE i = 1
    <3>1. look = Lookup(Name)[1]
      BY <2>1, <2>5
    <3> QED  BY <1>5, <1>10, <2>3, <3>1, Zenon
  <2>6. CASE i = 2
    <3>1. look = Lookup(Name)[2]
      BY <2>1, <2>6
    <3> QED  BY <1>9, <1>10, <2>3, <3>1, Zenon
  <2> QED  BY <2>2, <2>4, <2>5, <2>6
<1>11. Place(Name) = <<"a", "f">>
  BY <1>7, <1>10, Zenon DEF Place
<1>12. ~ (0 > MaxLinks)
  BY <1>1
<1>13. <<"a", "f">> \in Ends(Name)
  BY <1>7 DEF Ends
<1> QED  BY <1>7, <1>11, <1>12, <1>13

(* Where the directory of each layout, and its file, are found.            *)
LEMMA DirectDirectory ==
  ASSUME Whole, layout = "direct"
  PROVE  /\ Place(Directory) = <<"a">>
         /\ <<>> \in Crossed(Directory)
<1>1. layout \in Layouts /\ Directory \in Seq(Parts) /\ Directory = <<"a">> /\ MaxLinks \in Nat
  BY LayoutsAre, NamesAre
<1>2. \A i \in 0..1 : i <= Steps(Directory)
  <2>1. Len(Directory) = 1
    BY <1>1, TailIs
  <2>2. Steps(Directory) = 1 + 3 * MaxLinks + 3
    BY <1>1, <2>1, StepsIsNat
  <2> QED  BY <1>1, <2>2
<1>3. Sees(Directory, 0, <<>>, <<"a">>, 0)
  BY <1>1, SeesFirst
<1>4. /\ Sees(Directory, 1, <<"a">>, <<>>, 0)
      /\ Lookup(Directory)[0] \in Looks(Directory) /\ Lookup(Directory)[0].current = <<>> /\ Descends(Lookup(Directory)[0]) /\ Below(Lookup(Directory)[0]) = <<"a">>
  <2>1. 0 \in Nat /\ 0 + 1 = 1 /\ 0 + 1 <= Steps(Directory) /\ 0 \in Nat /\ 0 <= MaxLinks
    BY <1>1, <1>2
  <2>2. <<"a">> # <<>> /\ Head(<<"a">>) = "a" /\ Tail(<<"a">>) = <<>>
    BY TailIs
  <2>3. Append(<<>>, "a") = <<"a">> /\ "a" \in Names
    BY AppendTo DEF Parts, Names
  <2>4. ~Is("link", At(<<"a">>))
    BY PlacesAre, KindsAre
  <2>5. DownFrom(Directory, 0, 1, <<>>, <<"a">>, 0, "a", <<"a">>, <<>>)
    BY <1>1, <1>3, <2>1, <2>2, <2>3, <2>4 DEF DownFrom
  <2> QED  BY <1>1, <2>5, GoesDown
<1>5. StopsAt(Directory, 1, <<"a">>, 0)
  BY <1>1, <1>4 DEF StopsAt
<1>6. Arrival(Directory).current = <<"a">> /\ Arrival(Directory).rest = <<>> /\ Arrival(Directory).links = 0
  BY <1>1, <1>5, GoesNoFurther
<1>7. \A look \in Looks(Directory) : \E i \in 0..1 : look = Lookup(Directory)[i]
  BY <1>1, <1>5, GoesNoFurther
<1>8. ~Descends(Lookup(Directory)[1])
  BY <1>1, <1>5, GoesNoFurther
<1>9. ASSUME NEW look \in Looks(Directory), Descends(look) PROVE At(Below(look)) # Nobody
  <2>1. PICK i \in 0..1 : look = Lookup(Directory)[i]
    BY <1>7
  <2>2. i = 0 \/ i = 1
    OBVIOUS
  <2>3. At(<<"a">>) # Nobody
    BY PlacesAre DEF Nobody
  <2>4. CASE i = 0
    <3>1. look = Lookup(Directory)[0]
      BY <2>1, <2>4
    <3> QED  BY <1>4, <1>9, <2>3, <3>1, Zenon
  <2>5. CASE i = 1
    <3>1. look = Lookup(Directory)[1]
      BY <2>1, <2>5
    <3> QED  BY <1>8, <1>9, <2>3, <3>1, Zenon
  <2> QED  BY <2>2, <2>4, <2>5
<1>10. Place(Directory) = <<"a">>
  BY <1>6, <1>9, Zenon DEF Place
<1>11. <<>> \in Crossed(Directory)
  BY <1>4 DEF Crossed
<1> QED  BY <1>10, <1>11

LEMMA LinkedName ==
  ASSUME Whole, layout = "linked", MaxLinks > 0
  PROVE  /\ Place(Name) = <<"b", "f">>
         /\ ~ (Arrival(Name).links > MaxLinks)
         /\ <<"a", "l">> \in Ends(Name)
         /\ <<"b", "f">> \in Ends(Name)
<1>1. layout \in Layouts /\ Name \in Seq(Parts) /\ Name = <<"a", "l", "f">> /\ MaxLinks \in Nat
  BY LayoutsAre, NamesAre
<1>2. \A i \in 0..4 : i <= Steps(Name)
  <2>1. Len(Name) = 3
    BY <1>1, TailIs
  <2>2. Steps(Name) = 3 + 3 * MaxLinks + 3
    BY <1>1, <2>1, StepsIsNat
  <2> QED  BY <1>1, <2>2
<1>3. Sees(Name, 0, <<>>, <<"a", "l", "f">>, 0)
  BY <1>1, SeesFirst
<1>4. /\ Sees(Name, 1, <<"a">>, <<"l", "f">>, 0)
      /\ Lookup(Name)[0] \in Looks(Name) /\ Lookup(Name)[0].current = <<>> /\ Descends(Lookup(Name)[0]) /\ Below(Lookup(Name)[0]) = <<"a">>
  <2>1. 0 \in Nat /\ 0 + 1 = 1 /\ 0 + 1 <= Steps(Name) /\ 0 \in Nat /\ 0 <= MaxLinks
    BY <1>1, <1>2
  <2>2. <<"a", "l", "f">> # <<>> /\ Head(<<"a", "l", "f">>) = "a" /\ Tail(<<"a", "l", "f">>) = <<"l", "f">>
    BY TailIs
  <2>3. Append(<<>>, "a") = <<"a">> /\ "a" \in Names
    BY AppendTo DEF Parts, Names
  <2>4. ~Is("link", At(<<"a">>))
    BY PlacesAre, KindsAre
  <2>5. DownFrom(Name, 0, 1, <<>>, <<"a", "l", "f">>, 0, "a", <<"a">>, <<"l", "f">>)
    BY <1>1, <1>3, <2>1, <2>2, <2>3, <2>4 DEF DownFrom
  <2> QED  BY <1>1, <2>5, GoesDown
<1>5. /\ Sees(Name, 2, <<>>, <<"b", "f">>, 1)
      /\ Lookup(Name)[1] \in Looks(Name) /\ Lookup(Name)[1].current = <<"a">> /\ Descends(Lookup(Name)[1]) /\ Below(Lookup(Name)[1]) = <<"a", "l">> /\ Follows(Lookup(Name)[1])
  <2>1. 1 \in Nat /\ 1 + 1 = 2 /\ 1 + 1 <= Steps(Name) /\ 0 \in Nat /\ 0 <= MaxLinks
    BY <1>1, <1>2
  <2>2. <<"l", "f">> # <<>> /\ Head(<<"l", "f">>) = "l" /\ Tail(<<"l", "f">>) = <<"f">>
    BY TailIs
  <2>3. Append(<<"a">>, "l") = <<"a", "l">> /\ "l" \in Names
    BY AppendTo DEF Parts, Names
  <2>4. Is("link", At(<<"a", "l">>))
    BY PlacesAre, KindsAre
  <2>5. Target(layout) \o Tail(<<"l", "f">>) = <<"b", "f">>
    <3>1. Target(layout) = <<"b">> /\ "b" \in Parts /\ "f" \in Parts
      BY NamesAre DEF Parts, Names
    <3>2. <<"b">> \o <<"f">> = <<"b", "f">>
      BY <3>1, Joined11
    <3> QED  BY <2>2, <3>1, <3>2
  <2>6. LinkFrom(Name, 1, 2, <<"a">>, <<"l", "f">>, 0, "l", <<"a", "l">>, <<"b", "f">>, 1)
    BY <1>1, <1>4, <2>1, <2>2, <2>3, <2>4, <2>5 DEF LinkFrom
  <2> QED  BY <1>1, <2>6, GoesOn
<1>6. /\ Sees(Name, 3, <<"b">>, <<"f">>, 1)
      /\ Lookup(Name)[2] \in Looks(Name) /\ Lookup(Name)[2].current = <<>> /\ Descends(Lookup(Name)[2]) /\ Below(Lookup(Name)[2]) = <<"b">>
  <2>1. 2 \in Nat /\ 2 + 1 = 3 /\ 2 + 1 <= Steps(Name) /\ 1 \in Nat /\ 1 <= MaxLinks
    BY <1>1, <1>2
  <2>2. <<"b", "f">> # <<>> /\ Head(<<"b", "f">>) = "b" /\ Tail(<<"b", "f">>) = <<"f">>
    BY TailIs
  <2>3. Append(<<>>, "b") = <<"b">> /\ "b" \in Names
    BY AppendTo DEF Parts, Names
  <2>4. ~Is("link", At(<<"b">>))
    BY PlacesAre, KindsAre
  <2>5. DownFrom(Name, 2, 3, <<>>, <<"b", "f">>, 1, "b", <<"b">>, <<"f">>)
    BY <1>1, <1>5, <2>1, <2>2, <2>3, <2>4 DEF DownFrom
  <2> QED  BY <1>1, <2>5, GoesDown
<1>7. /\ Sees(Name, 4, <<"b", "f">>, <<>>, 1)
      /\ Lookup(Name)[3] \in Looks(Name) /\ Lookup(Name)[3].current = <<"b">> /\ Descends(Lookup(Name)[3]) /\ Below(Lookup(Name)[3]) = <<"b", "f">>
  <2>1. 3 \in Nat /\ 3 + 1 = 4 /\ 3 + 1 <= Steps(Name) /\ 1 \in Nat /\ 1 <= MaxLinks
    BY <1>1, <1>2
  <2>2. <<"f">> # <<>> /\ Head(<<"f">>) = "f" /\ Tail(<<"f">>) = <<>>
    BY TailIs
  <2>3. Append(<<"b">>, "f") = <<"b", "f">> /\ "f" \in Names
    BY AppendTo DEF Parts, Names
  <2>4. ~Is("link", At(<<"b", "f">>))
    BY PlacesAre, KindsAre
  <2>5. DownFrom(Name, 3, 4, <<"b">>, <<"f">>, 1, "f", <<"b", "f">>, <<>>)
    BY <1>1, <1>6, <2>1, <2>2, <2>3, <2>4 DEF DownFrom
  <2> QED  BY <1>1, <2>5, GoesDown
<1>8. StopsAt(Name, 4, <<"b", "f">>, 1)
  BY <1>1, <1>7 DEF StopsAt
<1>9. Arrival(Name).current = <<"b", "f">> /\ Arrival(Name).rest = <<>> /\ Arrival(Name).links = 1
  BY <1>1, <1>8, GoesNoFurther
<1>10. \A look \in Looks(Name) : \E i \in 0..4 : look = Lookup(Name)[i]
  BY <1>1, <1>8, GoesNoFurther
<1>11. ~Descends(Lookup(Name)[4])
  BY <1>1, <1>8, GoesNoFurther
<1>12. ASSUME NEW look \in Looks(Name), Descends(look) PROVE At(Below(look)) # Nobody
  <2>1. PICK i \in 0..4 : look = Lookup(Name)[i]
    BY <1>10
  <2>2. i = 0 \/ i = 1 \/ i = 2 \/ i = 3 \/ i = 4
    OBVIOUS
  <2>3. At(<<"a">>) # Nobody /\ At(<<"a", "l">>) # Nobody /\ At(<<"b">>) # Nobody /\ At(<<"b", "f">>) # Nobody
    BY PlacesAre DEF Nobody
  <2>4. CASE i = 0
    <3>1. look = Lookup(Name)[0]
      BY <2>1, <2>4
    <3> QED  BY <1>4, <1>12, <2>3, <3>1, Zenon
  <2>5. CASE i = 1
    <3>1. look = Lookup(Name)[1]
      BY <2>1, <2>5
    <3> QED  BY <1>5, <1>12, <2>3, <3>1, Zenon
  <2>6. CASE i = 2
    <3>1. look = Lookup(Name)[2]
      BY <2>1, <2>6
    <3> QED  BY <1>6, <1>12, <2>3, <3>1, Zenon
  <2>7. CASE i = 3
    <3>1. look = Lookup(Name)[3]
      BY <2>1, <2>7
    <3> QED  BY <1>7, <1>12, <2>3, <3>1, Zenon
  <2>8. CASE i = 4
    <3>1. look = Lookup(Name)[4]
      BY <2>1, <2>8
    <3> QED  BY <1>11, <1>12, <2>3, <3>1, Zenon
  <2> QED  BY <2>2, <2>4, <2>5, <2>6, <2>7, <2>8
<1>13. Place(Name) = <<"b", "f">>
  BY <1>9, <1>12, Zenon DEF Place
<1>14. ~ (1 > MaxLinks)
  BY <1>1
<1>15. <<"a", "l">> \in Ends(Name)
  BY <1>5 DEF Ends
<1>16. <<"b", "f">> \in Ends(Name)
  BY <1>9 DEF Ends
<1> QED  BY <1>9, <1>13, <1>14, <1>15, <1>16

LEMMA LinkedDirectory ==
  ASSUME Whole, layout = "linked", MaxLinks > 0
  PROVE  /\ Place(Directory) = <<"b">>
         /\ <<>> \in Crossed(Directory)
         /\ <<"a">> \in Crossed(Directory)
         /\ <<"a", "l">> \in Followed(Directory)
<1>1. layout \in Layouts /\ Directory \in Seq(Parts) /\ Directory = <<"a", "l">> /\ MaxLinks \in Nat
  BY LayoutsAre, NamesAre
<1>2. \A i \in 0..3 : i <= Steps(Directory)
  <2>1. Len(Directory) = 2
    BY <1>1, TailIs
  <2>2. Steps(Directory) = 2 + 3 * MaxLinks + 3
    BY <1>1, <2>1, StepsIsNat
  <2> QED  BY <1>1, <2>2
<1>3. Sees(Directory, 0, <<>>, <<"a", "l">>, 0)
  BY <1>1, SeesFirst
<1>4. /\ Sees(Directory, 1, <<"a">>, <<"l">>, 0)
      /\ Lookup(Directory)[0] \in Looks(Directory) /\ Lookup(Directory)[0].current = <<>> /\ Descends(Lookup(Directory)[0]) /\ Below(Lookup(Directory)[0]) = <<"a">>
  <2>1. 0 \in Nat /\ 0 + 1 = 1 /\ 0 + 1 <= Steps(Directory) /\ 0 \in Nat /\ 0 <= MaxLinks
    BY <1>1, <1>2
  <2>2. <<"a", "l">> # <<>> /\ Head(<<"a", "l">>) = "a" /\ Tail(<<"a", "l">>) = <<"l">>
    BY TailIs
  <2>3. Append(<<>>, "a") = <<"a">> /\ "a" \in Names
    BY AppendTo DEF Parts, Names
  <2>4. ~Is("link", At(<<"a">>))
    BY PlacesAre, KindsAre
  <2>5. DownFrom(Directory, 0, 1, <<>>, <<"a", "l">>, 0, "a", <<"a">>, <<"l">>)
    BY <1>1, <1>3, <2>1, <2>2, <2>3, <2>4 DEF DownFrom
  <2> QED  BY <1>1, <2>5, GoesDown
<1>5. /\ Sees(Directory, 2, <<>>, <<"b">>, 1)
      /\ Lookup(Directory)[1] \in Looks(Directory) /\ Lookup(Directory)[1].current = <<"a">> /\ Descends(Lookup(Directory)[1]) /\ Below(Lookup(Directory)[1]) = <<"a", "l">> /\ Follows(Lookup(Directory)[1])
  <2>1. 1 \in Nat /\ 1 + 1 = 2 /\ 1 + 1 <= Steps(Directory) /\ 0 \in Nat /\ 0 <= MaxLinks
    BY <1>1, <1>2
  <2>2. <<"l">> # <<>> /\ Head(<<"l">>) = "l" /\ Tail(<<"l">>) = <<>>
    BY TailIs
  <2>3. Append(<<"a">>, "l") = <<"a", "l">> /\ "l" \in Names
    BY AppendTo DEF Parts, Names
  <2>4. Is("link", At(<<"a", "l">>))
    BY PlacesAre, KindsAre
  <2>5. Target(layout) \o Tail(<<"l">>) = <<"b">>
    <3>1. Target(layout) = <<"b">> /\ "b" \in Parts
      BY NamesAre DEF Parts, Names
    <3>2. <<"b">> \o <<>> = <<"b">>
      BY <3>1, Joined10
    <3> QED  BY <2>2, <3>1, <3>2
  <2>6. LinkFrom(Directory, 1, 2, <<"a">>, <<"l">>, 0, "l", <<"a", "l">>, <<"b">>, 1)
    BY <1>1, <1>4, <2>1, <2>2, <2>3, <2>4, <2>5 DEF LinkFrom
  <2> QED  BY <1>1, <2>6, GoesOn
<1>6. /\ Sees(Directory, 3, <<"b">>, <<>>, 1)
      /\ Lookup(Directory)[2] \in Looks(Directory) /\ Lookup(Directory)[2].current = <<>> /\ Descends(Lookup(Directory)[2]) /\ Below(Lookup(Directory)[2]) = <<"b">>
  <2>1. 2 \in Nat /\ 2 + 1 = 3 /\ 2 + 1 <= Steps(Directory) /\ 1 \in Nat /\ 1 <= MaxLinks
    BY <1>1, <1>2
  <2>2. <<"b">> # <<>> /\ Head(<<"b">>) = "b" /\ Tail(<<"b">>) = <<>>
    BY TailIs
  <2>3. Append(<<>>, "b") = <<"b">> /\ "b" \in Names
    BY AppendTo DEF Parts, Names
  <2>4. ~Is("link", At(<<"b">>))
    BY PlacesAre, KindsAre
  <2>5. DownFrom(Directory, 2, 3, <<>>, <<"b">>, 1, "b", <<"b">>, <<>>)
    BY <1>1, <1>5, <2>1, <2>2, <2>3, <2>4 DEF DownFrom
  <2> QED  BY <1>1, <2>5, GoesDown
<1>7. StopsAt(Directory, 3, <<"b">>, 1)
  BY <1>1, <1>6 DEF StopsAt
<1>8. Arrival(Directory).current = <<"b">> /\ Arrival(Directory).rest = <<>> /\ Arrival(Directory).links = 1
  BY <1>1, <1>7, GoesNoFurther
<1>9. \A look \in Looks(Directory) : \E i \in 0..3 : look = Lookup(Directory)[i]
  BY <1>1, <1>7, GoesNoFurther
<1>10. ~Descends(Lookup(Directory)[3])
  BY <1>1, <1>7, GoesNoFurther
<1>11. ASSUME NEW look \in Looks(Directory), Descends(look) PROVE At(Below(look)) # Nobody
  <2>1. PICK i \in 0..3 : look = Lookup(Directory)[i]
    BY <1>9
  <2>2. i = 0 \/ i = 1 \/ i = 2 \/ i = 3
    OBVIOUS
  <2>3. At(<<"a">>) # Nobody /\ At(<<"a", "l">>) # Nobody /\ At(<<"b">>) # Nobody
    BY PlacesAre DEF Nobody
  <2>4. CASE i = 0
    <3>1. look = Lookup(Directory)[0]
      BY <2>1, <2>4
    <3> QED  BY <1>4, <1>11, <2>3, <3>1, Zenon
  <2>5. CASE i = 1
    <3>1. look = Lookup(Directory)[1]
      BY <2>1, <2>5
    <3> QED  BY <1>5, <1>11, <2>3, <3>1, Zenon
  <2>6. CASE i = 2
    <3>1. look = Lookup(Directory)[2]
      BY <2>1, <2>6
    <3> QED  BY <1>6, <1>11, <2>3, <3>1, Zenon
  <2>7. CASE i = 3
    <3>1. look = Lookup(Directory)[3]
      BY <2>1, <2>7
    <3> QED  BY <1>10, <1>11, <2>3, <3>1, Zenon
  <2> QED  BY <2>2, <2>4, <2>5, <2>6, <2>7
<1>12. Place(Directory) = <<"b">>
  BY <1>8, <1>11, Zenon DEF Place
<1>13. <<>> \in Crossed(Directory)
  BY <1>4 DEF Crossed
<1>14. <<"a">> \in Crossed(Directory)
  BY <1>5 DEF Crossed
<1>15. <<"a", "l">> \in Followed(Directory)
  BY <1>5 DEF Followed
<1> QED  BY <1>12, <1>13, <1>14, <1>15

LEMMA DotdotName ==
  ASSUME Whole, layout = "dotdot", MaxLinks > 0
  PROVE  /\ Place(Name) = <<"b", "f">>
         /\ ~ (Arrival(Name).links > MaxLinks)
         /\ <<"a", "l">> \in Ends(Name)
         /\ <<"b", "d">> \in Ends(Name)
         /\ <<"b", "f">> \in Ends(Name)
<1>1. layout \in Layouts /\ Name \in Seq(Parts) /\ Name = <<"a", "l", "..", "f">> /\ MaxLinks \in Nat
  BY LayoutsAre, NamesAre
<1>2. \A i \in 0..6 : i <= Steps(Name)
  <2>1. Len(Name) = 4
    BY <1>1, TailIs
  <2>2. Steps(Name) = 4 + 3 * MaxLinks + 3
    BY <1>1, <2>1, StepsIsNat
  <2> QED  BY <1>1, <2>2
<1>3. Sees(Name, 0, <<>>, <<"a", "l", "..", "f">>, 0)
  BY <1>1, SeesFirst
<1>4. /\ Sees(Name, 1, <<"a">>, <<"l", "..", "f">>, 0)
      /\ Lookup(Name)[0] \in Looks(Name) /\ Lookup(Name)[0].current = <<>> /\ Descends(Lookup(Name)[0]) /\ Below(Lookup(Name)[0]) = <<"a">>
  <2>1. 0 \in Nat /\ 0 + 1 = 1 /\ 0 + 1 <= Steps(Name) /\ 0 \in Nat /\ 0 <= MaxLinks
    BY <1>1, <1>2
  <2>2. <<"a", "l", "..", "f">> # <<>> /\ Head(<<"a", "l", "..", "f">>) = "a" /\ Tail(<<"a", "l", "..", "f">>) = <<"l", "..", "f">>
    BY TailIs
  <2>3. Append(<<>>, "a") = <<"a">> /\ "a" \in Names
    BY AppendTo DEF Parts, Names
  <2>4. ~Is("link", At(<<"a">>))
    BY PlacesAre, KindsAre
  <2>5. DownFrom(Name, 0, 1, <<>>, <<"a", "l", "..", "f">>, 0, "a", <<"a">>, <<"l", "..", "f">>)
    BY <1>1, <1>3, <2>1, <2>2, <2>3, <2>4 DEF DownFrom
  <2> QED  BY <1>1, <2>5, GoesDown
<1>5. /\ Sees(Name, 2, <<>>, <<"b", "d", "..", "f">>, 1)
      /\ Lookup(Name)[1] \in Looks(Name) /\ Lookup(Name)[1].current = <<"a">> /\ Descends(Lookup(Name)[1]) /\ Below(Lookup(Name)[1]) = <<"a", "l">> /\ Follows(Lookup(Name)[1])
  <2>1. 1 \in Nat /\ 1 + 1 = 2 /\ 1 + 1 <= Steps(Name) /\ 0 \in Nat /\ 0 <= MaxLinks
    BY <1>1, <1>2
  <2>2. <<"l", "..", "f">> # <<>> /\ Head(<<"l", "..", "f">>) = "l" /\ Tail(<<"l", "..", "f">>) = <<"..", "f">>
    BY TailIs
  <2>3. Append(<<"a">>, "l") = <<"a", "l">> /\ "l" \in Names
    BY AppendTo DEF Parts, Names
  <2>4. Is("link", At(<<"a", "l">>))
    BY PlacesAre, KindsAre
  <2>5. Target(layout) \o Tail(<<"l", "..", "f">>) = <<"b", "d", "..", "f">>
    <3>1. Target(layout) = <<"b", "d">> /\ "b" \in Parts /\ "d" \in Parts /\ ".." \in Parts /\ "f" \in Parts
      BY NamesAre DEF Parts, Names
    <3>2. <<"b", "d">> \o <<"..", "f">> = <<"b", "d", "..", "f">>
      BY <3>1, Joined22
    <3> QED  BY <2>2, <3>1, <3>2
  <2>6. LinkFrom(Name, 1, 2, <<"a">>, <<"l", "..", "f">>, 0, "l", <<"a", "l">>, <<"b", "d", "..", "f">>, 1)
    BY <1>1, <1>4, <2>1, <2>2, <2>3, <2>4, <2>5 DEF LinkFrom
  <2> QED  BY <1>1, <2>6, GoesOn
<1>6. /\ Sees(Name, 3, <<"b">>, <<"d", "..", "f">>, 1)
      /\ Lookup(Name)[2] \in Looks(Name) /\ Lookup(Name)[2].current = <<>> /\ Descends(Lookup(Name)[2]) /\ Below(Lookup(Name)[2]) = <<"b">>
  <2>1. 2 \in Nat /\ 2 + 1 = 3 /\ 2 + 1 <= Steps(Name) /\ 1 \in Nat /\ 1 <= MaxLinks
    BY <1>1, <1>2
  <2>2. <<"b", "d", "..", "f">> # <<>> /\ Head(<<"b", "d", "..", "f">>) = "b" /\ Tail(<<"b", "d", "..", "f">>) = <<"d", "..", "f">>
    BY TailIs
  <2>3. Append(<<>>, "b") = <<"b">> /\ "b" \in Names
    BY AppendTo DEF Parts, Names
  <2>4. ~Is("link", At(<<"b">>))
    BY PlacesAre, KindsAre
  <2>5. DownFrom(Name, 2, 3, <<>>, <<"b", "d", "..", "f">>, 1, "b", <<"b">>, <<"d", "..", "f">>)
    BY <1>1, <1>5, <2>1, <2>2, <2>3, <2>4 DEF DownFrom
  <2> QED  BY <1>1, <2>5, GoesDown
<1>7. /\ Sees(Name, 4, <<"b", "d">>, <<"..", "f">>, 1)
      /\ Lookup(Name)[3] \in Looks(Name) /\ Lookup(Name)[3].current = <<"b">> /\ Descends(Lookup(Name)[3]) /\ Below(Lookup(Name)[3]) = <<"b", "d">>
  <2>1. 3 \in Nat /\ 3 + 1 = 4 /\ 3 + 1 <= Steps(Name) /\ 1 \in Nat /\ 1 <= MaxLinks
    BY <1>1, <1>2
  <2>2. <<"d", "..", "f">> # <<>> /\ Head(<<"d", "..", "f">>) = "d" /\ Tail(<<"d", "..", "f">>) = <<"..", "f">>
    BY TailIs
  <2>3. Append(<<"b">>, "d") = <<"b", "d">> /\ "d" \in Names
    BY AppendTo DEF Parts, Names
  <2>4. ~Is("link", At(<<"b", "d">>))
    BY PlacesAre, KindsAre
  <2>5. DownFrom(Name, 3, 4, <<"b">>, <<"d", "..", "f">>, 1, "d", <<"b", "d">>, <<"..", "f">>)
    BY <1>1, <1>6, <2>1, <2>2, <2>3, <2>4 DEF DownFrom
  <2> QED  BY <1>1, <2>5, GoesDown
<1>8. /\ Sees(Name, 5, <<"b">>, <<"f">>, 1)
      /\ Lookup(Name)[4] \in Looks(Name) /\ Lookup(Name)[4].current = <<"b", "d">> /\ StepsBack(Lookup(Name)[4]) /\ ~Descends(Lookup(Name)[4])
  <2>1. 4 \in Nat /\ 4 + 1 = 5 /\ 4 + 1 <= Steps(Name) /\ 1 \in Nat /\ 1 <= MaxLinks
    BY <1>1, <1>2
  <2>2. <<"..", "f">> # <<>> /\ Head(<<"..", "f">>) = ".." /\ Tail(<<"..", "f">>) = <<"f">>
    BY TailIs
  <2>3. Up(<<"b", "d">>) = <<"b">>
    BY UpIs DEF Names
  <2>4. UpFrom(Name, 4, 5, <<"b", "d">>, <<"..", "f">>, 1, <<"b">>, <<"f">>)
    BY <1>1, <1>7, <2>1, <2>2, <2>3 DEF UpFrom
  <2> QED  BY <1>1, <2>4, GoesUp
<1>9. /\ Sees(Name, 6, <<"b", "f">>, <<>>, 1)
      /\ Lookup(Name)[5] \in Looks(Name) /\ Lookup(Name)[5].current = <<"b">> /\ Descends(Lookup(Name)[5]) /\ Below(Lookup(Name)[5]) = <<"b", "f">>
  <2>1. 5 \in Nat /\ 5 + 1 = 6 /\ 5 + 1 <= Steps(Name) /\ 1 \in Nat /\ 1 <= MaxLinks
    BY <1>1, <1>2
  <2>2. <<"f">> # <<>> /\ Head(<<"f">>) = "f" /\ Tail(<<"f">>) = <<>>
    BY TailIs
  <2>3. Append(<<"b">>, "f") = <<"b", "f">> /\ "f" \in Names
    BY AppendTo DEF Parts, Names
  <2>4. ~Is("link", At(<<"b", "f">>))
    BY PlacesAre, KindsAre
  <2>5. DownFrom(Name, 5, 6, <<"b">>, <<"f">>, 1, "f", <<"b", "f">>, <<>>)
    BY <1>1, <1>8, <2>1, <2>2, <2>3, <2>4 DEF DownFrom
  <2> QED  BY <1>1, <2>5, GoesDown
<1>10. StopsAt(Name, 6, <<"b", "f">>, 1)
  BY <1>1, <1>9 DEF StopsAt
<1>11. Arrival(Name).current = <<"b", "f">> /\ Arrival(Name).rest = <<>> /\ Arrival(Name).links = 1
  BY <1>1, <1>10, GoesNoFurther
<1>12. \A look \in Looks(Name) : \E i \in 0..6 : look = Lookup(Name)[i]
  BY <1>1, <1>10, GoesNoFurther
<1>13. ~Descends(Lookup(Name)[6])
  BY <1>1, <1>10, GoesNoFurther
<1>14. ASSUME NEW look \in Looks(Name), Descends(look) PROVE At(Below(look)) # Nobody
  <2>1. PICK i \in 0..6 : look = Lookup(Name)[i]
    BY <1>12
  <2>2. i = 0 \/ i = 1 \/ i = 2 \/ i = 3 \/ i = 4 \/ i = 5 \/ i = 6
    OBVIOUS
  <2>3. At(<<"a">>) # Nobody /\ At(<<"a", "l">>) # Nobody /\ At(<<"b">>) # Nobody /\ At(<<"b", "d">>) # Nobody /\ At(<<"b", "f">>) # Nobody
    BY PlacesAre DEF Nobody
  <2>4. CASE i = 0
    <3>1. look = Lookup(Name)[0]
      BY <2>1, <2>4
    <3> QED  BY <1>4, <1>14, <2>3, <3>1, Zenon
  <2>5. CASE i = 1
    <3>1. look = Lookup(Name)[1]
      BY <2>1, <2>5
    <3> QED  BY <1>5, <1>14, <2>3, <3>1, Zenon
  <2>6. CASE i = 2
    <3>1. look = Lookup(Name)[2]
      BY <2>1, <2>6
    <3> QED  BY <1>6, <1>14, <2>3, <3>1, Zenon
  <2>7. CASE i = 3
    <3>1. look = Lookup(Name)[3]
      BY <2>1, <2>7
    <3> QED  BY <1>7, <1>14, <2>3, <3>1, Zenon
  <2>8. CASE i = 4
    <3>1. look = Lookup(Name)[4]
      BY <2>1, <2>8
    <3> QED  BY <1>8, <1>14, <2>3, <3>1, Zenon
  <2>9. CASE i = 5
    <3>1. look = Lookup(Name)[5]
      BY <2>1, <2>9
    <3> QED  BY <1>9, <1>14, <2>3, <3>1, Zenon
  <2>10. CASE i = 6
    <3>1. look = Lookup(Name)[6]
      BY <2>1, <2>10
    <3> QED  BY <1>13, <1>14, <2>3, <3>1, Zenon
  <2> QED  BY <2>2, <2>4, <2>5, <2>6, <2>7, <2>8, <2>9, <2>10
<1>15. Place(Name) = <<"b", "f">>
  BY <1>11, <1>14, Zenon DEF Place
<1>16. ~ (1 > MaxLinks)
  BY <1>1
<1>17. <<"a", "l">> \in Ends(Name)
  BY <1>5 DEF Ends
<1>18. <<"b", "d">> \in Ends(Name)
  BY <1>8 DEF Ends
<1>19. <<"b", "f">> \in Ends(Name)
  BY <1>11 DEF Ends
<1> QED  BY <1>11, <1>15, <1>16, <1>17, <1>18, <1>19

LEMMA DotdotDirectory ==
  ASSUME Whole, layout = "dotdot", MaxLinks > 0
  PROVE  /\ Place(Directory) = <<"b">>
         /\ <<>> \in Crossed(Directory)
         /\ <<"a">> \in Crossed(Directory)
         /\ <<"b">> \in Crossed(Directory)
         /\ <<"a", "l">> \in Followed(Directory)
<1>1. layout \in Layouts /\ Directory \in Seq(Parts) /\ Directory = <<"a", "l", "..">> /\ MaxLinks \in Nat
  BY LayoutsAre, NamesAre
<1>2. \A i \in 0..5 : i <= Steps(Directory)
  <2>1. Len(Directory) = 3
    BY <1>1, TailIs
  <2>2. Steps(Directory) = 3 + 3 * MaxLinks + 3
    BY <1>1, <2>1, StepsIsNat
  <2> QED  BY <1>1, <2>2
<1>3. Sees(Directory, 0, <<>>, <<"a", "l", "..">>, 0)
  BY <1>1, SeesFirst
<1>4. /\ Sees(Directory, 1, <<"a">>, <<"l", "..">>, 0)
      /\ Lookup(Directory)[0] \in Looks(Directory) /\ Lookup(Directory)[0].current = <<>> /\ Descends(Lookup(Directory)[0]) /\ Below(Lookup(Directory)[0]) = <<"a">>
  <2>1. 0 \in Nat /\ 0 + 1 = 1 /\ 0 + 1 <= Steps(Directory) /\ 0 \in Nat /\ 0 <= MaxLinks
    BY <1>1, <1>2
  <2>2. <<"a", "l", "..">> # <<>> /\ Head(<<"a", "l", "..">>) = "a" /\ Tail(<<"a", "l", "..">>) = <<"l", "..">>
    BY TailIs
  <2>3. Append(<<>>, "a") = <<"a">> /\ "a" \in Names
    BY AppendTo DEF Parts, Names
  <2>4. ~Is("link", At(<<"a">>))
    BY PlacesAre, KindsAre
  <2>5. DownFrom(Directory, 0, 1, <<>>, <<"a", "l", "..">>, 0, "a", <<"a">>, <<"l", "..">>)
    BY <1>1, <1>3, <2>1, <2>2, <2>3, <2>4 DEF DownFrom
  <2> QED  BY <1>1, <2>5, GoesDown
<1>5. /\ Sees(Directory, 2, <<>>, <<"b", "d", "..">>, 1)
      /\ Lookup(Directory)[1] \in Looks(Directory) /\ Lookup(Directory)[1].current = <<"a">> /\ Descends(Lookup(Directory)[1]) /\ Below(Lookup(Directory)[1]) = <<"a", "l">> /\ Follows(Lookup(Directory)[1])
  <2>1. 1 \in Nat /\ 1 + 1 = 2 /\ 1 + 1 <= Steps(Directory) /\ 0 \in Nat /\ 0 <= MaxLinks
    BY <1>1, <1>2
  <2>2. <<"l", "..">> # <<>> /\ Head(<<"l", "..">>) = "l" /\ Tail(<<"l", "..">>) = <<"..">>
    BY TailIs
  <2>3. Append(<<"a">>, "l") = <<"a", "l">> /\ "l" \in Names
    BY AppendTo DEF Parts, Names
  <2>4. Is("link", At(<<"a", "l">>))
    BY PlacesAre, KindsAre
  <2>5. Target(layout) \o Tail(<<"l", "..">>) = <<"b", "d", "..">>
    <3>1. Target(layout) = <<"b", "d">> /\ "b" \in Parts /\ "d" \in Parts /\ ".." \in Parts
      BY NamesAre DEF Parts, Names
    <3>2. <<"b", "d">> \o <<"..">> = <<"b", "d", "..">>
      BY <3>1, Joined21
    <3> QED  BY <2>2, <3>1, <3>2
  <2>6. LinkFrom(Directory, 1, 2, <<"a">>, <<"l", "..">>, 0, "l", <<"a", "l">>, <<"b", "d", "..">>, 1)
    BY <1>1, <1>4, <2>1, <2>2, <2>3, <2>4, <2>5 DEF LinkFrom
  <2> QED  BY <1>1, <2>6, GoesOn
<1>6. /\ Sees(Directory, 3, <<"b">>, <<"d", "..">>, 1)
      /\ Lookup(Directory)[2] \in Looks(Directory) /\ Lookup(Directory)[2].current = <<>> /\ Descends(Lookup(Directory)[2]) /\ Below(Lookup(Directory)[2]) = <<"b">>
  <2>1. 2 \in Nat /\ 2 + 1 = 3 /\ 2 + 1 <= Steps(Directory) /\ 1 \in Nat /\ 1 <= MaxLinks
    BY <1>1, <1>2
  <2>2. <<"b", "d", "..">> # <<>> /\ Head(<<"b", "d", "..">>) = "b" /\ Tail(<<"b", "d", "..">>) = <<"d", "..">>
    BY TailIs
  <2>3. Append(<<>>, "b") = <<"b">> /\ "b" \in Names
    BY AppendTo DEF Parts, Names
  <2>4. ~Is("link", At(<<"b">>))
    BY PlacesAre, KindsAre
  <2>5. DownFrom(Directory, 2, 3, <<>>, <<"b", "d", "..">>, 1, "b", <<"b">>, <<"d", "..">>)
    BY <1>1, <1>5, <2>1, <2>2, <2>3, <2>4 DEF DownFrom
  <2> QED  BY <1>1, <2>5, GoesDown
<1>7. /\ Sees(Directory, 4, <<"b", "d">>, <<"..">>, 1)
      /\ Lookup(Directory)[3] \in Looks(Directory) /\ Lookup(Directory)[3].current = <<"b">> /\ Descends(Lookup(Directory)[3]) /\ Below(Lookup(Directory)[3]) = <<"b", "d">>
  <2>1. 3 \in Nat /\ 3 + 1 = 4 /\ 3 + 1 <= Steps(Directory) /\ 1 \in Nat /\ 1 <= MaxLinks
    BY <1>1, <1>2
  <2>2. <<"d", "..">> # <<>> /\ Head(<<"d", "..">>) = "d" /\ Tail(<<"d", "..">>) = <<"..">>
    BY TailIs
  <2>3. Append(<<"b">>, "d") = <<"b", "d">> /\ "d" \in Names
    BY AppendTo DEF Parts, Names
  <2>4. ~Is("link", At(<<"b", "d">>))
    BY PlacesAre, KindsAre
  <2>5. DownFrom(Directory, 3, 4, <<"b">>, <<"d", "..">>, 1, "d", <<"b", "d">>, <<"..">>)
    BY <1>1, <1>6, <2>1, <2>2, <2>3, <2>4 DEF DownFrom
  <2> QED  BY <1>1, <2>5, GoesDown
<1>8. /\ Sees(Directory, 5, <<"b">>, <<>>, 1)
      /\ Lookup(Directory)[4] \in Looks(Directory) /\ Lookup(Directory)[4].current = <<"b", "d">> /\ StepsBack(Lookup(Directory)[4]) /\ ~Descends(Lookup(Directory)[4])
  <2>1. 4 \in Nat /\ 4 + 1 = 5 /\ 4 + 1 <= Steps(Directory) /\ 1 \in Nat /\ 1 <= MaxLinks
    BY <1>1, <1>2
  <2>2. <<"..">> # <<>> /\ Head(<<"..">>) = ".." /\ Tail(<<"..">>) = <<>>
    BY TailIs
  <2>3. Up(<<"b", "d">>) = <<"b">>
    BY UpIs DEF Names
  <2>4. UpFrom(Directory, 4, 5, <<"b", "d">>, <<"..">>, 1, <<"b">>, <<>>)
    BY <1>1, <1>7, <2>1, <2>2, <2>3 DEF UpFrom
  <2> QED  BY <1>1, <2>4, GoesUp
<1>9. StopsAt(Directory, 5, <<"b">>, 1)
  BY <1>1, <1>8 DEF StopsAt
<1>10. Arrival(Directory).current = <<"b">> /\ Arrival(Directory).rest = <<>> /\ Arrival(Directory).links = 1
  BY <1>1, <1>9, GoesNoFurther
<1>11. \A look \in Looks(Directory) : \E i \in 0..5 : look = Lookup(Directory)[i]
  BY <1>1, <1>9, GoesNoFurther
<1>12. ~Descends(Lookup(Directory)[5])
  BY <1>1, <1>9, GoesNoFurther
<1>13. ASSUME NEW look \in Looks(Directory), Descends(look) PROVE At(Below(look)) # Nobody
  <2>1. PICK i \in 0..5 : look = Lookup(Directory)[i]
    BY <1>11
  <2>2. i = 0 \/ i = 1 \/ i = 2 \/ i = 3 \/ i = 4 \/ i = 5
    OBVIOUS
  <2>3. At(<<"a">>) # Nobody /\ At(<<"a", "l">>) # Nobody /\ At(<<"b">>) # Nobody /\ At(<<"b", "d">>) # Nobody
    BY PlacesAre DEF Nobody
  <2>4. CASE i = 0
    <3>1. look = Lookup(Directory)[0]
      BY <2>1, <2>4
    <3> QED  BY <1>4, <1>13, <2>3, <3>1, Zenon
  <2>5. CASE i = 1
    <3>1. look = Lookup(Directory)[1]
      BY <2>1, <2>5
    <3> QED  BY <1>5, <1>13, <2>3, <3>1, Zenon
  <2>6. CASE i = 2
    <3>1. look = Lookup(Directory)[2]
      BY <2>1, <2>6
    <3> QED  BY <1>6, <1>13, <2>3, <3>1, Zenon
  <2>7. CASE i = 3
    <3>1. look = Lookup(Directory)[3]
      BY <2>1, <2>7
    <3> QED  BY <1>7, <1>13, <2>3, <3>1, Zenon
  <2>8. CASE i = 4
    <3>1. look = Lookup(Directory)[4]
      BY <2>1, <2>8
    <3> QED  BY <1>8, <1>13, <2>3, <3>1, Zenon
  <2>9. CASE i = 5
    <3>1. look = Lookup(Directory)[5]
      BY <2>1, <2>9
    <3> QED  BY <1>12, <1>13, <2>3, <3>1, Zenon
  <2> QED  BY <2>2, <2>4, <2>5, <2>6, <2>7, <2>8, <2>9
<1>14. Place(Directory) = <<"b">>
  BY <1>10, <1>13, Zenon DEF Place
<1>15. <<>> \in Crossed(Directory)
  BY <1>4 DEF Crossed
<1>16. <<"a">> \in Crossed(Directory)
  BY <1>5 DEF Crossed
<1>17. <<"a", "l">> \in Followed(Directory)
  BY <1>5 DEF Followed
<1>18. <<"b">> \in Crossed(Directory)
  BY <1>7 DEF Crossed
<1> QED  BY <1>14, <1>15, <1>16, <1>17, <1>18

(* A name whose link leads back to it, or that may follow no link, leads    *)
(* nowhere.                                                                *)
Circles(name, after) ==
    /\ name \in Seq(Parts) /\ name # <<>> /\ Head(name) = "a" /\ Tail(name) = after
    /\ after # <<>> /\ Head(after) = "l"
    /\ \/ Target(layout) \o Tail(after) = name
       \/ MaxLinks = 0 /\ Target(layout) \o Tail(after) # <<>>

Circling(look, name, after) ==
    \/ look.current = <<>> /\ look.rest = name
    \/ look.current = <<"a">> /\ look.rest = after
    \/ look.links > MaxLinks /\ look.rest # <<>>

(* Such a lookup comes back to the link it came from.                      *)
LEMMA GoesAround ==
  ASSUME Whole, layout # "direct", NEW name, NEW after, Circles(name, after), NEW look \in Look, Circling(look, name, after)
  PROVE  Circling(Advance(look), name, after)
<1>1. layout \in Layouts /\ MaxLinks \in Nat /\ look.links \in Nat
  BY LayoutsAre DEF Look
<1>2. CASE Over(look)
  BY <1>2, Zenon DEF Advance
<1>3. CASE ~Over(look) /\ look.current = <<>> /\ look.rest = name
  <2>1. Head(look.rest) = "a" /\ Tail(look.rest) = after
    BY <1>3 DEF Circles
  <2>2. Below(look) = <<"a">>
    BY <1>3, <2>1 DEF Below
  <2>3. At(<<"a">>) = "a" /\ ~Is("link", "a")
    BY PlacesAre, KindsAre
  <2>4. Descends(look)
    BY <1>3, <2>1 DEF Descends
  <2>5. ~Follows(look)
    BY <2>2, <2>3, Zenon DEF Follows
  <2>6. Advance(look).current = <<"a">> /\ Advance(look).rest = after
    BY <1>1, <2>1, <2>2, <2>4, <2>5, AdvanceIs
  <2> QED  BY <2>6 DEF Circling
<1>4. CASE ~Over(look) /\ look.current = <<"a">> /\ look.rest = after
  <2>1. Head(look.rest) = "l"
    BY <1>4 DEF Circles
  <2>2. Below(look) = <<"a", "l">>
    <3>1. "a" \in Parts /\ "l" \in Parts
      BY DEF Parts, Names
    <3>2. Append(<<"a">>, "l") = <<"a", "l">>
      BY <3>1, AppendTo, Zenon
    <3> QED  BY <1>4, <2>1, <3>2 DEF Below
  <2>3. At(<<"a", "l">>) = "l" /\ Is("link", "l")
    BY PlacesAre, KindsAre
  <2>4. Descends(look)
    BY <1>4, <2>1 DEF Descends
  <2>5. Follows(look)
    BY <2>2, <2>3, <2>4, Zenon DEF Follows
  <2>6. Advance(look).current = <<>> /\ Advance(look).rest = Target(layout) \o Tail(after)
        /\ Advance(look).links = look.links + 1
    BY <1>1, <1>4, <2>5, AdvanceIs
  <2>7. CASE Target(layout) \o Tail(after) = name
    BY <2>6, <2>7 DEF Circling
  <2>8. CASE MaxLinks = 0 /\ Target(layout) \o Tail(after) # <<>>
    <3>1. Advance(look).links > MaxLinks
      BY <1>1, <2>6, <2>8
    <3> QED  BY <2>6, <2>8, <3>1 DEF Circling
  <2> QED  BY <2>7, <2>8 DEF Circles
<1> QED  BY <1>2, <1>3, <1>4 DEF Circling, Over

LEMMA NeverArrives ==
  ASSUME Whole, layout # "direct", NEW name, NEW after, Circles(name, after)
  PROVE  Arrival(name).rest # <<>> /\ Arrival(name).links > MaxLinks
<1> DEFINE look == Lookup(name)
           Away == {i \in 0..Steps(name) : ~Circling(look[i], name, after)}
<1>0. layout \in Layouts /\ name \in Seq(Parts) /\ name # <<>> /\ after # <<>>
  BY LayoutsAre DEF Circles
<1>1. PICK k \in Nat : k = Steps(name)
  BY <1>0, StepsIsNat
<1>2. Away \in SUBSET Nat
  OBVIOUS
<1>3. ASSUME Away # {} PROVE FALSE
  <2>1. PICK n \in Away : \A m \in Away : n <= m
    BY <1>2, <1>3, LeastIn
  <2>2. n \in 0..k /\ ~Circling(look[n], name, after)
    BY <1>1, <2>1
  <2>3. n # 0
    <3>1. look[0] = Begin(name)
      BY <1>0, LookupIs
    <3>2. Circling(Begin(name), name, after)
      BY DEF Circling, Begin
    <3> QED  BY <2>2, <3>1, <3>2
  <2>4. n - 1 \in 0..k /\ n \in 1..k /\ ~ (n <= n - 1)
    BY <1>1, <2>2, <2>3
  <2>5. n - 1 \notin Away
    <3> HIDE DEF Away
    <3> QED  BY <2>1, <2>4
  <2>6. Circling(look[n - 1], name, after) /\ look[n - 1] \in Look /\ look[n] = Advance(look[n - 1])
    BY <1>0, <1>1, <2>4, <2>5, LookupIs, LooksAre
  <2>7. Circling(look[n], name, after)
    <3> HIDE DEF look
    <3> QED  BY <2>6, GoesAround
  <2> QED  BY <2>2, <2>7
<1>4. Circling(look[k], name, after)
  <2>1. k \in 0..Steps(name) /\ k \notin Away
    BY <1>1, <1>3
  <2> QED  BY <2>1
<1>5. Arrival(name) = look[k]
  BY <1>1 DEF Arrival
<1> DEFINE end == Arrival(name)
<1>6. Over(end) /\ Circling(end, name, after)
  BY <1>0, <1>4, <1>5, LookupEnds
<1> HIDE DEF end, look
<1>7. end.rest # <<>>
  BY <1>0, <1>6 DEF Circling
<1>8. end.links > MaxLinks
  BY <1>6, <1>7 DEF Over
<1> QED  BY <1>7, <1>8 DEF end

(* A name that does not lead to the file has no chain that can be read.    *)
LEMMA LeadsNowhere ==
  ASSUME Whole, ~Leads
  PROVE  NamingChains(Name) = {<<>>} /\ Place(Directory) = <<Nobody>> /\ layout # "direct"
<1>0. layout \in {"linked", "dotdot", "loop"} /\ (layout = "loop" \/ MaxLinks = 0) /\ layout # "direct"
  BY LayoutsAre DEF Leads
<1>1. "a" \in Parts /\ "l" \in Parts /\ "f" \in Parts /\ ".." \in Parts /\ "b" \in Parts /\ "d" \in Parts
  BY DEF Parts, Names
<1>2. PICK name : name = Name
  OBVIOUS
<1>3. PICK dir : dir = Directory
  OBVIOUS
<1>4. name \in Seq(Parts) /\ dir \in Seq(Parts)
  BY <1>2, <1>3, NamesAre
<1>5. Circles(name, Tail(name)) /\ Circles(dir, Tail(dir))
  <2>1. CASE layout = "loop"
    <3>1. name = <<"a", "l", "f">> /\ dir = <<"a", "l">> /\ Target(layout) = <<"a", "l">>
      BY <1>2, <1>3, <2>1, NamesAre
    <3>2. <<"a", "l">> \o <<"f">> = <<"a", "l", "f">> /\ <<"a", "l">> \o <<>> = <<"a", "l">>
      BY <1>1, JoinedTo
    <3>3. Tail(name) = <<"l", "f">> /\ Tail(Tail(name)) = <<"f">> /\ Tail(dir) = <<"l">> /\ Tail(Tail(dir)) = <<>>
      BY <3>1, TailIs
    <3>4. Head(name) = "a" /\ Head(dir) = "a" /\ Head(Tail(name)) = "l" /\ Head(Tail(dir)) = "l"
          /\ name # <<>> /\ dir # <<>> /\ Tail(name) # <<>> /\ Tail(dir) # <<>>
      BY <3>1, <3>3, TailIs
    <3> QED  BY <1>4, <3>1, <3>2, <3>3, <3>4 DEF Circles
  <2>2. CASE layout = "linked"
    <3>1. name = <<"a", "l", "f">> /\ dir = <<"a", "l">> /\ Target(layout) = <<"b">>
      BY <1>2, <1>3, <2>2, NamesAre
    <3>2. <<"b">> \o <<"f">> = <<"b", "f">> /\ <<"b">> \o <<>> = <<"b">>
      BY <1>1, JoinedTo
    <3>3. Tail(name) = <<"l", "f">> /\ Tail(Tail(name)) = <<"f">> /\ Tail(dir) = <<"l">> /\ Tail(Tail(dir)) = <<>>
      BY <3>1, TailIs
    <3>4. Head(name) = "a" /\ Head(dir) = "a" /\ Head(Tail(name)) = "l" /\ Head(Tail(dir)) = "l"
          /\ name # <<>> /\ dir # <<>> /\ Tail(name) # <<>> /\ Tail(dir) # <<>>
      BY <3>1, <3>3, TailIs
    <3>5. <<"b", "f">> # <<>> /\ <<"b">> # <<>> /\ MaxLinks = 0
      BY <1>0, <2>2, TailIs
    <3> QED  BY <1>4, <3>1, <3>2, <3>3, <3>4, <3>5 DEF Circles
  <2>3. CASE layout = "dotdot"
    <3>1. name = <<"a", "l", "..", "f">> /\ dir = <<"a", "l", "..">> /\ Target(layout) = <<"b", "d">>
      BY <1>2, <1>3, <2>3, NamesAre
    <3>2. <<"b", "d">> \o <<"..", "f">> = <<"b", "d", "..", "f">> /\ <<"b", "d">> \o <<"..">> = <<"b", "d", "..">>
      BY <1>1, Joined21, Joined22
    <3>3. Tail(name) = <<"l", "..", "f">> /\ Tail(Tail(name)) = <<"..", "f">> /\ Tail(dir) = <<"l", "..">> /\ Tail(Tail(dir)) = <<"..">>
      BY <3>1, TailIs
    <3>4. Head(name) = "a" /\ Head(dir) = "a" /\ Head(Tail(name)) = "l" /\ Head(Tail(dir)) = "l"
          /\ name # <<>> /\ dir # <<>> /\ Tail(name) # <<>> /\ Tail(dir) # <<>>
      BY <3>1, <3>3, TailIs
    <3>5. <<"b", "d", "..", "f">> # <<>> /\ <<"b", "d", "..">> # <<>> /\ MaxLinks = 0
      BY <1>0, <2>3, TailIs
    <3> QED  BY <1>4, <3>1, <3>2, <3>3, <3>4, <3>5 DEF Circles
  <2> QED  BY <1>0, <2>1, <2>2, <2>3
<1>6. Arrival(Name).links > MaxLinks /\ Arrival(Directory).rest # <<>>
  BY <1>0, <1>2, <1>3, <1>5, NeverArrives, Zenon
<1>7. NamingChains(Name) = {<<>>}
  BY <1>6, Zenon DEF NamingChains
<1>8. Place(Directory) = <<Nobody>>
  BY <1>6, Zenon DEF Place
<1> QED  BY <1>0, <1>7, <1>8

-----------------------------------------------------------------------------
(* What a walk that found nothing says of each component.                  *)

(* A chain passes when every component does.                               *)
LEMMA FirstPasses ==
  ASSUME NEW says, DOMAIN says \subseteq Nat, FirstOf(says) = "passes"
  PROVE  \A i \in DOMAIN says : says[i] = "passes"
<1> DEFINE telling == {i \in DOMAIN says : says[i] # "passes"}
<1>1. ASSUME telling # {} PROVE FALSE
  <2>1. says # <<>>
    BY <1>1
  <2>2. FirstOf(says) = says[Min(telling)]
    BY <1>1, <2>1, Zenon DEF FirstOf
  <2>3. telling \in SUBSET Nat
    OBVIOUS
  <2>4. \E m \in telling : \A n \in telling : m <= n
    BY <1>1, <2>3, LeastIn
  <2>5. Min(telling) \in telling
    <3> HIDE DEF telling
    <3> QED  BY <2>4, Zenon DEF Min
  <2> QED  BY <2>2, <2>5
<1> QED  BY <1>1

LEMMA NothingRead == FirstOf(<<>>) = "unknown"
BY DEF FirstOf

LEMMA ChainOfTwo ==
  ASSUME NEW x \in Names, NEW y \in Names
  PROVE  /\ Len(ChainOf(<<x, y>>)) = 3
         /\ ChainOf(<<x, y>>)[1] = <<x, y>> /\ ChainOf(<<x, y>>)[2] = <<x>> /\ ChainOf(<<x, y>>)[3] = <<>>
<1> DEFINE chain == ChainOf(<<x, y>>)
<1>1. Len(<<x, y>>) = 2
  BY TailIs
<1>2. chain = [i \in 1..3 |-> SubSeq(<<x, y>>, 1, 3 - i)]
  BY <1>1 DEF ChainOf
<1>3. Len(chain) = 3
  <2>1. chain = [i \in 1..3 |-> chain[i]]
    BY <1>2
  <2>2. DOMAIN chain = 1..3
    BY <1>2
  <2> HIDE DEF chain
  <2> DEFINE S == {chain[i] : i \in 1..3}
  <2>3. DOMAIN chain = 1..Len(chain) /\ Len(chain) \in Nat
    <3>1. chain \in [1..3 -> S]
      BY <2>1
    <3>2. chain \in Seq(S)
      BY <3>1
    <3> QED  BY <3>2, LenProperties
  <2>4. \A n \in Nat : 1..n = 1..3 => n = 3
    <3>1. ASSUME NEW n \in Nat, 1..n = 1..3 PROVE n = 3
      <4>1. 3 \in 1..n /\ ~ (4 \in 1..n)
        BY <3>1
      <4> QED  BY <4>1
    <3> QED  BY <3>1
  <2> QED  BY <2>2, <2>3, <2>4
<1>4. chain[1] = SubSeq(<<x, y>>, 1, 2) /\ chain[2] = SubSeq(<<x, y>>, 1, 1) /\ chain[3] = SubSeq(<<x, y>>, 1, 0)
  BY <1>2
<1> QED  BY <1>3, <1>4, UpIs

ProtectionHolds(node, first) ==
    /\ node # Nobody /\ attr[node].uid = Root
    /\ attr[node].kind # "link" =>
          /\ attr[node].acl # "unreadable"
          /\ first \/ Reaches(attr[node], FALSE, FALSE) =>
                /\ ~AclWrites(attr[node]) /\ "other" \notin attr[node].writers
                /\ attr[node].gid # Administrators => "group" \notin attr[node].writers

(* What a passing walk read of each component, for the policy and for a caller. *)
LEMMA ProtectionPasses ==
  ASSUME NEW chain, NEW n \in Nat, Len(chain) = n, ProtectionAlong(chain) = "passes", NEW i \in 1..n
  PROVE  ProtectionHolds(At(chain[i]), i = 1)
<1> DEFINE Finds(k) ==
              LET node == At(chain[k])
                  shape == attr[node]
              IN  IF node = Nobody \/ (shape.kind # "link" /\ shape.acl = "unreadable") THEN "unknown"
                  ELSE IF shape.uid # Root THEN "exposed"
                  ELSE IF shape.kind # "link"
                          /\ (k = 1 \/ Reaches(shape, FALSE, FALSE))
                          /\ (AclWrites(shape)
                              \/ (shape.gid # Administrators /\ "group" \in shape.writers)
                              \/ "other" \in shape.writers)
                  THEN "exposed" ELSE "passes"
           says == [k \in 1..Len(chain) |-> Finds(k)]
<1>1. FirstOf(says) = "passes"
  BY Zenon DEF ProtectionAlong
<1>2. DOMAIN says = 1..n /\ DOMAIN says \subseteq Nat
  OBVIOUS
<1>3. says[i] = "passes"
  <2> HIDE DEF says
  <2> QED  BY <1>1, <1>2, FirstPasses
<1>4. Finds(i) = "passes"
  BY <1>3
<1> DEFINE node == At(chain[i])
<1>5. ~ (node = Nobody \/ (attr[node].kind # "link" /\ attr[node].acl = "unreadable")) /\ ~ (attr[node].uid # Root)
      /\ ~ (attr[node].kind # "link"
            /\ (i = 1 \/ Reaches(attr[node], FALSE, FALSE))
            /\ (AclWrites(attr[node])
                \/ (attr[node].gid # Administrators /\ "group" \in attr[node].writers)
                \/ "other" \in attr[node].writers))
  <2> HIDE DEF node
  <2>1. Finds(i) = IF node = Nobody \/ (attr[node].kind # "link" /\ attr[node].acl = "unreadable") THEN "unknown"
                  ELSE IF attr[node].uid # Root THEN "exposed"
                  ELSE IF attr[node].kind # "link"
                          /\ (i = 1 \/ Reaches(attr[node], FALSE, FALSE))
                          /\ (AclWrites(attr[node])
                              \/ (attr[node].gid # Administrators /\ "group" \in attr[node].writers)
                              \/ "other" \in attr[node].writers)
                  THEN "exposed" ELSE "passes"
    BY Zenon DEF node
  <2> HIDE DEF Finds
  <2> QED  BY <1>4, <2>1
<1> HIDE DEF node
<1>6. ProtectionHolds(node, i = 1)
  BY <1>5, Zenon DEF ProtectionHolds
<1> QED  BY <1>6 DEF node

AccessHolds(node, first, ownsEntry) ==
    /\ node # Nobody
    /\ attr[node].kind # "link" =>
          /\ attr[node].acl # "unreadable"
          /\ first \/ Reaches(attr[node], attr[node].uid = Stranger, ownsEntry) =>
                /\ attr[node].uid # Stranger /\ ~AclWrites(attr[node]) /\ "other" \notin attr[node].writers
                /\ attr[node].gid = Strangers => "group" \notin attr[node].writers

LEMMA AccessPasses ==
  ASSUME NEW chain, NEW n \in Nat, Len(chain) = n, WriteAccessAlong(chain) = "passes", NEW i \in 1..n
  PROVE  AccessHolds(At(chain[i]), i = 1,
                     i > 1 /\ At(chain[i - 1]) # Nobody /\ attr[At(chain[i - 1])].uid = Stranger)
<1> DEFINE Finds(k) ==
              LET node == At(chain[k])
                  shape == attr[node]
                  owns == shape.uid = Stranger
                  ownsEntry == k > 1 /\ At(chain[k - 1]) # Nobody /\ attr[At(chain[k - 1])].uid = Stranger
              IN  IF node = Nobody \/ (shape.kind # "link" /\ shape.acl = "unreadable") THEN "unknown"
                  ELSE IF shape.kind # "link"
                          /\ (k = 1 \/ Reaches(shape, owns, ownsEntry))
                          /\ (owns \/ AclWrites(shape)
                              \/ (shape.gid = Strangers /\ "group" \in shape.writers)
                              \/ "other" \in shape.writers)
                  THEN "writable" ELSE "passes"
           says == [k \in 1..Len(chain) |-> Finds(k)]
<1>1. FirstOf(says) = "passes"
  BY Zenon DEF WriteAccessAlong
<1>2. DOMAIN says = 1..n /\ DOMAIN says \subseteq Nat
  OBVIOUS
<1>3. says[i] = "passes"
  <2> HIDE DEF says
  <2> QED  BY <1>1, <1>2, FirstPasses
<1>4. Finds(i) = "passes"
  BY <1>3
<1> DEFINE node == At(chain[i])
           owner == i > 1 /\ At(chain[i - 1]) # Nobody /\ attr[At(chain[i - 1])].uid = Stranger
<1>5. ~ (node = Nobody \/ (attr[node].kind # "link" /\ attr[node].acl = "unreadable"))
      /\ ~ (attr[node].kind # "link"
            /\ (i = 1 \/ Reaches(attr[node], attr[node].uid = Stranger, owner))
            /\ (attr[node].uid = Stranger \/ AclWrites(attr[node])
                \/ (attr[node].gid = Strangers /\ "group" \in attr[node].writers)
                \/ "other" \in attr[node].writers))
  <2> HIDE DEF node, owner
  <2>1. Finds(i) = IF node = Nobody \/ (attr[node].kind # "link" /\ attr[node].acl = "unreadable") THEN "unknown"
                  ELSE IF attr[node].kind # "link"
                          /\ (i = 1 \/ Reaches(attr[node], attr[node].uid = Stranger, owner))
                          /\ (attr[node].uid = Stranger \/ AclWrites(attr[node])
                              \/ (attr[node].gid = Strangers /\ "group" \in attr[node].writers)
                              \/ "other" \in attr[node].writers)
                  THEN "writable" ELSE "passes"
    BY Zenon DEF node, owner
  <2> HIDE DEF Finds
  <2> QED  BY <1>4, <2>1
<1> HIDE DEF node, owner
<1>6. AccessHolds(node, i = 1, owner)
  BY <1>5, Zenon DEF AccessHolds
<1> QED  BY <1>6 DEF node, owner

\* Of the chain of a path of two names.
LEMMA ProtectionOfTwo ==
  ASSUME NEW x \in Names, NEW y \in Names, ProtectionAlong(ChainOf(<<x, y>>)) = "passes"
  PROVE  ProtectionHolds(At(<<x, y>>), TRUE) /\ ProtectionHolds(At(<<x>>), FALSE) /\ ProtectionHolds(At(<<>>), FALSE)
<1> DEFINE chain == ChainOf(<<x, y>>)
<1>1. Len(chain) = 3 /\ chain[1] = <<x, y>> /\ chain[2] = <<x>> /\ chain[3] = <<>>
  BY ChainOfTwo
<1>2. ProtectionAlong(chain) = "passes"
  OBVIOUS
<1> HIDE DEF chain
<1>3. 3 \in Nat /\ 1 \in 1..3 /\ 2 \in 1..3 /\ 3 \in 1..3 /\ (1 = 1) = TRUE /\ (2 = 1) = FALSE /\ (3 = 1) = FALSE
  OBVIOUS
<1>4. ProtectionHolds(At(chain[1]), 1 = 1)
  BY <1>1, <1>2, <1>3, ProtectionPasses, Zenon
<1>5. ProtectionHolds(At(chain[2]), 2 = 1)
  BY <1>1, <1>2, <1>3, ProtectionPasses, Zenon
<1>6. ProtectionHolds(At(chain[3]), 3 = 1)
  BY <1>1, <1>2, <1>3, ProtectionPasses, Zenon
<1> QED  BY <1>1, <1>3, <1>4, <1>5, <1>6, Zenon

LEMMA AccessOfTwo ==
  ASSUME NEW x \in Names, NEW y \in Names, WriteAccessAlong(ChainOf(<<x, y>>)) = "passes"
  PROVE  /\ AccessHolds(At(<<x, y>>), TRUE, FALSE)
         /\ AccessHolds(At(<<x>>), FALSE, At(<<x, y>>) # Nobody /\ attr[At(<<x, y>>)].uid = Stranger)
         /\ AccessHolds(At(<<>>), FALSE, At(<<x>>) # Nobody /\ attr[At(<<x>>)].uid = Stranger)
<1> DEFINE chain == ChainOf(<<x, y>>)
           Owner(i) == i > 1 /\ At(chain[i - 1]) # Nobody /\ attr[At(chain[i - 1])].uid = Stranger
<1>1. Len(chain) = 3 /\ chain[1] = <<x, y>> /\ chain[2] = <<x>> /\ chain[3] = <<>>
  BY ChainOfTwo
<1>2. WriteAccessAlong(chain) = "passes"
  OBVIOUS
<1> HIDE DEF chain
<1>3. 3 \in Nat /\ 1 \in 1..3 /\ 2 \in 1..3 /\ 3 \in 1..3 /\ (1 = 1) = TRUE /\ (2 = 1) = FALSE /\ (3 = 1) = FALSE
  OBVIOUS
<1>4. AccessHolds(At(chain[1]), 1 = 1, Owner(1))
  BY <1>1, <1>2, <1>3, AccessPasses, Zenon
<1>5. AccessHolds(At(chain[2]), 2 = 1, Owner(2))
  BY <1>1, <1>2, <1>3, AccessPasses, Zenon
<1>6. AccessHolds(At(chain[3]), 3 = 1, Owner(3))
  BY <1>1, <1>2, <1>3, AccessPasses, Zenon
<1>7. /\ Owner(1) = FALSE
      /\ Owner(2) = (At(chain[1]) # Nobody /\ attr[At(chain[1])].uid = Stranger)
      /\ Owner(3) = (At(chain[2]) # Nobody /\ attr[At(chain[2])].uid = Stranger)
  <2>1. ~ (1 > 1) /\ 2 > 1 /\ 3 > 1 /\ 2 - 1 = 1 /\ 3 - 1 = 2
    OBVIOUS
  <2> QED  BY <2>1, Zenon
<1> HIDE DEF Owner
<1> QED  BY <1>1, <1>3, <1>4, <1>5, <1>6, <1>7, Zenon

(* The entries there are.                                                  *)
LEMMA EdgeCases ==
  ASSUME Whole, NEW dir \in DOMAIN entry, NEW name \in Names, entry[dir][name] # Nobody
  PROVE  \/ dir = "/" /\ entry[dir][name] = "a"
         \/ dir = "/" /\ entry[dir][name] = "b" /\ layout # "direct"
         \/ dir = "a" /\ entry[dir][name] = "l" /\ layout # "direct"
         \/ dir = "a" /\ entry[dir][name] = "f" /\ layout = "direct"
         \/ dir = "b" /\ entry[dir][name] = "d" /\ layout = "dotdot"
         \/ dir = "b" /\ entry[dir][name] = "f" /\ layout # "direct"
<1>1. dir = "/" \/ dir = "a" \/ dir = "b" \/ dir = "d"
  BY EntriesAre
<1> QED  BY <1>1, EntriesAre

(* The verdict of one chain is one of three.                               *)
LEMMA FirstIsOf ==
  ASSUME NEW says, DOMAIN says \subseteq Nat, NEW V, \A i \in DOMAIN says : says[i] \in V
  PROVE  FirstOf(says) \in V \cup {"unknown", "passes"}
<1> DEFINE telling == {i \in DOMAIN says : says[i] # "passes"}
<1>1. CASE says = <<>> \/ telling = {}
  BY <1>1 DEF FirstOf
<1>2. CASE says # <<>> /\ telling # {}
  <2>1. FirstOf(says) = says[Min(telling)]
    BY <1>2, Zenon DEF FirstOf
  <2>2. \E m \in telling : \A n \in telling : m <= n
    <3>1. telling \in SUBSET Nat
      OBVIOUS
    <3> QED  BY <1>2, <3>1, LeastIn
  <2>3. Min(telling) \in telling
    <3> HIDE DEF telling
    <3> QED  BY <2>2, Zenon DEF Min
  <2> QED  BY <2>1, <2>3
<1> QED  BY <1>1, <1>2

LEMMA EmptySays == ASSUME NEW says, DOMAIN says = {}, says = [i \in {} |-> says[i]] PROVE says = <<>>
<1>1. says \in Seq({})
  OBVIOUS
<1>2. Len(says) = 0
  BY <1>1, LenProperties
<1> QED  BY <1>1, <1>2, EmptySeq

LEMMA ProtectionIsOf ==
  ASSUME NEW chain
  PROVE  /\ Len(chain) \in Nat => ProtectionAlong(chain) \in {"unknown", "exposed", "passes"}
         /\ Len(chain) \in Nat => WriteAccessAlong(chain) \in {"unknown", "writable", "passes"}
         /\ Len(chain) = 0 => ProtectionAlong(chain) = "unknown" /\ WriteAccessAlong(chain) = "unknown"
<1> DEFINE Finds(k) ==
              LET node == At(chain[k])
                  shape == attr[node]
              IN  IF node = Nobody \/ (shape.kind # "link" /\ shape.acl = "unreadable") THEN "unknown"
                  ELSE IF shape.uid # Root THEN "exposed"
                  ELSE IF shape.kind # "link"
                          /\ (k = 1 \/ Reaches(shape, FALSE, FALSE))
                          /\ (AclWrites(shape)
                              \/ (shape.gid # Administrators /\ "group" \in shape.writers)
                              \/ "other" \in shape.writers)
                  THEN "exposed" ELSE "passes"
           Tells(k) ==
              LET node == At(chain[k])
                  shape == attr[node]
                  owns == shape.uid = Stranger
                  ownsEntry == k > 1 /\ At(chain[k - 1]) # Nobody /\ attr[At(chain[k - 1])].uid = Stranger
              IN  IF node = Nobody \/ (shape.kind # "link" /\ shape.acl = "unreadable") THEN "unknown"
                  ELSE IF shape.kind # "link"
                          /\ (k = 1 \/ Reaches(shape, owns, ownsEntry))
                          /\ (owns \/ AclWrites(shape)
                              \/ (shape.gid = Strangers /\ "group" \in shape.writers)
                              \/ "other" \in shape.writers)
                  THEN "writable" ELSE "passes"
           says == [k \in 1..Len(chain) |-> Finds(k)]
           tells == [k \in 1..Len(chain) |-> Tells(k)]
<1>1. ProtectionAlong(chain) = FirstOf(says) /\ WriteAccessAlong(chain) = FirstOf(tells)
  BY Zenon DEF ProtectionAlong, WriteAccessAlong
<1>2. \A k : Finds(k) \in {"unknown", "exposed", "passes"} /\ Tells(k) \in {"unknown", "writable", "passes"}
  <2> TAKE k
  <2>1. Finds(k) = "unknown" \/ Finds(k) = "exposed" \/ Finds(k) = "passes"
    BY Zenon
  <2>2. Tells(k) = "unknown" \/ Tells(k) = "writable" \/ Tells(k) = "passes"
    BY Zenon
  <2> HIDE DEF Finds, Tells
  <2> QED  BY <2>1, <2>2
<1> HIDE DEF Finds, Tells
<1>3. ASSUME NEW n \in Nat, n = Len(chain)
      PROVE  /\ FirstOf(says) \in {"unknown", "exposed", "passes"} /\ FirstOf(tells) \in {"unknown", "writable", "passes"}
             /\ n = 0 => FirstOf(says) = "unknown" /\ FirstOf(tells) = "unknown"
  <2>1. /\ DOMAIN says = 1..n /\ DOMAIN tells = 1..n /\ 1..n \subseteq Nat
        /\ \A i \in 1..n : says[i] \in {"unknown", "exposed", "passes"} /\ tells[i] \in {"unknown", "writable", "passes"}
        /\ says = [k \in 1..n |-> says[k]] /\ tells = [k \in 1..n |-> tells[k]]
    BY <1>2, <1>3
  <2> HIDE DEF says, tells
  <2>2. FirstOf(says) \in {"unknown", "exposed", "passes"} \cup {"unknown", "passes"}
    BY <2>1, FirstIsOf
  <2>3. FirstOf(tells) \in {"unknown", "writable", "passes"} \cup {"unknown", "passes"}
    BY <2>1, FirstIsOf
  <2>4. ASSUME n = 0 PROVE FirstOf(says) = "unknown" /\ FirstOf(tells) = "unknown"
    <3>1. 1..n = {}
      BY <2>4
    <3>2. says = <<>> /\ tells = <<>>
      BY <2>1, <3>1, EmptySays
    <3> QED  BY <3>2, NothingRead
  <2> QED  BY <2>2, <2>3, <2>4
<1> HIDE DEF says, tells
<1>4. Len(chain) = 0 => Len(chain) \in Nat
  OBVIOUS
<1> QED  BY <1>1, <1>3, <1>4

(* The chains that passed are those of the link, of what was stepped back over and of the file. *)
LEMMA PassingChains ==
  ASSUME Whole
  PROVE  /\ protection = "passes" =>
              Leads /\ \A x, y \in Names : <<x, y>> \in Ends(Name) => ProtectionAlong(ChainOf(<<x, y>>)) = "passes"
         /\ write_access = "passes" =>
              Leads /\ \A x, y \in Names : <<x, y>> \in Ends(Name) => WriteAccessAlong(ChainOf(<<x, y>>)) = "passes"
<1> DEFINE verdicts == {ProtectionAlong(chain) : chain \in NamingChains(Name)}
           answers == {WriteAccessAlong(chain) : chain \in NamingChains(Name)}
<1>1. /\ protection = "passes" => "exposed" \notin verdicts /\ "unknown" \notin verdicts
      /\ write_access = "passes" => "writable" \notin answers /\ "unknown" \notin answers
  BY DEF protection, write_access, WorstOf
<1>2. \A chain \in NamingChains(Name) : ProtectionAlong(chain) \in verdicts /\ WriteAccessAlong(chain) \in answers
  OBVIOUS
<1> HIDE DEF verdicts, answers
<1>3. protection = "passes" \/ write_access = "passes" => Leads
  <2>1. ASSUME ~Leads PROVE ~ (protection = "passes") /\ ~ (write_access = "passes")
    <3>1. <<>> \in NamingChains(Name)
      BY <2>1, LeadsNowhere
    <3>2. ProtectionAlong(<<>>) = "unknown" /\ WriteAccessAlong(<<>>) = "unknown"
      BY ProtectionIsOf, EmptySeq
    <3> QED  BY <1>1, <1>2, <3>1, <3>2
  <2> QED  BY <2>1
<1>4. Leads => ~ (Arrival(Name).links > MaxLinks)
  BY DirectName, LinkedName, DotdotName, LayoutsAre DEF Leads
<1>5. ASSUME Leads, NEW x \in Names, NEW y \in Names, <<x, y>> \in Ends(Name)
      PROVE  /\ ChainOf(<<x, y>>) \in NamingChains(Name)
             /\ ProtectionAlong(ChainOf(<<x, y>>)) \in {"unknown", "exposed", "passes"}
             /\ WriteAccessAlong(ChainOf(<<x, y>>)) \in {"unknown", "writable", "passes"}
  <2>1. NamingChains(Name) = {ChainOf(path) : path \in Ends(Name)}
    BY <1>4, <1>5, Zenon DEF NamingChains
  <2>2. Len(ChainOf(<<x, y>>)) \in Nat
    BY ChainOfTwo
  <2> QED  BY <1>5, <2>1, <2>2, ProtectionIsOf
<1>6. ASSUME protection = "passes", NEW x \in Names, NEW y \in Names, <<x, y>> \in Ends(Name)
      PROVE  ProtectionAlong(ChainOf(<<x, y>>)) = "passes"
  BY <1>1, <1>2, <1>3, <1>5, <1>6
<1>7. ASSUME write_access = "passes", NEW x \in Names, NEW y \in Names, <<x, y>> \in Ends(Name)
      PROVE  WriteAccessAlong(ChainOf(<<x, y>>)) = "passes"
  BY <1>1, <1>2, <1>3, <1>5, <1>7
<1> QED  BY <1>3, <1>6, <1>7

-----------------------------------------------------------------------------
(* What the walks over the names of the policy leave said.                 *)

(* A directory or file that passed leaves no writer but root.              *)
LEMMA HeldBy ==
  ASSUME NEW node, attr[node].kind # "link"
  PROVE  /\ ProtectionHolds(node, TRUE) => RootOnly(attr[node])
         /\ ProtectionHolds(node, FALSE) => attr[node].uid = Root /\ (~attr[node].sticky => RootOnly(attr[node]))
BY DEF ProtectionHolds, RootOnly, Reaches, AclWrites

(* What protection = passes says of the whole tree.                        *)
LEMMA ProtectionShows ==
  ASSUME Whole, protection = "passes"
  PROVE  Leads /\ RootsAlone
<1>1. Leads /\ \A x, y \in Names : <<x, y>> \in Ends(Name) => ProtectionAlong(ChainOf(<<x, y>>)) = "passes"
  BY PassingChains
<1>2. ASSUME NEW x \in Names, NEW y \in Names, <<x, y>> \in Ends(Name)
      PROVE  ProtectionHolds(At(<<x, y>>), TRUE) /\ ProtectionHolds(At(<<x>>), FALSE) /\ ProtectionHolds("/", FALSE)
  <2>1. ProtectionAlong(ChainOf(<<x, y>>)) = "passes"
    BY <1>1, <1>2
  <2> QED  BY <2>1, ProtectionOfTwo, AtRoot
<1>3. "a" \in Names /\ "b" \in Names /\ "d" \in Names /\ "l" \in Names /\ "f" \in Names
  BY DEF Names
<1>4. ProtectionHolds("/", FALSE) /\ ProtectionHolds("a", FALSE) /\ ProtectionHolds("f", TRUE)
      /\ (layout # "direct" => ProtectionHolds("b", FALSE) /\ attr["l"].uid = Root)
      /\ (layout = "dotdot" => attr["d"].uid = Root)
  <2>1. CASE layout = "direct"
    <3>1. <<"a", "f">> \in Ends(Name) /\ At(<<"a", "f">>) = "f" /\ At(<<"a">>) = "a"
      BY <2>1, DirectName, PlacesAre
    <3> QED  BY <1>2, <1>3, <2>1, <3>1
  <2>2. CASE layout = "linked"
    <3>1. <<"a", "l">> \in Ends(Name) /\ At(<<"a", "l">>) = "l" /\ At(<<"a">>) = "a"
          /\ <<"b", "f">> \in Ends(Name) /\ At(<<"b", "f">>) = "f" /\ At(<<"b">>) = "b"
      BY <1>1, <2>2, LinkedName, PlacesAre DEF Leads
    <3>2. ProtectionHolds("l", TRUE)
      BY <1>2, <1>3, <3>1
    <3>3. attr["l"].uid = Root
      BY <3>2 DEF ProtectionHolds
    <3> QED  BY <1>2, <1>3, <2>2, <3>1, <3>3
  <2>3. CASE layout = "dotdot"
    <3>1. <<"a", "l">> \in Ends(Name) /\ At(<<"a", "l">>) = "l" /\ At(<<"a">>) = "a"
          /\ <<"b", "f">> \in Ends(Name) /\ At(<<"b", "f">>) = "f" /\ At(<<"b">>) = "b"
          /\ <<"b", "d">> \in Ends(Name) /\ At(<<"b", "d">>) = "d"
      BY <1>1, <2>3, DotdotName, PlacesAre DEF Leads
    <3>2. ProtectionHolds("l", TRUE) /\ ProtectionHolds("d", TRUE)
      BY <1>2, <1>3, <3>1
    <3>3. attr["l"].uid = Root /\ attr["d"].uid = Root
      BY <3>2 DEF ProtectionHolds
    <3> QED  BY <1>2, <1>3, <2>3, <3>1, <3>3
  <2> QED  BY <1>1, <2>1, <2>2, <2>3, LayoutsAre DEF Leads
<1>5. /\ RootOnly(attr["f"])
      /\ attr["/"].uid = Root /\ (~attr["/"].sticky => RootOnly(attr["/"]))
      /\ attr["a"].uid = Root /\ (~attr["a"].sticky => RootOnly(attr["a"]))
      /\ layout # "direct" => attr["b"].uid = Root /\ (~attr["b"].sticky => RootOnly(attr["b"]))
  BY <1>4, HeldBy, KindsAre
<1>6. attr["f"].uid = Root
  BY <1>5 DEF RootOnly
<1>7. ASSUME NEW dir \in DOMAIN entry, NEW name \in Names, entry[dir][name] # Nobody
      PROVE  /\ attr[dir].uid = Root /\ attr[entry[dir][name]].uid = Root
             /\ ~attr[dir].sticky => RootOnly(attr[dir])
  <2>1. PICK node : node = entry[dir][name]
    OBVIOUS
  <2>2. \/ dir = "/" /\ node = "a"
        \/ dir = "/" /\ node = "b" /\ layout # "direct"
        \/ dir = "a" /\ node = "l" /\ layout # "direct"
        \/ dir = "a" /\ node = "f" /\ layout = "direct"
        \/ dir = "b" /\ node = "d" /\ layout = "dotdot"
        \/ dir = "b" /\ node = "f" /\ layout # "direct"
    BY <1>7, <2>1, EdgeCases
  <2>3. attr[dir].uid = Root /\ attr[node].uid = Root /\ (~attr[dir].sticky => RootOnly(attr[dir]))
    BY <1>4, <1>5, <1>6, <2>2
  <2> QED  BY <2>1, <2>3
<1>8. RootsAlone
  BY <1>5, <1>7, Zenon DEF RootsAlone
<1> QED  BY <1>1, <1>8

(* A directory or file that passed holds the caller off.                   *)
LEMMA HeldOff ==
  ASSUME NEW node, attr[node].kind # "link"
  PROVE  /\ \A ownsEntry : AccessHolds(node, TRUE, ownsEntry) => HoldsOff(attr[node])
         /\ \A ownsEntry \in BOOLEAN : AccessHolds(node, FALSE, ownsEntry) =>
               attr[node].uid # Stranger /\ (~attr[node].sticky \/ ownsEntry => HoldsOff(attr[node]))
BY DEF AccessHolds, HoldsOff, Reaches, AclWrites

(* What write_access = passes says of the whole tree.                      *)
LEMMA AccessShows ==
  ASSUME Whole, write_access = "passes"
  PROVE  Leads /\ NoWriterAbove
<1>1. Leads /\ \A x, y \in Names : <<x, y>> \in Ends(Name) => WriteAccessAlong(ChainOf(<<x, y>>)) = "passes"
  BY PassingChains
<1> DEFINE Owns(node) == node # Nobody /\ attr[node].uid = Stranger
<1>2. ASSUME NEW x \in Names, NEW y \in Names, <<x, y>> \in Ends(Name)
      PROVE  /\ AccessHolds(At(<<x, y>>), TRUE, FALSE)
             /\ AccessHolds(At(<<x>>), FALSE, Owns(At(<<x, y>>)))
             /\ AccessHolds("/", FALSE, Owns(At(<<x>>)))
  <2>1. WriteAccessAlong(ChainOf(<<x, y>>)) = "passes"
    BY <1>1, <1>2
  <2> QED  BY <2>1, AccessOfTwo, AtRoot, Zenon
<1>3. "a" \in Names /\ "b" \in Names /\ "d" \in Names /\ "l" \in Names /\ "f" \in Names
      /\ "a" # Nobody /\ "b" # Nobody /\ "d" # Nobody /\ "l" # Nobody /\ "f" # Nobody
  BY DEF Names, Nobody
<1> DEFINE Guards(dir, node) ==
              attr[dir].uid # Stranger /\ (~attr[dir].sticky \/ attr[node].uid = Stranger => HoldsOff(attr[dir]))
<1>4. ASSUME NEW x \in Names, NEW y \in Names, <<x, y>> \in Ends(Name),
             NEW n, NEW m, n = At(<<x>>), m = At(<<x, y>>), n \in {"a", "b"}, m \in {"l", "f", "d"}
      PROVE  Guards("/", n) /\ Guards(n, m) /\ (m # "l" => HoldsOff(attr[m]))
  <2>1. AccessHolds(m, TRUE, FALSE) /\ AccessHolds(n, FALSE, Owns(m)) /\ AccessHolds("/", FALSE, Owns(n))
    BY <1>2, <1>4
  <2>2. m # Nobody /\ n # Nobody
    BY <1>3, <1>4
  <2>3. attr[n].kind # "link" /\ attr["/"].kind # "link" /\ (m # "l" => attr[m].kind # "link")
    BY <1>4, KindsAre
  <2>4. AccessHolds(n, FALSE, attr[m].uid = Stranger) /\ AccessHolds("/", FALSE, attr[n].uid = Stranger)
    <3>1. Owns(m) = (attr[m].uid = Stranger) /\ Owns(n) = (attr[n].uid = Stranger)
      BY <2>2
    <3> QED  BY <2>1, <3>1
  <2>5. m # "l" => HoldsOff(attr[m])
    BY <2>1, <2>3, HeldOff
  <2>6. Guards(n, m)
    <3>1. (attr[m].uid = Stranger) \in BOOLEAN
      OBVIOUS
    <3> QED  BY <2>3, <2>4, <3>1, HeldOff
  <2>7. Guards("/", n)
    <3>1. (attr[n].uid = Stranger) \in BOOLEAN
      OBVIOUS
    <3> QED  BY <2>3, <2>4, <3>1, HeldOff
  <2> QED  BY <2>5, <2>6, <2>7
<1>5. /\ HoldsOff(attr["f"]) /\ Guards("/", "a")
      /\ layout = "direct" => Guards("a", "f")
      /\ layout # "direct" => Guards("/", "b") /\ Guards("a", "l") /\ Guards("b", "f")
      /\ layout = "dotdot" => Guards("b", "d") /\ HoldsOff(attr["d"])
  <2> HIDE DEF Guards
  <2>1. CASE layout = "direct"
    <3>1. <<"a", "f">> \in Ends(Name) /\ At(<<"a", "f">>) = "f" /\ At(<<"a">>) = "a"
      BY <2>1, DirectName, PlacesAre
    <3>2. Guards("/", "a") /\ Guards("a", "f") /\ HoldsOff(attr["f"])
      BY <1>3, <1>4, <3>1
    <3> QED  BY <2>1, <3>2
  <2>2. CASE layout = "linked"
    <3>1. <<"a", "l">> \in Ends(Name) /\ At(<<"a", "l">>) = "l" /\ At(<<"a">>) = "a"
          /\ <<"b", "f">> \in Ends(Name) /\ At(<<"b", "f">>) = "f" /\ At(<<"b">>) = "b"
      BY <1>1, <2>2, LinkedName, PlacesAre DEF Leads
    <3>2. Guards("/", "a") /\ Guards("a", "l")
      BY <1>3, <1>4, <3>1
    <3>3. Guards("/", "b") /\ Guards("b", "f") /\ HoldsOff(attr["f"])
      BY <1>3, <1>4, <3>1
    <3> QED  BY <2>2, <3>2, <3>3
  <2>3. CASE layout = "dotdot"
    <3>1. <<"a", "l">> \in Ends(Name) /\ At(<<"a", "l">>) = "l" /\ At(<<"a">>) = "a"
          /\ <<"b", "f">> \in Ends(Name) /\ At(<<"b", "f">>) = "f" /\ At(<<"b">>) = "b"
          /\ <<"b", "d">> \in Ends(Name) /\ At(<<"b", "d">>) = "d"
      BY <1>1, <2>3, DotdotName, PlacesAre DEF Leads
    <3>2. Guards("/", "a") /\ Guards("a", "l")
      BY <1>3, <1>4, <3>1
    <3>3. Guards("/", "b") /\ Guards("b", "f") /\ HoldsOff(attr["f"])
      BY <1>3, <1>4, <3>1
    <3>4. Guards("b", "d") /\ HoldsOff(attr["d"])
      BY <1>3, <1>4, <3>1
    <3> QED  BY <2>3, <3>2, <3>3, <3>4
  <2> QED  BY <1>1, <2>1, <2>2, <2>3, LayoutsAre DEF Leads
<1>6. attr["f"].uid # Stranger /\ (layout = "dotdot" => attr["d"].uid # Stranger)
  BY <1>5 DEF HoldsOff
<1>7. attr["/"].uid # Stranger /\ attr["a"].uid # Stranger /\ (layout # "direct" => attr["b"].uid # Stranger)
  BY <1>1, <1>5, LayoutsAre DEF Leads
<1>8. ASSUME NEW dir \in DOMAIN entry, NEW name \in Names, entry[dir][name] # Nobody
      PROVE  /\ attr[dir].uid # Stranger
             /\ attr[entry[dir][name]].kind # "link" => attr[entry[dir][name]].uid # Stranger
             /\ (~attr[dir].sticky \/ attr[entry[dir][name]].uid = Stranger) => HoldsOff(attr[dir])
  <2>1. PICK node : node = entry[dir][name]
    OBVIOUS
  <2>2. \/ dir = "/" /\ node = "a"
        \/ dir = "/" /\ node = "b" /\ layout # "direct"
        \/ dir = "a" /\ node = "l" /\ layout # "direct"
        \/ dir = "a" /\ node = "f" /\ layout = "direct"
        \/ dir = "b" /\ node = "d" /\ layout = "dotdot"
        \/ dir = "b" /\ node = "f" /\ layout # "direct"
    BY <1>8, <2>1, EdgeCases
  <2>3. Guards(dir, node)
    <3> HIDE DEF Guards
    <3> QED  BY <1>5, <2>2
  <2>4. attr[node].kind # "link" => attr[node].uid # Stranger
    BY <1>6, <1>7, <2>2, KindsAre
  <2> QED  BY <2>1, <2>3, <2>4
<1>9. NoWriterAbove
  BY <1>5, <1>8, Zenon DEF NoWriterAbove
<1> QED  BY <1>1, <1>9

(* The name leads to the file.                                             *)
LEMMA WhereItLeads ==
  ASSUME Whole, Leads
  PROVE  Place(Name) = Goal /\ Reached(Name) = "f"
<1>1. Place(Name) = Goal
  BY DirectName, LinkedName, DotdotName, LayoutsAre DEF Leads, Goal
<1>2. At(Goal) = "f"
  BY PlacesAre DEF Goal
<1>3. Goal # <<Nobody>>
  <2>1. Len(Goal) = 2 /\ Len(<<Nobody>>) = 1
    BY TailIs DEF Goal
  <2> QED  BY <2>1
<1>4. Reached(Name) = "f"
  BY <1>1, <1>2, <1>3, Zenon DEF Reached
<1> QED  BY <1>1, <1>4

-----------------------------------------------------------------------------
(* What the walks over a directory leave said.                             *)

Clear(shape) == shape.writers = {} /\ shape.acl = "none"

LEMMA AncestorsAre ==
  ASSUME NEW paths, AncestorsHold(paths), NEW path \in paths
  PROVE  Trusted(attr[At(path)]) /\ (Reaches(attr[At(path)], FALSE, FALSE) => Clear(attr[At(path)]))
BY Zenon DEF AncestorsHold, Clear

(* What the two walks of directories find of the tree, entry by entry.     *)
LEMMA GuardedBy ==
  ASSUME Whole, Trusted(attr["/"]), ~attr["/"].sticky => Clear(attr["/"]),
         Trusted(attr["a"]), layout = "direct" => Clear(attr["a"]),
         layout # "direct" => /\ Trusted(attr["b"]) /\ Clear(attr["b"]) /\ Trusted(attr["l"])
                              /\ ~attr["a"].sticky => Clear(attr["a"])
  PROVE  Guarded
<1>1. ASSUME NEW dir \in DOMAIN entry, NEW name \in Names, entry[dir][name] # Nobody
      PROVE  /\ dir # "d" => Trusted(attr[dir])
             /\ entry[dir][name] \notin {"f", "d"} => Trusted(attr[entry[dir][name]])
             /\ ~attr[dir].sticky \/ entry[dir][name] \in {"f", "d"} => attr[dir].writers = {} /\ attr[dir].acl = "none"
  <2>1. PICK node : node = entry[dir][name]
    OBVIOUS
  <2>2. \/ dir = "/" /\ node = "a"
        \/ dir = "/" /\ node = "b" /\ layout # "direct"
        \/ dir = "a" /\ node = "l" /\ layout # "direct"
        \/ dir = "a" /\ node = "f" /\ layout = "direct"
        \/ dir = "b" /\ node = "d" /\ layout = "dotdot"
        \/ dir = "b" /\ node = "f" /\ layout # "direct"
    BY <1>1, <2>1, EdgeCases
  <2>3. Trusted(attr[dir]) /\ (node \notin {"f", "d"} => Trusted(attr[node]))
    BY <2>2
  <2>4. ~attr[dir].sticky \/ node \in {"f", "d"} => Clear(attr[dir])
    BY <2>2
  <2> QED  BY <2>1, <2>3, <2>4 DEF Clear
<1> QED  BY <1>1, Zenon DEF Guarded

(* What protect_directory says of the whole tree.                          *)
LEMMA AddressShows ==
  ASSUME Whole, protect_directory
  PROVE  Leads /\ Guarded
<1> DEFINE place == Place(Directory)
<1>1. /\ place # <<Nobody>> /\ Trusted(attr[At(place)]) /\ Clear(attr[At(place)])
      /\ \A link \in Followed(Directory) : Trusted(attr[At(link)])
      /\ AncestorsHold(Range(Parents(place)) \cup (Crossed(Directory) \ {place}))
  BY Zenon DEF protect_directory, Clear
<1>2. Leads
  BY <1>1, LeadsNowhere
<1>3. ASSUME NEW path \in Crossed(Directory), path # place
      PROVE  Trusted(attr[At(path)]) /\ (Reaches(attr[At(path)], FALSE, FALSE) => Clear(attr[At(path)]))
  <2>1. path \in Range(Parents(place)) \cup (Crossed(Directory) \ {place})
    BY <1>3
  <2> QED  BY <1>1, <2>1, AncestorsAre
<1> HIDE DEF place
<1>4. <<>> # <<"a">> /\ <<>> # <<"b">> /\ <<"a">> # <<"b">>
  OBVIOUS
<1>5. /\ Reaches(attr["/"], FALSE, FALSE) = ~attr["/"].sticky
      /\ Reaches(attr["a"], FALSE, FALSE) = ~attr["a"].sticky
  BY KindsAre DEF Reaches
<1>6. CASE layout = "direct"
  <2>1. place = <<"a">> /\ <<>> \in Crossed(Directory)
    BY <1>6, DirectDirectory DEF place
  <2>2. At(place) = "a" /\ At(<<>>) = "/"
    BY <2>1, PlacesAre
  <2>3. Trusted(attr["/"]) /\ (~attr["/"].sticky => Clear(attr["/"]))
    BY <1>3, <1>4, <1>5, <2>1, <2>2
  <2> QED  BY <1>1, <1>2, <1>6, <2>2, <2>3, GuardedBy
<1>7. CASE layout = "linked" \/ layout = "dotdot"
  <2>1. place = <<"b">> /\ <<>> \in Crossed(Directory) /\ <<"a">> \in Crossed(Directory) /\ <<"a", "l">> \in Followed(Directory)
    BY <1>2, <1>7, LinkedDirectory, DotdotDirectory DEF place, Leads
  <2>2. At(place) = "b" /\ At(<<>>) = "/" /\ At(<<"a">>) = "a" /\ At(<<"a", "l">>) = "l"
    BY <1>7, <2>1, PlacesAre
  <2>3. Trusted(attr["/"]) /\ (~attr["/"].sticky => Clear(attr["/"]))
    BY <1>3, <1>4, <1>5, <2>1, <2>2
  <2>4. Trusted(attr["a"]) /\ (~attr["a"].sticky => Clear(attr["a"]))
    BY <1>3, <1>4, <1>5, <2>1, <2>2
  <2>5. Trusted(attr["l"]) /\ Trusted(attr["b"]) /\ Clear(attr["b"])
    BY <1>1, <2>1, <2>2
  <2> QED  BY <1>2, <1>7, <2>3, <2>4, <2>5, GuardedBy
<1> QED  BY <1>2, <1>6, <1>7, LayoutsAre DEF Leads

LEMMA FunctionIsSeq == ASSUME NEW T, NEW n \in Nat, NEW f \in [1..n -> T] PROVE f \in Seq(T)
OBVIOUS

LEMMA ParentOfOne ==
  ASSUME NEW x \in Names
  PROVE  <<>> \in Range(Parents(<<x>>))
<1> DEFINE chain == ChainOf(<<x>>)
<1>1. Len(<<x>>) = 1
  BY TailIs
<1>2. chain = [i \in 1..2 |-> SubSeq(<<x>>, 1, 2 - i)]
  BY <1>1 DEF ChainOf
<1>3. chain[2] = SubSeq(<<x>>, 1, 0) /\ chain = [i \in 1..2 |-> chain[i]]
  BY <1>2
<1>4. chain[2] = <<>>
  BY <1>3, UpIs
<1> HIDE DEF chain
<1> DEFINE S == {chain[i] : i \in 1..2}
<1>5. chain \in Seq(S) /\ Len(chain) = 2
  <2>0. chain \in [1..2 -> S]
    BY <1>3
  <2>1. DOMAIN chain = 1..2
    BY <1>3
  <2>2. chain \in Seq(S)
    <3>1. 2 \in Nat
      OBVIOUS
    <3> QED  BY <2>0, <3>1, FunctionIsSeq, Zenon
  <2>3. Len(chain) \in Nat /\ 1..Len(chain) = 1..2
    BY <2>1, <2>2, LenProperties
  <2>4. \A n \in Nat : 1..n = 1..2 => n = 2
    <3>1. ASSUME NEW n \in Nat, 1..n = 1..2 PROVE n = 2
      <4>1. 2 \in 1..n /\ ~ (3 \in 1..n)
        BY <3>1
      <4> QED  BY <4>1
    <3> QED  BY <3>1
  <2> QED  BY <2>2, <2>3, <2>4
<1> HIDE DEF S
<1>6. Tail(chain)[1] = chain[2] /\ 1 \in DOMAIN Tail(chain)
  <2>1. chain # <<>>
    BY <1>5, EmptySeq
  <2>2. Tail(chain) \in Seq(S) /\ Len(Tail(chain)) = 1 /\ \A i \in 1..Len(Tail(chain)) : Tail(chain)[i] = chain[i + 1]
    BY <1>5, <2>1, HeadTailProperties
  <2>3. DOMAIN Tail(chain) = 1..1
    BY <2>2, LenProperties
  <2> QED  BY <2>2, <2>3
<1> QED  BY <1>4, <1>6 DEF Parents, Range, chain

(* What system_evidence_root says of a tree with no link.                  *)
LEMMA RootShows ==
  ASSUME Whole, layout = "direct", system_evidence_root
  PROVE  Leads /\ Guarded
<1> DEFINE place == Place(Directory)
<1>1. /\ attr[At(place)].uid = DaemonUid /\ Clear(attr[At(place)]) /\ AncestorsHold(Range(Parents(place)))
  BY Zenon DEF system_evidence_root, Clear
<1>2. place = <<"a">> /\ At(<<"a">>) = "a" /\ At(<<>>) = "/"
  BY DirectDirectory, PlacesAre
<1> HIDE DEF place
<1>3. <<>> \in Range(Parents(place))
  BY <1>2, ParentOfOne DEF Names
<1>4. Trusted(attr["/"]) /\ (~attr["/"].sticky => Clear(attr["/"]))
  <2>1. Reaches(attr["/"], FALSE, FALSE) = ~attr["/"].sticky
    BY KindsAre DEF Reaches
  <2> QED  BY <1>1, <1>2, <1>3, <2>1, AncestorsAre
<1>5. Trusted(attr["a"]) /\ Clear(attr["a"])
  BY <1>1, <1>2 DEF Trusted
<1> QED  BY <1>4, <1>5, GuardedBy DEF Leads

-----------------------------------------------------------------------------
(* What the grade of a caller says.                                        *)

LEMMA PlaceOfNothing ==
  ASSUME Whole
  PROVE  Place(<<>>) = <<>>
<1>1. layout \in Layouts /\ <<>> \in Seq(Parts) /\ 0 \in Nat
  BY LayoutsAre, EmptySeq
<1>2. StopsAt(<<>>, 0, <<>>, 0)
  BY <1>1, SeesFirst DEF StopsAt
<1>3. Arrival(<<>>).current = <<>> /\ Arrival(<<>>).rest = <<>>
  BY <1>1, <1>2, GoesNoFurther
<1>4. \A look \in Looks(<<>>) : \E i \in 0..0 : look = Lookup(<<>>)[i]
  BY <1>1, <1>2, GoesNoFurther
<1>5. ~Descends(Lookup(<<>>)[0])
  BY <1>1, <1>2, GoesNoFurther
<1>6. ASSUME NEW look \in Looks(<<>>) PROVE ~Descends(look)
  <2>1. PICK i \in 0..0 : look = Lookup(<<>>)[i]
    BY <1>4
  <2>2. i = 0
    OBVIOUS
  <2>3. look = Lookup(<<>>)[0]
    BY <2>1, <2>2
  <2> QED  BY <1>5, <2>3, Zenon
<1> QED  BY <1>3, <1>6, Zenon DEF Place

(* What the grade's walk inspects.                                         *)
LEMMA LstatsAre ==
  ASSUME Whole, layout = "direct"
  PROVE  Lstat(<<>>) = "/" /\ Lstat(<<"a">>) = "a" /\ Lstat(<<"a", "f">>) = "f"
<1>1. Lstat(<<>>) = "/"
  BY DEF Lstat
<1>2. /\ Last(<<"a">>) = "a" /\ Front(<<"a">>) = <<>> /\ Last(<<"a", "f">>) = "f" /\ Front(<<"a", "f">>) = <<"a">>
  <2>1. Len(<<"a">>) = 1 /\ Len(<<"a", "f">>) = 2 /\ 1 - 1 = 0 /\ 2 - 1 = 1
    BY TailIs
  <2>2. SubSeq(<<"a">>, 1, 0) = <<>> /\ SubSeq(<<"a", "f">>, 1, 1) = <<"a">>
    BY UpIs DEF Names
  <2>3. Front(<<"a">>) = SubSeq(<<"a">>, 1, 0) /\ Front(<<"a", "f">>) = SubSeq(<<"a", "f">>, 1, 1)
    BY <2>1 DEF Front
  <2>4. Last(<<"a">>) = "a" /\ Last(<<"a", "f">>) = "f"
    BY <2>1 DEF Last
  <2> QED  BY <2>2, <2>3, <2>4
<1>3. Append(<<>>, "a") = <<"a">> /\ Append(<<"a">>, "f") = <<"a", "f">>
  BY AppendTo DEF Parts, Names
<1>4. Place(<<>>) = <<>> /\ Place(<<"a">>) = <<"a">> /\ Directory = <<"a">>
  BY PlaceOfNothing, DirectDirectory, NamesAre
<1>5. At(<<"a">>) = "a" /\ At(<<"a", "f">>) = "f"
  BY PlacesAre
<1>6. <<"a">> # <<>> /\ <<"a", "f">> # <<>> /\ <<>> # <<Nobody>> /\ <<"a">> # <<Nobody>> /\ "a" # ".." /\ "f" # ".."
  BY TailIs DEF Nobody
<1>7. Lstat(<<"a">>) = "a"
  BY <1>2, <1>3, <1>4, <1>5, <1>6, Zenon DEF Lstat
<1>8. Lstat(<<"a", "f">>) = "f"
  BY <1>2, <1>3, <1>4, <1>5, <1>6, Zenon DEF Lstat
<1> QED  BY <1>1, <1>7, <1>8

LEMMA NodesInspected ==
  ASSUME Whole, layout = "direct"
  PROVE  /\ Len(Inspected) = 3 /\ Lstat(Inspected[1]) = "/" /\ Lstat(Inspected[2]) = "a" /\ Lstat(Inspected[3]) = "f"
<1>1. Name = <<"a", "f">> /\ Len(Name) = 2
  BY NamesAre, TailIs
<1> DEFINE seen == Inspected
<1>2. seen = [i \in 1..3 |-> SubSeq(<<"a", "f">>, 1, i - 1)]
  BY <1>1 DEF Inspected
<1>3. /\ seen[1] = SubSeq(<<"a", "f">>, 1, 0) /\ seen[2] = SubSeq(<<"a", "f">>, 1, 1)
      /\ seen[3] = SubSeq(<<"a", "f">>, 1, 2) /\ seen = [i \in 1..3 |-> seen[i]]
  BY <1>2
<1>4. seen[1] = <<>> /\ seen[2] = <<"a">> /\ seen[3] = <<"a", "f">>
  BY <1>3, UpIs DEF Names
<1> HIDE DEF seen
<1>5. Len(seen) = 3
  <2> DEFINE S == {seen[i] : i \in 1..3}
  <2>1. seen \in [1..3 -> S]
    BY <1>3
  <2>2. DOMAIN seen = 1..3
    BY <1>3
  <2> HIDE DEF S
  <2>3. 3 \in Nat
    OBVIOUS
  <2>4. seen \in Seq(S)
    BY <2>1, <2>3, FunctionIsSeq, Zenon
  <2>5. Len(seen) \in Nat /\ 1..Len(seen) = 1..3
    BY <2>2, <2>4, LenProperties
  <2>6. \A n \in Nat : 1..n = 1..3 => n = 3
    <3>1. ASSUME NEW n \in Nat, 1..n = 1..3 PROVE n = 3
      <4>1. 3 \in 1..n /\ ~ (4 \in 1..n)
        BY <3>1
      <4> QED  BY <4>1
    <3> QED  BY <3>1
  <2> QED  BY <2>5, <2>6
<1> QED  BY <1>4, <1>5, LstatsAre DEF seen

(* What a grade of no writer says of a tree with no link.                  *)
LEMMA GradeShows ==
  ASSUME Whole, layout = "direct", evaluate_grade = "caller_cannot_write"
  PROVE  Leads /\ OutOfReach
<1> DEFINE nodes == [i \in 1..Len(Inspected) |-> Lstat(Inspected[i])]
           Searched(i) == attr[nodes[i]].uid = Stranger \/ attr[nodes[i]].search
           Writable(i) ==
             LET shape == attr[nodes[i]]
                 owns == shape.uid = Stranger
             IN  /\ owns \/ ClassWrites(shape)
                 /\ i = Len(nodes)
                    \/ Reaches([shape EXCEPT !.kind = "dir"], owns, attr[nodes[i + 1]].uid = Stranger)
           Unsure == \E i \in 1..Len(nodes) : nodes[i] = Nobody \/ attr[nodes[i]].acl # "none"
           Can == \E i \in 1..Len(nodes) : Writable(i) /\ \A j \in 1..(i - 1) : Searched(j)
<1>1. evaluate_grade = IF Unsure THEN "access_not_established" ELSE IF Can THEN "caller_can_write" ELSE "caller_cannot_write"
  BY Zenon DEF evaluate_grade
<1>2. ~Unsure /\ ~Can
  <2> HIDE DEF Unsure, Can
  <2> QED  BY <1>1
<1>3. nodes[1] = "/" /\ nodes[2] = "a" /\ nodes[3] = "f" /\ nodes = [i \in 1..3 |-> nodes[i]]
  <2>1. nodes = [i \in 1..3 |-> Lstat(Inspected[i])]
    BY NodesInspected
  <2> HIDE DEF nodes
  <2>2. nodes[1] = Lstat(Inspected[1]) /\ nodes[2] = Lstat(Inspected[2]) /\ nodes[3] = Lstat(Inspected[3])
        /\ nodes = [i \in 1..3 |-> nodes[i]]
    BY <2>1
  <2> QED  BY <2>2, NodesInspected
<1>4. Len(nodes) = 3
  <2> HIDE DEF nodes
  <2> DEFINE S == {nodes[i] : i \in 1..3}
  <2>1. nodes \in [1..3 -> S]
    BY <1>3
  <2>2. DOMAIN nodes = 1..3
    BY <1>3
  <2> HIDE DEF S
  <2>3. 3 \in Nat
    OBVIOUS
  <2>4. nodes \in Seq(S)
    BY <2>1, <2>3, FunctionIsSeq, Zenon
  <2>5. Len(nodes) \in Nat /\ 1..Len(nodes) = 1..3
    BY <2>2, <2>4, LenProperties
  <2>6. \A n \in Nat : 1..n = 1..3 => n = 3
    <3>1. ASSUME NEW n \in Nat, 1..n = 1..3 PROVE n = 3
      <4>1. 3 \in 1..n /\ ~ (4 \in 1..n)
        BY <3>1
      <4> QED  BY <4>1
    <3> QED  BY <3>1
  <2> QED  BY <2>5, <2>6
<1> HIDE DEF nodes
<1>5. \A node \in {"/", "a", "f"} : attr[node].acl = "none"
  <2>1. 1 \in 1..3 /\ 2 \in 1..3 /\ 3 \in 1..3
    OBVIOUS
  <2> QED  BY <1>2, <1>3, <1>4, <2>1
<1>6. ~Writable(1) /\ (Searched(1) => ~Writable(2)) /\ (Searched(1) /\ Searched(2) => ~Writable(3))
  <2>1. 1 \in 1..3 /\ 2 \in 1..3 /\ 3 \in 1..3
        /\ (\A j \in 1..(1 - 1) : FALSE) /\ (\A j \in 1..(2 - 1) : j = 1) /\ (\A j \in 1..(3 - 1) : j = 1 \/ j = 2)
    OBVIOUS
  <2> HIDE DEF Writable, Searched
  <2> QED  BY <1>2, <1>4, <2>1
<1>7. \A node \in {"/", "a", "f"} : MayWrite(attr[node]) = (attr[node].uid = Stranger \/ ClassWrites(attr[node]))
  BY <1>5 DEF MayWrite
<1>8. \A node \in {"/", "a"} : \A owns, ownsEntry \in BOOLEAN :
         Reaches([attr[node] EXCEPT !.kind = "dir"], owns, ownsEntry) = Reaches(attr[node], owns, ownsEntry)
  <2>1. \A node \in {"/", "a"} : [attr[node] EXCEPT !.kind = "dir"] = attr[node]
    <3>1. \A node \in {"/", "a"} : attr[node].kind = "dir" /\ attr[node] \in ShapesOf("dir") \cup ShapesOf("file") \cup ShapesOf("link")
      BY KindsAre DEF Whole, TreeShape, Nodes
    <3> QED  BY <3>1 DEF ShapesOf
  <2> QED  BY <2>1
<1>9. 1 + 1 = 2 /\ 2 + 1 = 3 /\ 1 # 3 /\ 2 # 3
  OBVIOUS
<1>10. Writable(1) = (MayWrite(attr["/"]) /\ Reaches(attr["/"], attr["/"].uid = Stranger, attr["a"].uid = Stranger))
  BY <1>3, <1>4, <1>7, <1>8, <1>9
<1>11. Writable(2) = (MayWrite(attr["a"]) /\ Reaches(attr["a"], attr["a"].uid = Stranger, attr["f"].uid = Stranger))
  BY <1>3, <1>4, <1>7, <1>8, <1>9
<1>12. Writable(3) = MayWrite(attr["f"])
  BY <1>3, <1>4, <1>7
<1>13. Searched(1) = (attr["/"].uid = Stranger \/ attr["/"].search) /\ Searched(2) = (attr["a"].uid = Stranger \/ attr["a"].search)
  BY <1>3
<1> HIDE DEF Writable, Searched
<1>14. OutOfReach
  BY <1>5, <1>6, <1>10, <1>11, <1>12, <1>13, Zenon DEF OutOfReach
<1> QED  BY <1>14 DEF Leads

-----------------------------------------------------------------------------
(* What the stranger may not do.                                           *)

(* Who is held off may not write.                                          *)
LEMMA Kept ==
  ASSUME NEW shape
  PROVE  /\ RootOnly(shape) => ~MayWrite(shape)
         /\ HoldsOff(shape) => ~MayWrite(shape)
         /\ Trusted(shape) /\ Clear(shape) => ~MayWrite(shape)
BY DEF RootOnly, HoldsOff, Trusted, Clear, MayWrite, ClassWrites, Root, DaemonUid, Stranger, Strangers, Administrators

LEMMA PathsInDirs == \A path \in Dirs : path \in Seq(Parts)
<1>1. "a" \in Parts /\ "b" \in Parts /\ "d" \in Parts
  BY DEF Parts, Names
<1>2. <<>> \in Seq(Parts) /\ <<"a">> \in Seq(Parts) /\ <<"b">> \in Seq(Parts) /\ <<"b", "d">> \in Seq(Parts)
  BY <1>1
<1> QED  BY <1>2 DEF Dirs

(* A directory a stranger searches is one of the tree's.                   *)
LEMMA DirOf ==
  ASSUME Whole, NEW path \in Dirs, MaySearch(path)
  PROVE  /\ At(path) \in DOMAIN entry /\ attr[At(path)].kind = "dir"
         /\ attr["/"].uid = Stranger \/ attr["/"].search
         /\ attr[At(path)].uid = Stranger \/ attr[At(path)].search
<1>1. path = <<>> \/ path = <<"a">> \/ path = <<"b">> \/ path = <<"b", "d">>
  BY DEF Dirs
<1>2. /\ SubSeq(path, 1, 0) = <<>> /\ SubSeq(path, 1, Len(path)) = path
      /\ 0 \in 0..Len(path) /\ Len(path) \in 0..Len(path)
  <2>1. CASE path = <<>>
    <3>1. Len(path) = 0
      BY <2>1, EmptySeq
    <3> QED  BY <2>1, <3>1, UpIs DEF Names
  <2>2. CASE path = <<"a">> \/ path = <<"b">>
    <3>1. Len(path) = 1
      BY <2>2, TailIs
    <3> QED  BY <2>2, <3>1, UpIs DEF Names
  <2>3. CASE path = <<"b", "d">>
    <3>1. Len(path) = 2
      BY <2>3, TailIs
    <3> QED  BY <2>3, <3>1, UpIs DEF Names
  <2> QED  BY <1>1, <2>1, <2>2, <2>3
<1>3. \A i \in 0..Len(path) :
         Is("dir", At(SubSeq(path, 1, i)))
         /\ (attr[At(SubSeq(path, 1, i))].uid = Stranger \/ attr[At(SubSeq(path, 1, i))].search)
  BY Zenon DEF MaySearch
<1>4. Is("dir", At(path)) /\ (attr[At(path)].uid = Stranger \/ attr[At(path)].search)
      /\ (attr["/"].uid = Stranger \/ attr["/"].search)
  BY <1>2, <1>3, AtRoot
<1>5. At(path) \in {"/", "a", "b", "d", Nobody}
  BY <1>1, LayoutsAre, PlacesAre
<1> QED  BY <1>4, <1>5, KindsAre, EntriesAre

LEMMA NodeBelow ==
  ASSUME Whole, NEW path \in Dirs, MaySearch(path), NEW name \in Names
  PROVE  At(Append(path, name)) = entry[At(path)][name]
<1>1. path \in Seq(Parts) /\ name \in Parts
  BY PathsInDirs DEF Parts
<1> QED  BY <1>1, AtChild, DirOf DEF Child

Walled == RootsAlone \/ NoWriterAbove \/ Guarded \/ (layout = "direct" /\ OutOfReach)

(* Where one of the walls stands, no entry can be replaced.                *)
LEMMA NothingReplaced ==
  ASSUME Whole, Walled, NEW path \in Dirs, NEW name \in Names, NEW by, Replace(path, name, by)
  PROVE  FALSE
<1> DEFINE dir == At(path)
           node == entry[dir][name]
<1>1. /\ MaySearch(path) /\ MayWrite(attr[dir]) /\ node # Nobody
      /\ Reaches(attr[dir], attr[dir].uid = Stranger, attr[node].uid = Stranger)
  BY DEF Replace
<1>2. /\ dir \in DOMAIN entry /\ attr[dir].kind = "dir"
      /\ attr["/"].uid = Stranger \/ attr["/"].search
      /\ attr[dir].uid = Stranger \/ attr[dir].search
  BY <1>1, DirOf
<1>3. \/ dir = "/" /\ node = "a"
      \/ dir = "/" /\ node = "b" /\ layout # "direct"
      \/ dir = "a" /\ node = "l" /\ layout # "direct"
      \/ dir = "a" /\ node = "f" /\ layout = "direct"
      \/ dir = "b" /\ node = "d" /\ layout = "dotdot"
      \/ dir = "b" /\ node = "f" /\ layout # "direct"
  BY <1>1, <1>2, EdgeCases
<1>4. ~attr[dir].sticky \/ attr[dir].uid = Stranger \/ attr[node].uid = Stranger
  BY <1>1, <1>2 DEF Reaches
<1>5. CASE RootsAlone
  <2>1. attr[dir].uid = Root /\ attr[node].uid = Root /\ (~attr[dir].sticky => RootOnly(attr[dir]))
    BY <1>1, <1>2, <1>5 DEF RootsAlone
  <2>2. RootOnly(attr[dir])
    BY <1>4, <2>1 DEF Root, Stranger
  <2> QED  BY <1>1, <2>2, Kept
<1>6. CASE NoWriterAbove
  <2>1. attr[dir].uid # Stranger /\ (~attr[dir].sticky \/ attr[node].uid = Stranger => HoldsOff(attr[dir]))
    BY <1>1, <1>2, <1>6 DEF NoWriterAbove
  <2>2. HoldsOff(attr[dir])
    BY <1>4, <2>1
  <2> QED  BY <1>1, <2>2, Kept
<1>7. CASE Guarded
  <2>1. dir # "d"
    BY <1>3
  <2>2. /\ Trusted(attr[dir]) /\ (node \notin {"f", "d"} => Trusted(attr[node]))
        /\ ~attr[dir].sticky \/ node \in {"f", "d"} => attr[dir].writers = {} /\ attr[dir].acl = "none"
    BY <1>1, <1>2, <1>7, <2>1 DEF Guarded
  <2>3. ~attr[dir].sticky \/ node \in {"f", "d"}
    BY <1>4, <2>2 DEF Trusted, Root, DaemonUid, Stranger
  <2> QED  BY <1>1, <2>2, <2>3, Kept DEF Clear
<1>8. CASE layout = "direct" /\ OutOfReach
  <2>1. (dir = "/" /\ node = "a") \/ (dir = "a" /\ node = "f")
    BY <1>3, <1>8
  <2> HIDE DEF dir, node
  <2>2. CASE dir = "/" /\ node = "a"
    BY <1>1, <1>8, <2>2 DEF OutOfReach
  <2>3. CASE dir = "a" /\ node = "f"
    BY <1>1, <1>2, <1>8, <2>3 DEF OutOfReach
  <2> QED  BY <2>1, <2>2, <2>3
<1> QED  BY <1>5, <1>6, <1>7, <1>8 DEF Walled

\* Only what was not walked may have its modes changed.
LEMMA ModesChanged ==
  ASSUME Whole, Walled, NEW path \in Dirs, NEW name \in Names, ChangeMode(path, name)
  PROVE  /\ ~RootsAlone /\ ~NoWriterAbove /\ ~ (layout = "direct" /\ OutOfReach)
         /\ At(Append(path, name)) \in {"f", "d"}
<1> DEFINE dir == At(path)
           node == entry[dir][name]
<1>1. /\ MaySearch(path) /\ At(Append(path, name)) # Nobody
      /\ attr[At(Append(path, name))].kind # "link" /\ attr[At(Append(path, name))].uid = Stranger
  BY DEF ChangeMode
<1>2. At(Append(path, name)) = node
  BY <1>1, NodeBelow
<1>3. node # Nobody /\ attr[node].kind # "link" /\ attr[node].uid = Stranger
  BY <1>1, <1>2
<1>4. /\ dir \in DOMAIN entry /\ attr[dir].kind = "dir"
      /\ attr["/"].uid = Stranger \/ attr["/"].search
      /\ attr[dir].uid = Stranger \/ attr[dir].search
  BY <1>1, DirOf
<1>5. \/ dir = "/" /\ node = "a"
      \/ dir = "/" /\ node = "b" /\ layout # "direct"
      \/ dir = "a" /\ node = "l" /\ layout # "direct"
      \/ dir = "a" /\ node = "f" /\ layout = "direct"
      \/ dir = "b" /\ node = "d" /\ layout = "dotdot"
      \/ dir = "b" /\ node = "f" /\ layout # "direct"
  BY <1>3, <1>4, EdgeCases
<1>6. ~RootsAlone
  <2>1. RootsAlone => attr[node].uid = Root
    BY <1>3, <1>4 DEF RootsAlone
  <2> QED  BY <1>3, <2>1 DEF Root, Stranger
<1>7. ~NoWriterAbove
  <2>1. NoWriterAbove => attr[node].uid # Stranger
    BY <1>3, <1>4 DEF NoWriterAbove
  <2> QED  BY <1>3, <2>1
<1>8. ~ (layout = "direct" /\ OutOfReach)
  <2>1. ASSUME layout = "direct", OutOfReach PROVE FALSE
    <3>1. (dir = "/" /\ node = "a") \/ (dir = "a" /\ node = "f")
      BY <1>5, <2>1
    <3>2. MayWrite(attr[node]) /\ (attr["a"].uid = Stranger => Reaches(attr["a"], attr["a"].uid = Stranger, attr["f"].uid = Stranger))
      BY <1>3 DEF MayWrite, Reaches
    <3> HIDE DEF dir, node
    <3>3. CASE dir = "/" /\ node = "a"
      BY <1>3, <1>4, <2>1, <3>2, <3>3 DEF OutOfReach
    <3>4. CASE dir = "a" /\ node = "f"
      BY <1>4, <2>1, <3>2, <3>4 DEF OutOfReach
    <3> QED  BY <3>1, <3>3, <3>4
  <2> QED  BY <2>1
<1>9. node \in {"f", "d"}
  <2>1. Guarded
    BY <1>6, <1>7, <1>8 DEF Walled
  <2>2. node \notin {"f", "d"} => Trusted(attr[node])
    BY <1>3, <1>4, <2>1 DEF Guarded
  <2> QED  BY <1>3, <2>2 DEF Trusted, Root, DaemonUid, Stranger
<1> QED  BY <1>2, <1>6, <1>7, <1>8, <1>9

(* Nor can the file be written, unless only its directories were walked.   *)
LEMMA NothingWritten ==
  ASSUME Whole, NEW path \in Dirs, WriteFile(path)
  PROVE  ~RootsAlone /\ ~NoWriterAbove /\ ~ (layout = "direct" /\ OutOfReach)
<1>1. MaySearch(path) /\ At(Append(path, "f")) = "f" /\ MayWrite(attr["f"])
  BY DEF WriteFile
<1>2. ~RootsAlone /\ ~NoWriterAbove
  BY <1>1, Kept DEF RootsAlone, NoWriterAbove
<1>3. ASSUME layout = "direct", OutOfReach PROVE FALSE
  <2>1. "f" \in Names /\ "f" # Nobody
    BY DEF Names, Nobody
  <2> DEFINE dir == At(path)
  <2>2. entry[dir]["f"] = "f"
    BY <1>1, <2>1, NodeBelow
  <2>3. /\ dir \in DOMAIN entry
        /\ attr["/"].uid = Stranger \/ attr["/"].search
        /\ attr[dir].uid = Stranger \/ attr[dir].search
    BY <1>1, DirOf
  <2>4. dir = "a"
    BY <1>3, <2>1, <2>2, <2>3, EdgeCases
  <2> HIDE DEF dir
  <2> QED  BY <1>1, <1>3, <2>3, <2>4 DEF OutOfReach
<1> QED  BY <1>2, <1>3

-----------------------------------------------------------------------------
(* The tree keeps its shape.                                               *)

LEMMA ShapesInit ==
  ASSUME NEW top \in TopShapes, NEW a \in DirShapes, NEW b \in DirShapes, NEW f \in FileShapes,
         NEW owner \in {Root, Stranger}
  PROVE  /\ top \in ShapesOf("dir") /\ a \in ShapesOf("dir") /\ b \in ShapesOf("dir") /\ f \in ShapesOf("file")
         /\ Link(owner) \in ShapesOf("link") /\ Own \in ShapesOf("file")
<1>1. top \in ShapesOf("dir") /\ a \in ShapesOf("dir") /\ b \in ShapesOf("dir") /\ f \in ShapesOf("file")
  BY PathsAssumption
<1>2. Link(owner) \in ShapesOf("link")
  BY DEF Link, Shape, ShapesOf, Root, Stranger
<1>3. Own \in ShapesOf("file")
  BY DEF Own, Shape, ShapesOf, Stranger, Strangers
<1> QED  BY <1>1, <1>2, <1>3

(* The entries of every layout.                                            *)
LEMMA EntriesTyped ==
  /\ EntriesOf(layout) \in [{"/", "a", "b", "d"} -> [Names -> Nodes \cup {Nobody}]]
  /\ DOMAIN EntriesOf(layout) = {"/", "a", "b", "d"}
<1> DEFINE Rows(dir) ==
             CASE dir = "/" -> [Empty EXCEPT !["a"] = "a", !["b"] = IF layout = "direct" THEN Nobody ELSE "b"]
               [] dir = "a" -> [Empty EXCEPT !["l"] = IF layout = "direct" THEN Nobody ELSE "l",
                                             !["f"] = IF layout = "direct" THEN "f" ELSE Nobody]
               [] dir = "b" -> [Empty EXCEPT !["d"] = IF layout = "dotdot" THEN "d" ELSE Nobody,
                                             !["f"] = IF layout = "direct" THEN Nobody ELSE "f"]
               [] OTHER     -> Empty
<1>1. EntriesOf(layout) = [dir \in {"/", "a", "b", "d"} |-> Rows(dir)]
  BY Zenon DEF EntriesOf
<1>2. Empty \in [Names -> Nodes \cup {Nobody}]
  BY DEF Empty
<1>3. \A dir \in {"/", "a", "b", "d"} : Rows(dir) \in [Names -> Nodes \cup {Nobody}]
  <2>1. /\ Rows("/") = [Empty EXCEPT !["a"] = "a", !["b"] = IF layout = "direct" THEN Nobody ELSE "b"]
        /\ Rows("a") = [Empty EXCEPT !["l"] = IF layout = "direct" THEN Nobody ELSE "l",
                                     !["f"] = IF layout = "direct" THEN "f" ELSE Nobody]
        /\ Rows("b") = [Empty EXCEPT !["d"] = IF layout = "dotdot" THEN "d" ELSE Nobody,
                                     !["f"] = IF layout = "direct" THEN Nobody ELSE "f"]
        /\ Rows("d") = Empty
    OBVIOUS
  <2> HIDE DEF Rows
  <2>2. "a" \in Nodes /\ "b" \in Nodes /\ "d" \in Nodes /\ "l" \in Nodes /\ "f" \in Nodes
    BY DEF Nodes
  <2>3. Rows("/") \in [Names -> Nodes \cup {Nobody}]
    BY <1>2, <2>1, <2>2
  <2>4. Rows("a") \in [Names -> Nodes \cup {Nobody}]
    BY <1>2, <2>1, <2>2
  <2>5. Rows("b") \in [Names -> Nodes \cup {Nobody}]
    BY <1>2, <2>1, <2>2
  <2> QED  BY <1>2, <2>1, <2>3, <2>4, <2>5
<1> HIDE DEF Rows
<1> QED  BY <1>1, <1>3

(* The tree at the start.                                                  *)
LEMMA TreeAtFirst ==
  ASSUME PathsInit
  PROVE  PathsInv
<1>1. PICK top \in TopShapes, a \in DirShapes, b \in DirShapes, f \in FileShapes, owner \in {Root, Stranger} :
         /\ layout = "direct" => b = top /\ owner = Root
         /\ attr = [n \in Nodes |->
                CASE n = "/" -> top [] n = "a" -> a [] n = "b" -> b [] n = "d" -> b
                  [] n = "l" -> Link(owner) [] n = "f" -> f [] n = "own" -> Own]
  BY Zenon DEF PathsInit
<1>2. layout \in Layouts /\ entry = EntriesOf(layout) /\ content = "kept" /\ judged = Unjudged
  BY DEF PathsInit
<1>3. /\ top \in ShapesOf("dir") /\ a \in ShapesOf("dir") /\ b \in ShapesOf("dir") /\ f \in ShapesOf("file")
      /\ Link(owner) \in ShapesOf("link") /\ Own \in ShapesOf("file")
  BY ShapesInit
<1> DEFINE All == ShapesOf("dir") \cup ShapesOf("file") \cup ShapesOf("link")
           Link0 == Link(owner)
<1>4. \A kind : \A shape \in ShapesOf(kind) : shape.kind = kind
  BY DEF ShapesOf
<1> HIDE DEF Link0
<1>5. attr = [n \in Nodes |->
                CASE n = "/" -> top [] n = "a" -> a [] n = "b" -> b [] n = "d" -> b
                  [] n = "l" -> Link0 [] n = "f" -> f [] n = "own" -> Own]
  BY <1>1 DEF Link0
<1>6. /\ attr["/"] = top /\ attr["a"] = a /\ attr["b"] = b /\ attr["d"] = b /\ attr["l"] = Link0
      /\ attr["f"] = f /\ attr["own"] = Own /\ attr = [n \in Nodes |-> attr[n]]
  BY <1>5 DEF Nodes
<1>7. Link0 \in ShapesOf("link")
  BY <1>3 DEF Link0
<1>8. /\ attr["/"].kind = "dir" /\ attr["a"].kind = "dir" /\ attr["b"].kind = "dir" /\ attr["d"].kind = "dir"
      /\ attr["l"].kind = "link" /\ attr["f"].kind = "file" /\ attr["own"].kind = "file"
  BY <1>3, <1>4, <1>6, <1>7
<1>9. attr \in [Nodes -> All]
  <2>1. \A n \in Nodes : attr[n] \in All
    BY <1>3, <1>6, <1>7 DEF Nodes
  <2> HIDE DEF All
  <2> QED  BY <1>6, <2>1
<1>10. \A node \in Nodes : attr[node].kind = IF node = "l" THEN "link" ELSE IF node \in {"f", "own"} THEN "file" ELSE "dir"
  BY <1>8 DEF Nodes
<1>11. TreeShape
  BY <1>2, <1>9, <1>10, EntriesTyped DEF TreeShape
<1>12. PathsTypeOK
  <2>1. \A dir \in DOMAIN entry, name \in Names : entry[dir][name] \in Nodes \cup {Nobody}
    BY <1>2, EntriesTyped
  <2> QED  BY <1>2, <2>1 DEF PathsTypeOK, Unjudged
<1>13. ConclusionsRest
  BY <1>2 DEF ConclusionsRest, Unjudged
<1> QED  BY <1>11, <1>12, <1>13 DEF PathsInv

(* Nothing is concluded before the walks.                                  *)
LEMMA ConcludedIsDone ==
  ASSUME TreeShape, Concluded
  PROVE  judged.done
BY DEF TreeShape, Concluded, Unjudged

-----------------------------------------------------------------------------
(* Judge.                                                                  *)

(* What the walks conclude rests on what they showed.                      *)
LEMMA JudgedRests ==
  ASSUME TreeShape, PathsTypeOK, Judge
  PROVE  PathsInv'
<1>1. /\ ~judged.done /\ attr' = attr /\ entry' = entry /\ layout' = layout /\ content' = content
  BY DEF Judge
<1>2. Whole /\ content = "kept"
  BY <1>1 DEF Whole, TreeShape
<1> DEFINE verdict == [done |-> TRUE, policy |-> protection, caller |-> write_access,
                       address |-> protect_directory, root |-> system_evidence_root,
                       grade |-> evaluate_grade, reached |-> Reached(Name), place |-> Place(Name)]
           policy == protection
           caller == write_access
           address == protect_directory
           root == system_evidence_root
           grade == evaluate_grade
           reached == Reached(Name)
           where == Place(Name)
<1>3. judged' = verdict
  BY DEF Judge
<1>4. /\ policy \in {"exposed", "unknown", "passes"} /\ caller \in {"writable", "unknown", "passes"}
      /\ grade \in {"caller_can_write", "caller_cannot_write", "access_not_established"}
  <2>1. \A verdicts : WorstOf(verdicts, "exposed") \in {"exposed", "unknown", "passes"}
                      /\ WorstOf(verdicts, "writable") \in {"writable", "unknown", "passes"}
    BY DEF WorstOf
  <2>2. policy \in {"exposed", "unknown", "passes"}
    BY <2>1, Zenon DEF protection
  <2>3. caller \in {"writable", "unknown", "passes"}
    BY <2>1, Zenon DEF write_access
  <2>4. grade = "caller_can_write" \/ grade = "caller_cannot_write" \/ grade = "access_not_established"
    BY Zenon DEF evaluate_grade
  <2> HIDE DEF grade
  <2> QED  BY <2>2, <2>3, <2>4
<1>5. /\ policy = "passes" => Leads /\ RootsAlone
      /\ caller = "passes" => Leads /\ NoWriterAbove
      /\ address => Leads /\ Guarded
      /\ root /\ layout = "direct" => Leads /\ Guarded
      /\ grade = "caller_cannot_write" /\ layout = "direct" => Leads /\ OutOfReach
      /\ Leads => reached = "f" /\ where = Goal
  BY <1>2, ProtectionShows, AccessShows, AddressShows, RootShows, GradeShows, WhereItLeads
<1> HIDE DEF policy, caller, address, root, grade, reached, where
<1>6. judged' = [done |-> TRUE, policy |-> policy, caller |-> caller, address |-> address, root |-> root,
                 grade |-> grade, reached |-> reached, place |-> where]
  BY <1>3 DEF policy, caller, address, root, grade, reached, where
<1> HIDE DEF verdict
<1>7. /\ judged'.done = TRUE /\ judged'.policy = policy /\ judged'.caller = caller /\ judged'.address = address
      /\ judged'.root = root /\ judged'.grade = grade /\ judged'.reached = reached /\ judged'.place = where
  BY <1>6
<1>8. TreeShape'
  BY <1>1, <1>7 DEF TreeShape
<1>9. PathsTypeOK'
  BY <1>1, <1>4, <1>7 DEF PathsTypeOK
<1>10. /\ Leads' = Leads /\ Goal' = Goal /\ RootsAlone' = RootsAlone /\ NoWriterAbove' = NoWriterAbove
       /\ Guarded' = Guarded /\ OutOfReach' = OutOfReach
  BY <1>1 DEF Leads, Goal, RootsAlone, NoWriterAbove, Guarded, OutOfReach
<1>11. Leads => Stands'
  <2>1. Stands' = (Leads' /\ entry' = EntriesOf(layout') /\ judged'.reached = "f" /\ judged'.place = Goal')
    BY DEF Stands
  <2>2. entry' = EntriesOf(layout')
    BY <1>1, <1>2 DEF Whole
  <2> QED  BY <1>5, <1>7, <1>10, <2>1, <2>2
<1>12. ConclusionsRest'
  BY <1>1, <1>2, <1>5, <1>7, <1>10, <1>11, Zenon DEF ConclusionsRest
<1> QED  BY <1>8, <1>9, <1>12 DEF PathsInv

-----------------------------------------------------------------------------
(* The stranger's steps.                                                   *)

(* After a passing verdict the tree is whole, and walled.                  *)
LEMMA WholeWhen ==
  ASSUME PathsInv
  PROVE  /\ judged.policy = "passes" => Whole /\ RootsAlone
         /\ judged.caller = "passes" => Whole /\ NoWriterAbove
         /\ judged.address \/ (judged.root /\ layout = "direct") => Whole /\ Guarded
         /\ judged.grade = "caller_cannot_write" /\ layout = "direct" => Whole /\ layout = "direct" /\ OutOfReach
BY Zenon DEF PathsInv, ConclusionsRest, Stands, Whole

(* So only a tree nothing was concluded of loses an entry.                 *)
LEMMA ReplaceRests ==
  ASSUME PathsInv, NEW path \in Dirs, NEW name \in Names, NEW by \in {"own", Nobody}, Replace(path, name, by)
  PROVE  PathsInv'
<1> DEFINE dir == At(path)
<1>1. /\ Concluded /\ entry' = [entry EXCEPT ![dir][name] = by]
      /\ layout' = layout /\ attr' = attr /\ content' = content /\ judged' = judged
  BY DEF Replace
<1> HIDE DEF dir
<1>2. TreeShape /\ PathsTypeOK
  BY DEF PathsInv
<1>3. judged.done
  BY <1>1, <1>2, ConcludedIsDone
<1>4. entry \in [{"/", "a", "b", "d"} -> [Names -> Nodes \cup {Nobody}]]
  BY <1>2 DEF TreeShape
<1>5. by \in Nodes \cup {Nobody}
  BY DEF Nodes
<1>6. /\ entry' \in [{"/", "a", "b", "d"} -> [Names -> Nodes \cup {Nobody}]]
      /\ \A d \in {"/", "a", "b", "d"}, n \in Names : entry'[d][n] = entry[d][n] \/ entry'[d][n] = by
  BY <1>1, <1>4, <1>5
<1>7. TreeShape'
  <2>1. DOMAIN entry = {"/", "a", "b", "d"} /\ DOMAIN entry' = {"/", "a", "b", "d"}
    BY <1>4, <1>6
  <2>2. \A d \in DOMAIN entry', n \in Names : entry'[d][n] \in {EntriesOf(layout)[d][n], "own", Nobody}
    <3>1. \A d \in DOMAIN entry, n \in Names : entry[d][n] \in {EntriesOf(layout)[d][n], "own", Nobody}
      BY <1>2 DEF TreeShape
    <3> QED  BY <1>6, <2>1, <3>1
  <2>3. EntriesOf(layout') = EntriesOf(layout)
    BY <1>1
  <2>4. /\ layout \in Layouts
        /\ attr \in [Nodes -> ShapesOf("dir") \cup ShapesOf("file") \cup ShapesOf("link")]
        /\ \A node \in Nodes : attr[node].kind = IF node = "l" THEN "link" ELSE IF node \in {"f", "own"} THEN "file" ELSE "dir"
    BY <1>2, Zenon DEF TreeShape
  <2>5. judged'.done
    BY <1>1, <1>3
  <2> QED  BY <1>1, <1>6, <2>2, <2>3, <2>4, <2>5, Zenon DEF TreeShape
<1>8. PathsTypeOK'
  <2>1. DOMAIN entry' = {"/", "a", "b", "d"}
    BY <1>6
  <2>2. \A d \in DOMAIN entry', n \in Names : entry'[d][n] \in Nodes \cup {Nobody}
    BY <1>6, <2>1
  <2> QED  BY <1>1, <1>2, <2>2 DEF PathsTypeOK
<1>9. /\ judged.policy # "passes" /\ judged.caller # "passes" /\ ~ judged.address
      /\ ~ (judged.root /\ layout = "direct") /\ ~ (judged.grade = "caller_cannot_write" /\ layout = "direct")
  BY WholeWhen, NothingReplaced DEF Walled
<1>10. ConclusionsRest'
  BY <1>1, <1>9 DEF ConclusionsRest
<1> QED  BY <1>7, <1>8, <1>10 DEF PathsInv

LEMMA NodeOrNobody ==
  ASSUME TreeShape, NEW path \in Dirs, NEW name \in Names
  PROVE  At(Append(path, name)) \in Nodes \cup {Nobody}
<1>1. At(Append(path, name)) = Child(At(path), name)
  BY PathsInDirs, AtChild DEF Parts
<1>2. entry \in [{"/", "a", "b", "d"} -> [Names -> Nodes \cup {Nobody}]]
  BY DEF TreeShape
<1> DEFINE dir == At(path)
<1> HIDE DEF dir
<1>3. Child(dir, name) \in Nodes \cup {Nobody}
  BY <1>2 DEF Child
<1> QED  BY <1>1, <1>3 DEF dir

LEMMA ShapeChanged ==
  ASSUME NEW kind, NEW shape \in ShapesOf(kind), NEW writers, writers = {"group", "other"}
  PROVE  [shape EXCEPT !.writers = writers, !.sticky = FALSE, !.search = TRUE] \in ShapesOf(kind)
BY DEF ShapesOf

(* A mode is changed only where no wall needs it.                          *)
LEMMA ModesRest ==
  ASSUME PathsInv, NEW path \in Dirs, NEW name \in Names, ChangeMode(path, name)
  PROVE  PathsInv'
<1> DEFINE node == At(Append(path, name))
           shape == [attr[node] EXCEPT !.writers = {"group", "other"}, !.sticky = FALSE, !.search = TRUE]
<1>1. /\ Concluded /\ node # Nobody
      /\ attr' = [attr EXCEPT ![node].writers = {"group", "other"}, ![node].sticky = FALSE, ![node].search = TRUE]
      /\ layout' = layout /\ entry' = entry /\ content' = content /\ judged' = judged
  BY DEF ChangeMode
<1>2. TreeShape /\ PathsTypeOK /\ judged.done
  BY <1>1, ConcludedIsDone DEF PathsInv
<1>3. node \in Nodes
  BY <1>1, <1>2, NodeOrNobody
<1> DEFINE All == ShapesOf("dir") \cup ShapesOf("file") \cup ShapesOf("link")
<1>4. attr \in [Nodes -> All]
  BY <1>2 DEF TreeShape
<1>5. shape \in All /\ shape.kind = attr[node].kind
  <2>1. PICK kind \in {"dir", "file", "link"} : attr[node] \in ShapesOf(kind)
    BY <1>3, <1>4
  <2>2. shape \in ShapesOf(kind)
    <3> HIDE DEF node
    <3> QED  BY <2>1, ShapeChanged
  <2>3. \A s \in ShapesOf(kind) : s.kind = kind
    BY DEF ShapesOf
  <2> HIDE DEF shape, node
  <2> QED  BY <2>1, <2>2, <2>3
<1> HIDE DEF node, All
<1>6. attr' = [attr EXCEPT ![node] = shape]
  BY <1>1, <1>3, <1>4
<1> HIDE DEF shape
<1>7. /\ attr' \in [Nodes -> All] /\ \A n \in Nodes : n # node => attr'[n] = attr[n]
      /\ attr'[node] = shape /\ \A n \in Nodes : attr'[n].kind = attr[n].kind
  BY <1>3, <1>4, <1>5, <1>6
<1>8. TreeShape'
  <2>1. attr' \in [Nodes -> ShapesOf("dir") \cup ShapesOf("file") \cup ShapesOf("link")]
    BY <1>7 DEF All
  <2>2. \A n \in Nodes : attr'[n].kind = IF n = "l" THEN "link" ELSE IF n \in {"f", "own"} THEN "file" ELSE "dir"
    <3>1. \A n \in Nodes : attr[n].kind = IF n = "l" THEN "link" ELSE IF n \in {"f", "own"} THEN "file" ELSE "dir"
      BY <1>2, Zenon DEF TreeShape
    <3> QED  BY <1>7, <3>1
  <2>3. /\ layout' \in Layouts
        /\ entry' \in [{"/", "a", "b", "d"} -> [Names -> Nodes \cup {Nobody}]]
        /\ \A dir \in DOMAIN entry', n \in Names : entry'[dir][n] \in {EntriesOf(layout')[dir][n], "own", Nobody}
        /\ judged'.done
    <3>1. /\ layout \in Layouts
          /\ entry \in [{"/", "a", "b", "d"} -> [Names -> Nodes \cup {Nobody}]]
          /\ \A dir \in DOMAIN entry, n \in Names : entry[dir][n] \in {EntriesOf(layout)[dir][n], "own", Nobody}
      BY <1>2, Zenon DEF TreeShape
    <3> QED  BY <1>1, <1>2, <3>1, Zenon
  <2> QED  BY <2>1, <2>2, <2>3, Zenon DEF TreeShape
<1>9. PathsTypeOK'
  BY <1>1, <1>2, Zenon DEF PathsTypeOK
<1>10. /\ judged.policy # "passes" /\ judged.caller # "passes"
       /\ ~ (judged.grade = "caller_cannot_write" /\ layout = "direct")
       /\ judged.address \/ (judged.root /\ layout = "direct") => Whole /\ Guarded /\ node \in {"f", "d"}
  BY WholeWhen, ModesChanged DEF Walled, node
<1>11. ASSUME judged.address \/ (judged.root /\ layout = "direct") PROVE Stands' /\ Guarded'
  <2>1. Whole /\ Guarded /\ node \in {"f", "d"} /\ Stands
    BY <1>10, <1>11 DEF PathsInv, ConclusionsRest
  <2>2. Stands'
    BY <1>1, <2>1 DEF Stands, Leads, Goal
  <2>3. \A n \in Nodes : n \notin {"f", "d"} => attr'[n] = attr[n]
    BY <1>7, <2>1
  <2>4. ASSUME NEW dir \in DOMAIN entry', NEW n \in Names, entry'[dir][n] # Nobody
        PROVE  /\ dir # "d" => Trusted(attr'[dir])
               /\ entry'[dir][n] \notin {"f", "d"} => Trusted(attr'[entry'[dir][n]])
               /\ ~attr'[dir].sticky \/ entry'[dir][n] \in {"f", "d"} => attr'[dir].writers = {} /\ attr'[dir].acl = "none"
    <3>1. dir \in DOMAIN entry /\ entry[dir][n] # Nobody /\ entry'[dir][n] = entry[dir][n]
      BY <1>1, <2>4
    <3>2. /\ dir # "d" => Trusted(attr[dir])
          /\ entry[dir][n] \notin {"f", "d"} => Trusted(attr[entry[dir][n]])
          /\ ~attr[dir].sticky \/ entry[dir][n] \in {"f", "d"} => attr[dir].writers = {} /\ attr[dir].acl = "none"
      BY <2>1, <3>1 DEF Guarded
    <3>3. dir \in {"/", "a", "b"} /\ entry[dir][n] \in Nodes
      BY <2>1, <3>1, EdgeCases DEF Nodes
    <3>4. attr'[dir] = attr[dir] /\ (entry[dir][n] \notin {"f", "d"} => attr'[entry[dir][n]] = attr[entry[dir][n]])
      BY <2>3, <3>3 DEF Nodes
    <3> QED  BY <3>1, <3>2, <3>4
  <2>5. Guarded'
    BY <2>4, Zenon DEF Guarded
  <2> QED  BY <2>2, <2>5
<1>12. ConclusionsRest'
  BY <1>1, <1>10, <1>11, Zenon DEF ConclusionsRest
<1> QED  BY <1>8, <1>9, <1>12 DEF PathsInv

(* The file is written only where its bytes were not vouched for.          *)
LEMMA WriteRests ==
  ASSUME PathsInv, NEW path \in Dirs, WriteFile(path)
  PROVE  PathsInv'
<1>1. /\ Concluded /\ content' = "changed"
      /\ layout' = layout /\ attr' = attr /\ entry' = entry /\ judged' = judged
  BY DEF WriteFile
<1>2. TreeShape /\ PathsTypeOK /\ judged.done
  BY <1>1, ConcludedIsDone DEF PathsInv
<1>3. TreeShape'
  BY <1>1, <1>2 DEF TreeShape
<1>4. PathsTypeOK'
  BY <1>1, <1>2 DEF PathsTypeOK
<1>5. /\ judged.policy # "passes" /\ judged.caller # "passes"
      /\ ~ (judged.grade = "caller_cannot_write" /\ layout = "direct")
  BY WholeWhen, NothingWritten
<1>6. Stands' = Stands /\ Guarded' = Guarded
  BY <1>1 DEF Stands, Guarded, Leads, Goal
<1>7. judged.address \/ (judged.root /\ layout = "direct") => Stands /\ Guarded
  BY DEF PathsInv, ConclusionsRest
<1>8. ConclusionsRest'
  BY <1>1, <1>5, <1>6, <1>7, Zenon DEF ConclusionsRest
<1> QED  BY <1>3, <1>4, <1>8 DEF PathsInv

-----------------------------------------------------------------------------
(* What follows.                                                           *)

(* What the conclusions rest on is what was claimed.                       *)
LEMMA RestIsEnough ==
  ASSUME PathsInv
  PROVE  ProtectedNamesStay /\ NonWritersCannot
<1>1. Stands => Unmoved
  <2>1. ASSUME Stands PROVE Unmoved
    <3>1. Whole /\ Leads
      BY <2>1 DEF PathsInv, Whole, Stands
    <3>2. Place(Name) = Goal /\ Reached(Name) = "f"
      BY <3>1, WhereItLeads
    <3> QED  BY <2>1, <3>2, Zenon DEF Unmoved, Stands
  <2> QED  BY <2>1
<1>2. PathsTypeOK /\ ConclusionsRest
  BY DEF PathsInv
<1> QED  BY <1>1, <1>2, Zenon DEF ProtectedNamesStay, NonWritersCannot, ProtectedStays, AddressStays, RootStays,
                                 NonWriterCannot, CannotWriteIsTrue, ConclusionsRest

-----------------------------------------------------------------------------
(* The invariant, and what it says.                                        *)

(* Type correctness, and what every verdict of the four walks rests on: a  *)
(* tree in which nothing was replaced, with the owners and modes the walk  *)
(* read (access/effective_access.py, adapters/socket_server.py,            *)
(* bootstrap.py, domain/integrity_grade.py).                               *)
THEOREM VerdictsRest == PathsSpec => []PathsInv
<1>1. PathsInit => PathsInv
  BY TreeAtFirst
<1>2. PathsInv /\ [PathsNext]_pathsVars => PathsInv'
  <2> SUFFICES ASSUME PathsInv, [PathsNext]_pathsVars PROVE PathsInv'
    OBVIOUS
  <2>1. CASE Judge
    BY <2>1, JudgedRests DEF PathsInv
  <2>2. ASSUME NEW path \in Dirs, NEW name \in Names, NEW by \in {"own", Nobody}, Replace(path, name, by)
        PROVE  PathsInv'
    BY <2>2, ReplaceRests
  <2>3. ASSUME NEW path \in Dirs, NEW name \in Names, ChangeMode(path, name) PROVE PathsInv'
    BY <2>3, ModesRest
  <2>4. ASSUME NEW path \in Dirs, WriteFile(path) PROVE PathsInv'
    BY <2>4, WriteRests
  <2>5. CASE UNCHANGED pathsVars
    BY <2>5 DEF pathsVars, PathsInv, TreeShape, PathsTypeOK, ConclusionsRest, Stands, Leads, Goal, RootsAlone,
                NoWriterAbove, Guarded, OutOfReach
  <2> QED  BY <2>1, <2>2, <2>3, <2>4, <2>5 DEF PathsNext
<1> QED  BY <1>1, <1>2, PTL DEF PathsSpec

(* A policy or configuration that protection (access/effective_access.py)  *)
(* lets pass goes on being the file it was, with the bytes it had, the     *)
(* address that protect_directory accepts and the evidence root that       *)
(* _system_evidence_root accepts go on being the objects they were judged  *)
(* to be, whatever any sequence of a stranger's steps does.                *)
THEOREM ProtectedNamesDoStay == PathsSpec => []ProtectedNamesStay
BY VerdictsRest, RestIsEnough, PTL

(* Whom write_access (access/effective_access.py) tells apart as no writer *)
(* of the authority, and whom evaluate_grade (domain/integrity_grade.py)   *)
(* grades as no writer of a store named by no link, never changes or       *)
(* replaces it, neither at once nor by changing modes first.               *)
THEOREM NonWritersCanNot == PathsSpec => []NonWritersCannot
BY VerdictsRest, RestIsEnough, PTL
=============================================================================
