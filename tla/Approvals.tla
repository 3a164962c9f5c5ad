----------------------------- MODULE Approvals -----------------------------
(***************************************************************************)
(* Requests of the servers that need the user: approvals (commands, file   *)
(* changes, permissions) and questions (tool input, MCP elicitations).     *)
(* process_server_request turns them into UI events, the store listener    *)
(* puts them into pending_approvals and pending_user_inputs, and           *)
(* respond_to_approval and respond_to_user_input answer them.  The store,  *)
(* the platforms and the calls name a request by its JSON-RPC id alone;    *)
(* every server counts its own ids, from the start after a restart.        *)
(***************************************************************************)
EXTENDS Naturals, Sequences, SequencesExt, Retaining

CONSTANTS
  Requests,   \* requests the servers may make
  ServerOf,   \* server of each request
  Questions,  \* the requests that are questions; the others are approvals
  Calls,      \* calls of respond_to_approval and respond_to_user_input
  None,
  Situations   \* ids: the JSON-RPC id of each request, asked: the requests that come,
              \* calls: those that are made, restarts: servers that may restart, once

Servers == {ServerOf[q] : q \in Requests}

ASSUME RequestAssumption ==
  /\ ServerOf \in [Requests -> Servers]
  /\ Questions \subseteq Requests /\ None \notin Requests
  /\ \A c \in Situations :
       /\ DOMAIN c = {"ids", "asked", "calls", "restarts"}
       /\ DOMAIN c.ids = Requests /\ c.asked \subseteq Requests
       /\ c.calls \subseteq Calls /\ c.restarts \subseteq Servers

VARIABLES
  situation,
  state,   \* server: what became of each request
  got,     \* server: requests the user had in mind when each was answered
  up,      \* server: has not restarted yet
  news,    \* events of each server on their way to the store
  shown,   \* store: pending_approvals and pending_user_inputs, in order
  seeds,   \* store: requests whose seed is kept
  pc,      \* where each call stands
  saw,     \* the request the user answers
  target   \* the request the call found under its id

approvalServer == <<state, got, up>>
approvalStore == <<shown, seeds>>
approvalCalls == <<pc, saw, target>>
approvalVars == <<situation, approvalServer, news, approvalStore, approvalCalls>>

Id(q) == situation.ids[q]

Shown == ToSet(shown)
Kind(q) == q \in Questions
SameKey(p, q) == ServerOf[p] = ServerOf[q] /\ Id(p) = Id(q)

ApprovalTypeOK ==
  /\ situation \in Situations
  /\ state \in [Requests -> {"unasked", "waiting", "answered", "settled", "lost"}]
  /\ got \in [Requests -> SUBSET Requests] /\ up \in [Servers -> BOOLEAN]
  /\ news \in [Servers -> Seq({"ask", "resolved"} \X Requests)]
  /\ shown \in Seq(Requests) /\ IsInjective(shown)
  /\ seeds \subseteq Requests
  /\ pc \in [Calls -> {"idle", "tapped", "sending", "sent", "ok", "err"}]
  /\ saw \in [Calls -> Requests \cup {None}] /\ target \in [Calls -> Requests \cup {None}]

ApprovalInit ==
  /\ situation \in Situations
  /\ state = [q \in Requests |-> "unasked"] /\ got = [q \in Requests |-> {}]
  /\ up = [s \in Servers |-> TRUE]
  /\ news = [s \in Servers |-> <<>>]
  /\ shown = <<>> /\ seeds = {}
  /\ pc = [c \in Calls |-> "idle"]
  /\ saw = [c \in Calls |-> None] /\ target = [c \in Calls |-> None]

----------------------------------------------------------------------------
(* The servers *)

Tell(q, kind) == news' = [news EXCEPT ![ServerOf[q]] = Append(@, <<kind, q>>)]

\* A server uses an id again only after a restart.
Asks(q) ==
  /\ q \in situation.asked /\ state[q] = "unasked"
  /\ \A p \in Requests \ {q} : SameKey(p, q) => state[p] \in {"unasked", "lost"}
  /\ state' = [state EXCEPT ![q] = "waiting"]
  /\ Tell(q, "ask")
  /\ UNCHANGED <<situation, got, up, approvalStore, approvalCalls>>

\* A server sends what it still waits for again when a thread is resumed.
Repeats(q) ==
  /\ state[q] = "waiting" /\ <<"ask", q>> \notin ToSet(news[ServerOf[q]])
  /\ Tell(q, "ask")
  /\ UNCHANGED <<situation, approvalServer, approvalStore, approvalCalls>>

\* Another client answers, or the turn is interrupted.
Settles(q) ==
  /\ state[q] = "waiting"
  /\ state' = [state EXCEPT ![q] = "settled"]
  /\ Tell(q, "resolved")
  /\ UNCHANGED <<situation, got, up, approvalStore, approvalCalls>>

\* The app-server restarts and its client in the session reconnects.
Restart(s) ==
  /\ s \in situation.restarts /\ up[s]
  /\ up' = [up EXCEPT ![s] = FALSE]
  /\ state' = [q \in Requests |->
       IF ServerOf[q] = s /\ state[q] # "unasked" THEN "lost" ELSE state[q]]
  /\ UNCHANGED <<situation, got, news, approvalStore, approvalCalls>>

----------------------------------------------------------------------------
(* The store *)

WithId(i) == {q \in Requests : Id(q) = i}
OfKind(q) == {p \in Requests : Kind(p) = Kind(q)}

\* ApprovalRequested: an approval whose id is pending already is dropped.
ShowApproval(q) ==
  IF WithId(Id(q)) \cap OfKind(q) \cap Shown # {}
  THEN UNCHANGED approvalStore
  ELSE /\ shown' = Append(shown, q)
       /\ seeds' = {p \in seeds : ~SameKey(p, q) \/ Kind(p)} \cup {q}

\* UserInputRequested: a question takes the place of the one with its id.
ShowQuestion(q) ==
  /\ shown' = Append(Retain(shown, Requests \ (WithId(Id(q)) \cap OfKind(q))), q)
  /\ seeds' = {p \in seeds : ~SameKey(p, q) \/ ~Kind(p)} \cup {q}

\* Mutant: only the seeds go.
DropSeeds(S) == shown' = shown /\ seeds' = seeds \ S

\* resolve_approval, resolve_pending_user_input: everything with the id goes.
Drop(S) ==
  /\ shown' = Retain(shown, Requests \ S)
  /\ seeds' = seeds \ S

Hear(s) ==
  /\ news[s] # <<>>
  /\ news' = [news EXCEPT ![s] = Tail(@)]
  /\ LET q == Head(news[s])[2]
     IN IF Head(news[s])[1] = "ask"
        THEN IF Kind(q) THEN ShowQuestion(q) ELSE ShowApproval(q)
        ELSE Drop(WithId(Id(q)))
  /\ UNCHANGED <<situation, approvalServer, approvalCalls>>

----------------------------------------------------------------------------
(* The user answers *)

Goto(c, l) == pc' = [pc EXCEPT ![c] = l]

Tap(c, q) ==
  /\ c \in situation.calls /\ pc[c] = "idle" /\ q \in Shown
  /\ saw' = [saw EXCEPT ![c] = q]
  /\ Goto(c, "tapped")
  /\ UNCHANGED <<situation, approvalServer, news, approvalStore, target>>

\* Mutant: whatever waits for longest.
FoundOldest(q) == {i \in DOMAIN shown : shown[i] \in OfKind(q)}

\* pending_approval, pending_user_input: the places of its kind under the id.
Found(q) == {i \in DOMAIN shown : shown[i] \in WithId(Id(q)) \cap OfKind(q)}

Look(c) ==
  /\ pc[c] = "tapped"
  /\ \/ Found(saw[c]) = {} /\ Goto(c, "err") /\ UNCHANGED target
     \/ /\ \E first \in Found(saw[c]) :
             /\ \A i \in Found(saw[c]) : first <= i
             /\ target' = [target EXCEPT ![c] = shown[first]]
        /\ Goto(c, "sending")
  /\ UNCHANGED <<situation, approvalServer, news, approvalStore, saw>>

\* The answer goes to the server of the target; one that is not waiting for it
\* ignores it, one that is tells every client that the request is resolved.
SendAnswer(c) ==
  /\ pc[c] = "sending"
  /\ Goto(c, "sent")
  /\ LET W == {q \in Requests : SameKey(q, target[c]) /\ state[q] = "waiting"}
     IN IF W = {} THEN UNCHANGED <<state, got, news>>
        ELSE \E q \in W : /\ state' = [state EXCEPT ![q] = "answered"]
                          /\ got' = [got EXCEPT ![q] = @ \cup {saw[c]}]
                          /\ Tell(q, "resolved")
  /\ UNCHANGED <<situation, up, approvalStore, saw, target>>

SendFails(c) ==
  /\ pc[c] = "sending" /\ Goto(c, "err")
  /\ UNCHANGED <<situation, approvalServer, news, approvalStore, saw, target>>

\* Mutant: the store forgets the request before the server has the answer.
ResolveEarly(c) ==
  /\ pc[c] \in {"sending", "sent"} /\ Goto(c, "ok")
  /\ Drop(WithId(Id(saw[c])) \cap OfKind(saw[c]))
  /\ UNCHANGED <<situation, approvalServer, news, saw, target>>

Resolve(c) ==
  /\ pc[c] = "sent" /\ Goto(c, "ok")
  /\ Drop(WithId(Id(saw[c])) \cap OfKind(saw[c]))
  /\ UNCHANGED <<situation, approvalServer, news, saw, target>>

Answering(c) == Look(c) \/ SendAnswer(c) \/ SendFails(c) \/ Resolve(c)

ApprovalNext ==
  \/ \E q \in Requests : Asks(q) \/ Repeats(q) \/ Settles(q)
  \/ \E s \in Servers : Restart(s) \/ Hear(s)
  \/ \E c \in Calls : Answering(c) \/ \E q \in Requests : Tap(c, q)

\* The readers and the store listener run, and so do the calls; nobody makes
\* the user answer.
ApprovalFairness ==
  /\ \A s \in Servers : WF_approvalVars(Hear(s))
  /\ \A c \in Calls : WF_approvalVars(Answering(c))

ApprovalSpec == ApprovalInit /\ [][ApprovalNext]_approvalVars /\ ApprovalFairness

----------------------------------------------------------------------------
(* Properties.  They hold of requests whose id no other request has. *)

Unique == {q \in Requests : \A p \in Requests \ {q} : Id(p) # Id(q)}

\* The user gets to see every request a server waits for (ApprovalRequested,
\* UserInputRequested), and one that is answered or settled goes from the screen in
\* the end, whoever shares its id (ServerRequestResolved).
ShownThenCleared ==
  \A q \in Requests :
    /\ (q \in Unique /\ state[q] = "waiting") ~> (q \in Shown \/ state[q] # "waiting")
    /\ state[q] \in {"answered", "settled"} ~> (q \notin Shown)

\* It stays on screen for as long as the server waits: only an answer on its
\* way, or the news that it is settled, takes it away (resolve_approval).
KeptWhileWaiting ==
  [][\A q \in Shown \cap Unique : state[q] = "waiting" => q \in ToSet(shown')]_approvalVars

\* An answer reaches the request the user gave it to, however the events of
\* other requests and the calls overlap (pending_approval, pending_user_input).
AnswerIsForIt == \A q \in Unique : got[q] \subseteq {q}
=============================================================================
