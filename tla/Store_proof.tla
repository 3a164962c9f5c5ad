----------------------------- MODULE Store_proof -----------------------------
(***************************************************************************)
(* Theorems about the app store, for any sets of requests, servers, calls, *)
(* messages, taps, threads, runtimes and passes.                           *)
(*                                                                         *)
(* Approvals: a call keeps the id of what the user saw, so that the answer *)
(* reaches that request; and the screen is compared with what the servers  *)
(* wait for, over the news that are on their way.                          *)
(*                                                                         *)
(* FollowUpQueue (Init, Next, Spec and TypeOK are its own): what the store *)
(* and the events on their way say of the turns; a message is nowhere      *)
(* before its own call has decided about it; the queue has it once; each   *)
(* actor asks for its own; and so the server takes it once.                *)
(*                                                                         *)
(* ThreadListSync: a list has seen everything behind its cursors that was  *)
(* there when it began in the runtimes it asks, so that what it prunes of  *)
(* them is gone; and the turns the store shows are those of the server.    *)
(***************************************************************************)
EXTENDS Approvals, FollowUpQueue, ThreadListSync, Retaining_proof

\* What the calls are functions of.
Types ==
  /\ got \in [Requests -> SUBSET Requests]
  /\ DOMAIN pc = Calls /\ DOMAIN saw = Calls /\ DOMAIN target = Calls

\* Between the tap and the answer a call knows a request the user has seen, and what
\* it found has the same id, whatever has come into the store or left it since.
CallsKeepTheId ==
  \A c \in Calls :
    /\ pc[c] \in {"tapped", "sending", "sent"} => saw[c] \in Requests
    /\ pc[c] = "sending" => Id(target[c]) = Id(saw[c])

\* The inductive invariant of the answers.
ApprovalInv == Types /\ CallsKeepTheId /\ AnswerIsForIt

\* In the beginning nothing is answered.
LEMMA ApprovalInitInv == ApprovalInit => ApprovalInv
BY DEF ApprovalInit, ApprovalInv, Types, CallsKeepTheId, AnswerIsForIt, Unique, Id

\* Ids are those of the scenario, which does not change.
LEMMA OthersAnswer ==
  ASSUME ApprovalInv, UNCHANGED <<situation, got, approvalCalls>>
  PROVE  ApprovalInv'
BY DEF ApprovalInv, Types, CallsKeepTheId, AnswerIsForIt, Unique, Id, approvalCalls

\* The user answers what is shown.
LEMMA TapKeeps ==
  ASSUME ApprovalInv, NEW c \in Calls, NEW q \in Requests, Tap(c, q)
  PROVE  ApprovalInv'
BY DEF ApprovalInv, Types, CallsKeepTheId, AnswerIsForIt, Unique, Id, Tap, Goto, approvalServer

\* The call finds a request under the id of the one the user saw.
LEMMA LookKeeps ==
  ASSUME ApprovalInv, NEW c \in Calls, Look(c)
  PROVE  ApprovalInv'
<1>1. CASE Goto(c, "err") /\ UNCHANGED target
  BY <1>1 DEF ApprovalInv, Types, CallsKeepTheId, AnswerIsForIt, Unique, Id, Look, Goto, approvalServer
<1>2. ASSUME NEW first \in Found(saw[c]),
             target' = [target EXCEPT ![c] = shown[first]], Goto(c, "sending")
      PROVE  ApprovalInv'
  <2>1. Id(shown[first]) = Id(saw[c])
    BY DEF Found, WithId
  <2>2. pc[c] = "tapped" /\ UNCHANGED <<situation, got, saw>>
    BY DEF Look, approvalServer
  <2> QED
    BY <1>2, <2>1, <2>2
    DEF ApprovalInv, Types, CallsKeepTheId, AnswerIsForIt, Unique, Id, Goto
<1> QED
  BY <1>1, <1>2 DEF Look

\* A server takes the answer for a request that has the id of the target, hence of
\* the one the user saw; if the id is its own, it is that one.
LEMMA SendKeeps ==
  ASSUME ApprovalInv, NEW c \in Calls, SendAnswer(c)
  PROVE  ApprovalInv'
<1>1. saw[c] \in Requests /\ Id(target[c]) = Id(saw[c])
  BY DEF ApprovalInv, CallsKeepTheId, SendAnswer
<1>2. UNCHANGED <<situation, saw, target>> /\ pc' = [pc EXCEPT ![c] = "sent"]
  BY DEF SendAnswer, Goto
<1>3. Types' /\ CallsKeepTheId'
  <2>1. CASE UNCHANGED got
    BY <1>1, <1>2, <2>1 DEF ApprovalInv, Types, CallsKeepTheId, Id
  <2>2. ASSUME NEW q \in Requests, got' = [got EXCEPT ![q] = @ \cup {saw[c]}]
        PROVE  Types' /\ CallsKeepTheId'
    BY <1>1, <1>2, <2>2 DEF ApprovalInv, Types, CallsKeepTheId, Id
  <2> QED
    BY <2>1, <2>2 DEF SendAnswer
<1>4. AnswerIsForIt'
  <2>1. CASE UNCHANGED got
    BY <1>2, <2>1 DEF ApprovalInv, AnswerIsForIt, Unique, Id
  <2>2. ASSUME NEW q \in Requests, SameKey(q, target[c]),
               got' = [got EXCEPT ![q] = @ \cup {saw[c]}]
        PROVE  AnswerIsForIt'
    <3>1. q \in Unique => saw[c] = q
      BY <1>1, <2>2 DEF SameKey, Unique
    <3> QED
      BY <1>2, <2>2, <3>1 DEF ApprovalInv, Types, AnswerIsForIt, Unique, Id
  <2> QED
    BY <2>1, <2>2 DEF SendAnswer
<1> QED
  BY <1>3, <1>4 DEF ApprovalInv

\* A call that ends.
LEMMA EndKeeps ==
  ASSUME ApprovalInv, NEW c \in Calls, SendFails(c) \/ Resolve(c)
  PROVE  ApprovalInv'
<1>1. /\ UNCHANGED <<situation, got, saw, target>>
      /\ \E l \in {"ok", "err"} : pc' = [pc EXCEPT ![c] = l]
  BY DEF SendFails, Resolve, Goto, approvalServer
<1> QED
  BY <1>1 DEF ApprovalInv, Types, CallsKeepTheId, AnswerIsForIt, Unique, Id

\* One step of anybody.
LEMMA ApprovalNextKeeps == ApprovalInv /\ [ApprovalNext]_approvalVars => ApprovalInv'
<1> SUFFICES ASSUME ApprovalInv, [ApprovalNext]_approvalVars PROVE ApprovalInv'
  OBVIOUS
<1>1. ASSUME NEW q \in Requests, Asks(q) \/ Repeats(q) \/ Settles(q) PROVE ApprovalInv'
  BY <1>1, OthersAnswer DEF Asks, Repeats, Settles, approvalServer
<1>2. ASSUME NEW s \in Servers, Restart(s) \/ Hear(s) PROVE ApprovalInv'
  BY <1>2, OthersAnswer DEF Restart, Hear, approvalServer
<1>3. ASSUME NEW c \in Calls, Answering(c) PROVE ApprovalInv'
  BY <1>3, LookKeeps, SendKeeps, EndKeeps DEF Answering
<1>4. ASSUME NEW c \in Calls, NEW q \in Requests, Tap(c, q) PROVE ApprovalInv'
  BY <1>4, TapKeeps
<1>5. CASE UNCHANGED approvalVars
  BY <1>5, OthersAnswer DEF approvalVars, approvalServer, approvalCalls
<1> QED
  BY <1>1, <1>2, <1>3, <1>4, <1>5 DEF ApprovalNext

\* An answer reaches the request the user gave it to, if no other has its id, however
\* many servers ask and however their events and the calls overlap (pending_approval,
\* pending_user_input, respond_to_approval, respond_to_user_input).
THEOREM AnswersArriveRight == ApprovalSpec => []AnswerIsForIt
<1>1. ApprovalInv => AnswerIsForIt
  BY DEF ApprovalInv
<1> QED
  BY <1>1, ApprovalInitInv, ApprovalNextKeeps, PTL DEF ApprovalSpec

-----------------------------------------------------------------------------
\* What the store and the calls know of has been asked, and what a server says is
\* resolved it does not wait for.
Heard ==
  \A s \in Servers : \A i \in 1..Len(news[s]) :
    /\ state[news[s][i][2]] # "unasked"
    /\ news[s][i][1] = "resolved" => state[news[s][i][2]] # "waiting"

\* Only what has been asked is on screen.
ShownAsked == \A q \in Shown : state[q] # "unasked"

\* A call is about something that was asked, and whose server no longer waits once it has
\* the answer.
CallsAsked ==
  \A c \in Calls :
    /\ pc[c] \in {"tapped", "sending", "sent"} => state[saw[c]] # "unasked"
    /\ pc[c] = "sending" => target[c] \in Requests
    /\ pc[c] = "sent" /\ saw[c] \in Unique => state[saw[c]] # "waiting"

\* The inductive invariant of the screen.
KeptInv == ApprovalTypeOK /\ Heard /\ ShownAsked /\ CallsAsked

\* In the beginning nothing has been asked.
LEMMA KeptBegins == ApprovalInit => KeptInv
<1> SUFFICES ASSUME ApprovalInit PROVE KeptInv
  OBVIOUS
<1>1. shown \in Seq(Requests) /\ IsInjective(shown) /\ Shown = {}
  BY DEF ApprovalInit, IsInjective, Shown, ToSet
<1>2. news \in [Servers -> Seq({"ask", "resolved"} \X Requests)]
  BY DEF ApprovalInit
<1>3. ApprovalTypeOK
  BY <1>1, <1>2 DEF ApprovalInit, ApprovalTypeOK
<1>4. Heard /\ ShownAsked /\ CallsAsked
  BY <1>1 DEF ApprovalInit, Heard, ShownAsked, CallsAsked
<1> QED BY <1>3, <1>4 DEF KeptInv

\* A request that has been asked stays so, and one that its server does not wait for any
\* more is never waited for again.
Onward ==
  \A q \in Requests :
    /\ state[q] # "unasked" => state'[q] # "unasked"
    /\ state[q] \notin {"unasked", "waiting"} => state'[q] \notin {"unasked", "waiting"}

\* No step takes a request back to where it was.
LEMMA OnwardNext == ApprovalTypeOK /\ [ApprovalNext]_approvalVars => Onward
<1> SUFFICES ASSUME ApprovalTypeOK, [ApprovalNext]_approvalVars PROVE Onward
  OBVIOUS
<1>0. state \in [Requests -> {"unasked", "waiting", "answered", "settled", "lost"}]
  BY DEF ApprovalTypeOK
<1>1. CASE UNCHANGED state
  BY <1>1 DEF Onward
<1>2. ASSUME NEW q \in Requests, Asks(q) \/ Settles(q) PROVE Onward
  BY <1>0, <1>2 DEF Onward, Asks, Settles
<1>3. ASSUME NEW s \in Servers, Restart(s) PROVE Onward
  BY <1>0, <1>3 DEF Onward, Restart
<1>4. ASSUME NEW c \in Calls, SendAnswer(c) PROVE Onward
  <2>1. UNCHANGED state
        \/ \E q \in Requests : state[q] = "waiting" /\ state' = [state EXCEPT ![q] = "answered"]
    BY <1>4 DEF SendAnswer
  <2> QED BY <1>0, <2>1 DEF Onward
<1> QED
  BY <1>1, <1>2, <1>3, <1>4
  DEF ApprovalNext, approvalVars, approvalServer, Repeats, Hear, Answering, Look, SendFails,
      Resolve, Tap

\* What happens to news: nothing, the head of one server's is taken, or a server tells one
\* thing of a request.
LEMMA NewsNext ==
  ASSUME ApprovalTypeOK, [ApprovalNext]_approvalVars
  PROVE  \/ UNCHANGED news
         \/ \E s \in Servers : news[s] # <<>> /\ news' = [news EXCEPT ![s] = Tail(@)]
         \/ \E q \in Requests, kind \in {"ask", "resolved"} :
              /\ Tell(q, kind) /\ state'[q] # "unasked"
              /\ kind = "resolved" => state'[q] # "waiting"
<1>0. state \in [Requests -> {"unasked", "waiting", "answered", "settled", "lost"}]
  BY DEF ApprovalTypeOK
<1>1. ASSUME NEW q \in Requests, Asks(q) \/ Repeats(q) \/ Settles(q)
      PROVE  \E kind \in {"ask", "resolved"} :
              /\ Tell(q, kind) /\ state'[q] # "unasked"
              /\ kind = "resolved" => state'[q] # "waiting"
  BY <1>0, <1>1 DEF Asks, Repeats, Settles, approvalServer
<1>2. ASSUME NEW c \in Calls, SendAnswer(c)
      PROVE  \/ UNCHANGED news
             \/ \E q \in Requests : Tell(q, "resolved") /\ state'[q] = "answered"
  BY <1>0, <1>2 DEF SendAnswer
<1>3. ASSUME NEW s \in Servers, Hear(s)
      PROVE  news[s] # <<>> /\ news' = [news EXCEPT ![s] = Tail(@)]
  BY <1>3 DEF Hear
<1>4. ASSUME NEW s \in Servers, Restart(s) PROVE UNCHANGED news
  BY <1>4 DEF Restart
<1>5. ASSUME NEW c \in Calls, Look(c) \/ SendFails(c) \/ Resolve(c) PROVE UNCHANGED news
  BY <1>5 DEF Look, SendFails, Resolve
<1>6. ASSUME NEW c \in Calls, NEW q \in Requests, Tap(c, q) PROVE UNCHANGED news
  BY <1>6 DEF Tap
<1>7. CASE UNCHANGED approvalVars
  BY <1>7 DEF approvalVars
<1> QED
  BY <1>1, <1>2, <1>3, <1>4, <1>5, <1>6, <1>7 DEF ApprovalNext, Answering

\* News is only of what has been asked.
LEMMA HeardNext ==
  ASSUME ApprovalTypeOK, Heard, [ApprovalNext]_approvalVars
  PROVE  news' \in [Servers -> Seq({"ask", "resolved"} \X Requests)] /\ Heard'
<1> DEFINE Piece == {"ask", "resolved"} \X Requests
<1>0. news \in [Servers -> Seq(Piece)] /\ Onward
  BY OnwardNext DEF ApprovalTypeOK
<1> HIDE DEF Piece
<1>1. CASE UNCHANGED news
  <2>1. \A s \in Servers : \A i \in 1..Len(news[s]) : news[s][i] \in Piece
    BY <1>0
  <2> QED BY <1>0, <1>1, <2>1 DEF Heard, Onward, Piece
<1>2. ASSUME NEW s \in Servers, news[s] # <<>>, news' = [news EXCEPT ![s] = Tail(@)]
      PROVE  news' \in [Servers -> Seq(Piece)] /\ Heard'
  <2>1. /\ Tail(news[s]) \in Seq(Piece) /\ Len(Tail(news[s])) = Len(news[s]) - 1
        /\ \A i \in 1..Len(Tail(news[s])) : Tail(news[s])[i] = news[s][i + 1]
        /\ Len(news[s]) \in Nat
    BY <1>0, <1>2, HeadTailProperties
  <2>2. news' \in [Servers -> Seq(Piece)]
    BY <1>0, <1>2, <2>1
  <2>3. ASSUME NEW t \in Servers, NEW i \in 1..Len(news'[t])
        PROVE  \E j \in 1..Len(news[t]) : news'[t][i] = news[t][j] /\ news[t][j] \in Piece
    <3>1. CASE t = s
      <4>1. i + 1 \in 1..Len(news[s]) /\ news'[t] = Tail(news[s])
        BY <1>0, <1>2, <2>1, <2>3, <3>1
      <4> QED BY <1>0, <2>1, <2>3, <3>1, <4>1
    <3>2. CASE t # s
      <4>1. news'[t] = news[t] /\ news[t] \in Seq(Piece)
        BY <1>0, <1>2, <3>2
      <4> QED BY <2>3, <4>1
    <3> QED BY <3>1, <3>2
  <2>4. Heard'
    <3> SUFFICES ASSUME NEW t \in Servers, NEW i \in 1..Len(news'[t])
                 PROVE  /\ state'[news'[t][i][2]] # "unasked"
                        /\ news'[t][i][1] = "resolved" => state'[news'[t][i][2]] # "waiting"
      BY DEF Heard
    <3>1. PICK j \in 1..Len(news[t]) : news'[t][i] = news[t][j] /\ news[t][j] \in Piece
      BY <2>3
    <3>2. /\ state[news[t][j][2]] # "unasked"
          /\ news[t][j][1] = "resolved" => state[news[t][j][2]] # "waiting"
          /\ news[t][j][2] \in Requests
      BY <3>1 DEF Heard, Piece
    <3> QED BY <1>0, <3>1, <3>2 DEF Onward
  <2> QED BY <2>2, <2>4
<1>3. ASSUME NEW q \in Requests, NEW kind \in {"ask", "resolved"}, Tell(q, kind),
             state'[q] # "unasked", kind = "resolved" => state'[q] # "waiting"
      PROVE  news' \in [Servers -> Seq(Piece)] /\ Heard'
  <2> DEFINE s == ServerOf[q]
             e == <<kind, q>>
  <2>0. s \in Servers /\ e \in Piece /\ e[1] = kind /\ e[2] = q
    BY <1>3 DEF Servers, Piece
  <2>a. news' = [news EXCEPT ![s] = Append(@, e)]
    BY <1>3 DEF Tell
  <2> HIDE DEF s, e
  <2>1. /\ Append(news[s], e) \in Seq(Piece) /\ Len(Append(news[s], e)) = Len(news[s]) + 1
        /\ \A i \in 1..Len(news[s]) : Append(news[s], e)[i] = news[s][i]
        /\ Append(news[s], e)[Len(news[s]) + 1] = e
        /\ Len(news[s]) \in Nat
    BY <1>0, <2>0, AppendProperties
  <2>2. news' \in [Servers -> Seq(Piece)]
    BY <1>0, <2>a, <2>1
  <2>3. ASSUME NEW t \in Servers, NEW i \in 1..Len(news'[t])
        PROVE  \/ \E j \in 1..Len(news[t]) : news'[t][i] = news[t][j] /\ news[t][j] \in Piece
               \/ news'[t][i] = e
    <3>1. CASE t = s
      <4>1. news'[t] = Append(news[s], e)
        BY <1>0, <2>a, <2>0, <3>1
      <4>2. i \in 1..Len(news[s]) \/ i = Len(news[s]) + 1
        BY <2>1, <2>3, <4>1
      <4> QED BY <1>0, <2>0, <2>1, <3>1, <4>1, <4>2
    <3>2. CASE t # s
      <4>1. news'[t] = news[t] /\ news[t] \in Seq(Piece)
        BY <1>0, <2>a, <3>2
      <4> QED BY <2>3, <4>1
    <3> QED BY <3>1, <3>2
  <2>4. Heard'
    <3> SUFFICES ASSUME NEW t \in Servers, NEW i \in 1..Len(news'[t])
                 PROVE  /\ state'[news'[t][i][2]] # "unasked"
                        /\ news'[t][i][1] = "resolved" => state'[news'[t][i][2]] # "waiting"
      BY DEF Heard
    <3>1. CASE news'[t][i] = e
      BY <1>3, <2>0, <3>1
    <3>2. ASSUME NEW j \in 1..Len(news[t]), news'[t][i] = news[t][j], news[t][j] \in Piece
          PROVE  /\ state'[news'[t][i][2]] # "unasked"
                 /\ news'[t][i][1] = "resolved" => state'[news'[t][i][2]] # "waiting"
      <4>1. /\ state[news[t][j][2]] # "unasked"
            /\ news[t][j][1] = "resolved" => state[news[t][j][2]] # "waiting"
            /\ news[t][j][2] \in Requests
        BY <3>2 DEF Heard, Piece
      <4> QED BY <1>0, <3>2, <4>1 DEF Onward
    <3> QED BY <2>3, <3>1, <3>2
  <2> QED BY <2>2, <2>4
<1> QED
  BY <1>1, <1>2, <1>3, NewsNext DEF Piece

\* The requests on screen that one takes away share its id.
LEMMA SameId ==
  ASSUME NEW p \in Requests, NEW q \in Unique, q \in WithId(Id(p))
  PROVE  q = p
BY DEF WithId, Unique

\* A step that keeps on screen what a server waits for, and puts nothing there that has
\* not been asked.
ScreenStays ==
  /\ shown' \in Seq(Requests) /\ IsInjective(shown')
  /\ \A q \in ToSet(shown') : q \in Requests /\ state[q] # "unasked"
  /\ \A q \in Shown \cap Unique : state[q] = "waiting" => q \in ToSet(shown')
  /\ seeds' \subseteq Requests

\* Hearing of a request, and an answer that has been sent, change the screen.
LEMMA HearShown ==
  ASSUME ApprovalTypeOK, Heard, ShownAsked, NEW s \in Servers, Hear(s)
  PROVE  ScreenStays
<1>0. /\ shown \in Seq(Requests) /\ IsInjective(shown) /\ Shown \subseteq Requests
      /\ news \in [Servers -> Seq({"ask", "resolved"} \X Requests)]
      /\ seeds \subseteq Requests
  BY Elements DEF ApprovalTypeOK, Shown
<1> DEFINE e == Head(news[s])
           p == Head(news[s])[2]
<1>1. /\ e = news[s][1] /\ e \in {"ask", "resolved"} \X Requests /\ p \in Requests
      /\ state[p] # "unasked"
      /\ e[1] = "resolved" => state[p] # "waiting"
  <2>1. news[s] # <<>> /\ news[s] \in Seq({"ask", "resolved"} \X Requests)
    BY <1>0 DEF Hear
  <2>2. Len(news[s]) \in Nat /\ Len(news[s]) # 0
    BY <2>1, EmptySeq
  <2>3. 1 \in 1..Len(news[s]) /\ e = news[s][1] /\ e \in {"ask", "resolved"} \X Requests
    BY <2>1, <2>2
  <2> QED BY <2>3 DEF Heard
<1>2. CASE e[1] = "ask" /\ ~Kind(p)
  <2>1. ShowApproval(p)
    BY <1>2 DEF Hear
  <2>2. CASE UNCHANGED approvalStore
    BY <1>0, <2>2 DEF approvalStore, ShownAsked, Shown, ScreenStays
  <2>3. CASE /\ WithId(Id(p)) \cap OfKind(p) \cap Shown = {}
             /\ shown' = Append(shown, p) /\ seeds' \subseteq seeds \cup {p}
    <3>1. p \notin Shown
      BY <1>1, <2>3 DEF WithId, OfKind
    <3>2. /\ shown' \in Seq(Requests) /\ IsInjective(shown')
          /\ ToSet(shown') = Shown \cup {p}
      BY <1>0, <1>1, <2>3, <3>1, AppendElements DEF Shown
    <3> QED BY <1>0, <1>1, <2>3, <3>2 DEF ShownAsked, ScreenStays
  <2> QED BY <2>1, <2>2, <2>3 DEF ShowApproval
<1>3. CASE e[1] = "ask" /\ Kind(p)
  <2> DEFINE K == Requests \ (WithId(Id(p)) \cap OfKind(p))
             r == Retain(shown, K)
  <2>1. ShowQuestion(p)
    BY <1>3 DEF Hear
  <2>2. shown' = Append(r, p) /\ seeds' \subseteq seeds \cup {p}
    BY <2>1 DEF ShowQuestion
  <2>3. p \notin K
    BY <1>1 DEF WithId, OfKind
  <2>4. \A q \in (Shown \cap Unique) \ {p} : q \in K
    BY <1>0, <1>1, SameId
  <2> HIDE DEF K
  <2>5. r \in Seq(Requests) /\ ToSet(r) = Shown \cap K /\ IsInjective(r)
    BY <1>0, RetainElements DEF Shown
  <2> HIDE DEF r
  <2>6. /\ shown' \in Seq(Requests) /\ IsInjective(shown')
        /\ ToSet(shown') = (Shown \cap K) \cup {p}
    BY <1>1, <2>2, <2>3, <2>5, AppendElements
  <2> QED BY <1>0, <1>1, <2>2, <2>4, <2>6 DEF ShownAsked, ScreenStays
<1>4. CASE e[1] # "ask"
  <2> DEFINE S == WithId(Id(p))
             r == Retain(shown, Requests \ S)
  <2>1. shown' = r /\ seeds' \subseteq seeds
    BY <1>4 DEF Hear, Drop
  <2>2. e[1] = "resolved" /\ state[p] # "waiting"
    BY <1>1, <1>4
  <2>3. \A q \in Shown \cap Unique : state[q] = "waiting" => q \in Requests \ S
    BY <1>0, <1>1, <2>2, SameId
  <2> HIDE DEF S
  <2>4. r \in Seq(Requests) /\ ToSet(r) = Shown \cap (Requests \ S) /\ IsInjective(r)
    BY <1>0, RetainElements DEF Shown
  <2> HIDE DEF r
  <2> QED BY <1>0, <2>1, <2>3, <2>4 DEF ShownAsked, ScreenStays
<1> QED BY <1>2, <1>3, <1>4

\* An answer that has been sent takes what has its id off the screen.
LEMMA ResolveShown ==
  ASSUME ApprovalTypeOK, ApprovalInv, ShownAsked, CallsAsked, NEW c \in Calls, Resolve(c)
  PROVE  ScreenStays
<1>0. /\ shown \in Seq(Requests) /\ IsInjective(shown) /\ Shown \subseteq Requests
      /\ seeds \subseteq Requests
  BY Elements DEF ApprovalTypeOK, Shown
<1>1. saw[c] \in Requests /\ pc[c] = "sent"
  BY DEF ApprovalInv, CallsKeepTheId, Resolve
<1> DEFINE S == WithId(Id(saw[c])) \cap OfKind(saw[c])
           r == Retain(shown, Requests \ S)
<1>2. shown' = r /\ seeds' \subseteq seeds
  BY DEF Resolve, Drop
<1>3. \A q \in Shown \cap Unique : state[q] = "waiting" => q \in Requests \ S
  <2> SUFFICES ASSUME NEW q \in Shown \cap Unique, state[q] = "waiting", q \in S PROVE FALSE
    BY <1>0
  <2>1. q = saw[c]
    BY <1>1, SameId
  <2> QED BY <1>1, <2>1 DEF CallsAsked
<1> HIDE DEF S
<1>4. r \in Seq(Requests) /\ ToSet(r) = Shown \cap (Requests \ S) /\ IsInjective(r)
  BY <1>0, RetainElements DEF Shown
<1> HIDE DEF r
<1> QED BY <1>0, <1>2, <1>3, <1>4 DEF ShownAsked, ScreenStays

\* Every step keeps on screen what is waited for and no other has the id of.
LEMMA ShownNext ==
  ASSUME ApprovalInv, KeptInv, [ApprovalNext]_approvalVars
  PROVE  ScreenStays
<1>0. ApprovalTypeOK /\ Heard /\ ShownAsked /\ CallsAsked
  BY DEF KeptInv
<1>1. CASE UNCHANGED approvalStore
  <2>1. shown' = shown /\ seeds' = seeds
    BY <1>1 DEF approvalStore
  <2> QED BY <1>0, <2>1, Elements DEF ApprovalTypeOK, ShownAsked, Shown, ScreenStays
<1>2. ASSUME NEW s \in Servers, Hear(s) PROVE ScreenStays
  BY <1>0, <1>2, HearShown
<1>3. ASSUME NEW c \in Calls, Resolve(c) PROVE ScreenStays
  BY <1>0, <1>3, ResolveShown
<1> QED
  BY <1>1, <1>2, <1>3
  DEF ApprovalNext, Asks, Repeats, Settles, Restart, Answering, Look, SendAnswer, SendFails, Tap,
      approvalVars

\* What a call knows of.
LEMMA CallsNext ==
  ASSUME ApprovalInv, KeptInv, [ApprovalNext]_approvalVars
  PROVE  CallsAsked'
<1> SUFFICES ASSUME NEW c \in Calls
             PROVE  /\ pc'[c] \in {"tapped", "sending", "sent"} => state'[saw'[c]] # "unasked"
                    /\ pc'[c] = "sending" => target'[c] \in Requests
                    /\ pc'[c] = "sent" /\ saw'[c] \in Unique' => state'[saw'[c]] # "waiting"
  BY DEF CallsAsked
<1>0. /\ pc[c] \in {"tapped", "sending", "sent"} => saw[c] \in Requests /\ state[saw[c]] # "unasked"
      /\ pc[c] = "sent" /\ saw[c] \in Unique => state[saw[c]] # "waiting"
      /\ pc[c] = "sending" => Id(target[c]) = Id(saw[c]) /\ target[c] \in Requests
  BY DEF KeptInv, CallsAsked, ApprovalInv, CallsKeepTheId
<1>a. /\ DOMAIN pc = Calls /\ DOMAIN saw = Calls /\ DOMAIN target = Calls
      /\ shown \in Seq(Requests)
      /\ state \in [Requests -> {"unasked", "waiting", "answered", "settled", "lost"}]
      /\ Onward
  BY OnwardNext DEF KeptInv, ApprovalTypeOK
<1>b. Unique' = Unique
  BY DEF Unique, Id, ApprovalNext, Asks, Repeats, Settles, Restart, Hear, Answering, Look, SendAnswer,
         SendFails, Resolve, Tap, approvalVars
<1>1. CASE pc'[c] = pc[c] /\ saw'[c] = saw[c] /\ target'[c] = target[c]
  BY <1>0, <1>a, <1>b, <1>1 DEF Onward
<1>2. ASSUME NEW q \in Requests, Tap(c, q)
      PROVE  pc'[c] = "tapped" /\ saw'[c] = q /\ state'[q] # "unasked"
  <2>1. q \in Shown /\ UNCHANGED state
    BY <1>2 DEF Tap, approvalServer
  <2> QED BY <1>2, <1>a, <2>1 DEF Tap, Goto, KeptInv, ShownAsked
<1>3. ASSUME Look(c)
      PROVE  /\ pc'[c] \in {"err", "sending"} /\ saw'[c] = saw[c] /\ pc[c] = "tapped"
             /\ pc'[c] = "sending" => target'[c] \in Requests
  <2>1. ASSUME NEW first \in Found(saw[c]) PROVE shown[first] \in Requests
    BY <1>a DEF Found
  <2> QED BY <1>3, <1>a, <2>1 DEF Look, Goto
<1>4. ASSUME SendFails(c) \/ Resolve(c) PROVE pc'[c] \in {"err", "ok"}
  BY <1>4, <1>a DEF SendFails, Resolve, Goto
<1>5. ASSUME SendAnswer(c)
      PROVE  /\ pc'[c] = "sent" /\ saw'[c] = saw[c]
             /\ saw[c] \in Requests /\ state'[saw[c]] # "unasked"
             /\ saw[c] \in Unique => state'[saw[c]] # "waiting"
  <2> DEFINE W == {q \in Requests : SameKey(q, target[c]) /\ state[q] = "waiting"}
  <2>1. pc[c] = "sending" /\ pc'[c] = "sent" /\ saw'[c] = saw[c]
    BY <1>5, <1>a DEF SendAnswer, Goto
  <2>2. saw[c] \in Requests /\ state[saw[c]] # "unasked" /\ state'[saw[c]] # "unasked"
    BY <1>0, <1>a, <2>1 DEF Onward
  <2>3. ASSUME saw[c] \in Unique PROVE state'[saw[c]] # "waiting"
    <3>1. \A q \in Requests : Id(q) = Id(saw[c]) => q = saw[c]
      BY <2>2, <2>3 DEF Unique
    <3>2. CASE W = {} /\ UNCHANGED state
      <4>1. target[c] = saw[c]
        BY <1>0, <2>1, <3>1
      <4>2. saw[c] \notin W
        BY <3>2
      <4> QED BY <2>2, <3>2, <4>1, <4>2 DEF SameKey
    <3>3. ASSUME NEW q \in W, state' = [state EXCEPT ![q] = "answered"]
          PROVE  state'[saw[c]] # "waiting"
      <4>1. q = saw[c]
        BY <1>0, <2>1, <3>1, <3>3 DEF SameKey
      <4> QED BY <1>a, <2>2, <3>3, <4>1
    <3> QED BY <1>5, <3>2, <3>3 DEF SendAnswer
  <2> QED BY <2>1, <2>2, <2>3
<1>6. \/ pc'[c] = pc[c] /\ saw'[c] = saw[c] /\ target'[c] = target[c]
      \/ \E q \in Requests : Tap(c, q)
      \/ Look(c) \/ SendFails(c) \/ Resolve(c) \/ SendAnswer(c)
  <2>1. ASSUME NEW d \in Calls, d # c, Answering(d) \/ \E q \in Requests : Tap(d, q)
        PROVE  pc'[c] = pc[c] /\ saw'[c] = saw[c] /\ target'[c] = target[c]
    BY <1>a, <2>1 DEF Answering, Look, SendFails, Resolve, SendAnswer, Tap, Goto
  <2>2. ASSUME \/ \E q \in Requests : Asks(q) \/ Repeats(q) \/ Settles(q)
               \/ \E s \in Servers : Restart(s) \/ Hear(s)
        PROVE  pc'[c] = pc[c] /\ saw'[c] = saw[c] /\ target'[c] = target[c]
    BY <2>2 DEF Asks, Repeats, Settles, Restart, Hear, approvalCalls
  <2>3. CASE UNCHANGED approvalVars
    BY <2>3 DEF approvalVars, approvalCalls
  <2> QED BY <2>1, <2>2, <2>3 DEF ApprovalNext, Answering
<1> QED BY <1>0, <1>1, <1>2, <1>3, <1>4, <1>5, <1>6, <1>a, <1>b DEF Onward

\* Every step keeps what the screen and the calls know in line with the servers.
LEMMA KeptNext == ApprovalInv /\ KeptInv /\ [ApprovalNext]_approvalVars => KeptInv'
<1> SUFFICES ASSUME ApprovalInv, KeptInv, [ApprovalNext]_approvalVars PROVE KeptInv'
  OBVIOUS
<1>0. ApprovalTypeOK /\ Heard
  BY DEF KeptInv
<1>1. news' \in [Servers -> Seq({"ask", "resolved"} \X Requests)] /\ Heard'
  BY <1>0, HeardNext
<1>2. ScreenStays /\ CallsAsked' /\ Onward
  BY <1>0, ShownNext, CallsNext, OnwardNext
<1>3. ShownAsked'
  BY <1>2 DEF ScreenStays, ShownAsked, Shown, Onward
<1>4. /\ situation' \in Situations
      /\ got' \in [Requests -> SUBSET Requests] /\ up' \in [Servers -> BOOLEAN]
      /\ state' \in [Requests -> {"unasked", "waiting", "answered", "settled", "lost"}]
      /\ pc' \in [Calls -> {"idle", "tapped", "sending", "sent", "ok", "err"}]
      /\ saw' \in [Calls -> Requests \cup {None}] /\ target' \in [Calls -> Requests \cup {None}]
  <2> DEFINE States == {"unasked", "waiting", "answered", "settled", "lost"}
             Places == {"idle", "tapped", "sending", "sent", "ok", "err"}
             Goal == /\ situation' \in Situations
                     /\ got' \in [Requests -> SUBSET Requests] /\ up' \in [Servers -> BOOLEAN]
                     /\ state' \in [Requests -> States]
                     /\ pc' \in [Calls -> Places]
                     /\ saw' \in [Calls -> Requests \cup {None}]
                     /\ target' \in [Calls -> Requests \cup {None}]
  <2>0. /\ situation \in Situations
        /\ got \in [Requests -> SUBSET Requests] /\ up \in [Servers -> BOOLEAN]
        /\ state \in [Requests -> States] /\ pc \in [Calls -> Places]
        /\ saw \in [Calls -> Requests \cup {None}] /\ target \in [Calls -> Requests \cup {None}]
        /\ shown \in Seq(Requests)
    BY <1>0 DEF ApprovalTypeOK
  <2>1. ASSUME NEW q \in Requests, Asks(q) \/ Repeats(q) \/ Settles(q) PROVE Goal
    BY <2>0, <2>1 DEF Asks, Repeats, Settles, approvalServer, approvalCalls
  <2>2. ASSUME NEW s \in Servers, Restart(s) \/ Hear(s) PROVE Goal
    BY <2>0, <2>2 DEF Restart, Hear, approvalServer, approvalCalls
  <2>3. ASSUME NEW c \in Calls, NEW q \in Requests, Tap(c, q) PROVE Goal
    BY <2>0, <2>3 DEF Tap, Goto, approvalServer
  <2>4. ASSUME NEW c \in Calls, Look(c) PROVE Goal
    <3>1. ASSUME NEW first \in Found(saw[c]) PROVE shown[first] \in Requests
      BY <2>0 DEF Found
    <3> QED BY <2>0, <2>4, <3>1 DEF Look, Goto, approvalServer
  <2>5. ASSUME NEW c \in Calls, SendFails(c) \/ Resolve(c) PROVE Goal
    BY <2>0, <2>5 DEF SendFails, Resolve, Goto, approvalServer
  <2>6. ASSUME NEW c \in Calls, SendAnswer(c) PROVE Goal
    <3>1. saw[c] \in Requests /\ pc' \in [Calls -> Places]
      BY <2>0, <2>6 DEF ApprovalInv, CallsKeepTheId, SendAnswer, Goto
    <3>2. \/ UNCHANGED <<state, got>>
          \/ \E q \in Requests : /\ state' = [state EXCEPT ![q] = "answered"]
                                 /\ got' = [got EXCEPT ![q] = @ \cup {saw[c]}]
      BY <2>6 DEF SendAnswer
    <3>3. state' \in [Requests -> States] /\ got' \in [Requests -> SUBSET Requests]
      BY <2>0, <3>1, <3>2
    <3> QED BY <2>0, <2>6, <3>1, <3>3 DEF SendAnswer
  <2>7. CASE UNCHANGED approvalVars
    BY <2>0, <2>7 DEF approvalVars, approvalServer, approvalCalls
  <2> QED
    BY <2>1, <2>2, <2>3, <2>4, <2>5, <2>6, <2>7 DEF ApprovalNext, Answering
<1>5. ApprovalTypeOK'
  BY <1>1, <1>2, <1>4 DEF ApprovalTypeOK, ScreenStays
<1> QED BY <1>1, <1>2, <1>3, <1>5 DEF KeptInv

\* The values are those of the store, the servers and the calls.
THEOREM ApprovalTypeCorrect == ApprovalSpec => []ApprovalTypeOK
<1>1. KeptInv => ApprovalTypeOK
  BY DEF KeptInv
<1> QED
  BY <1>1, ApprovalInitInv, ApprovalNextKeeps, KeptBegins, KeptNext, PTL DEF ApprovalSpec

\* A request that a server waits for, and whose id no other has, stays on screen for as
\* long as it does.
THEOREM WaitingStays == ApprovalSpec => KeptWhileWaiting
<1>1. ApprovalInv /\ KeptInv /\ [ApprovalNext]_approvalVars
      => [\A q \in Shown \cap Unique : state[q] = "waiting" => q \in ToSet(shown')]_approvalVars
  BY ShownNext DEF ScreenStays
<1> QED
  BY <1>1, ApprovalInitInv, ApprovalNextKeeps, KeptBegins, KeptNext, PTL
  DEF ApprovalSpec, KeptWhileWaiting

-----------------------------------------------------------------------------
\* A set of numbers that is not empty has a least one.
LEMMA LeastOne ==
  ASSUME NEW S, S \subseteq Nat, S # {}
  PROVE  Min(S) \in S
<1>1. \E x \in S : \A y \in S : ~ (<<y, x>> \in OpToRel(<,Nat))
  BY NatLessThanWellFounded, WFMin
<1>2. PICK x \in S : \A y \in S : ~ (y < x)
  BY <1>1 DEF OpToRel
<1>3. \A y \in S : x <= y
  BY <1>2
<1> QED BY <1>3 DEF Min

\* The three kinds of actors are apart.
LEMMA Casting ==
  /\ Messages \subseteq Actors /\ Taps \subseteq Actors /\ Listener \in Actors
  /\ Messages \cap Taps = {} /\ Listener \notin Messages /\ Listener \notin Taps
BY FollowUpAssumption DEF Actors

-----------------------------------------------------------------------------
(* Types *)

\* The items that repeat a message.
LEMMA EchoIs ==
  ASSUME NEW m \in Messages, NEW t \in Nat
  PROVE  /\ Echo(m, t) \in Seq(Events)
         /\ Len(Echo(m, t)) = IF m \in Bare THEN 0 ELSE UserItems
         /\ \A i \in 1..Len(Echo(m, t)) :
              Echo(m, t)[i] = [type |-> "UserItem", turn |-> t, msg |-> {m}]
<1> DEFINE n == IF m \in Bare THEN 0 ELSE UserItems
           e == [type |-> "UserItem", turn |-> t, msg |-> {m}]
<1>1. n \in Nat
  BY FollowUpAssumption
<1>2. e \in Events
  BY DEF Events
<1>3. Echo(m, t) = [i \in 1..n |-> e]
  BY DEF Echo
<1> HIDE DEF n, e
<1>4. [i \in 1..n |-> e] \in [1..n -> Events]
  BY <1>2
<1>5. [i \in 1..n |-> e] \in Seq(Events) /\ Len([i \in 1..n |-> e]) = n
  BY <1>1, <1>4
<1> QED BY <1>3, <1>5 DEF n, e

\* What comes after the events on their way leaves them as they are.
Adds(es) ==
  /\ Len(events') = Len(events) + Len(es)
  /\ \A i \in 1..Len(events) : events'[i] = events[i]
  /\ \A i \in 1..Len(es) : events'[Len(events) + i] = es[i]

\* Events come at the end.
LEMMA EventsAdd ==
  ASSUME TypeOK, NEW es \in Seq(Events), events' = events \o es
  PROVE  events' \in Seq(Events) /\ Adds(es)
<1>1. events \in Seq(Events) /\ Len(events) \in Nat /\ Len(es) \in Nat
  BY DEF TypeOK
<1>2. /\ events' \in Seq(Events) /\ Len(events') = Len(events) + Len(es)
      /\ \A i \in 1..(Len(events) + Len(es)) :
           events'[i] = IF i <= Len(events) THEN events[i] ELSE es[i - Len(events)]
  BY <1>1, ConcatProperties
<1>3. \A i \in 1..Len(events) : events'[i] = events[i]
  BY <1>1, <1>2
<1>4. ASSUME NEW i \in 1..Len(es) PROVE events'[Len(events) + i] = es[i]
  <2>1. Len(events) + i \in 1..(Len(events) + Len(es)) /\ ~(Len(events) + i <= Len(events))
        /\ (Len(events) + i) - Len(events) = i
    BY <1>1
  <2> QED BY <2>1, <1>2
<1> QED BY <1>2, <1>3, <1>4 DEF Adds

\* The request of one actor changes.
LEMMA SendTypes ==
  ASSUME TypeOK, NEW a \in Actors, NEW op \in {"start", "steer"}, NEW m \in Messages,
         NEW t \in Nat, Send(a, op, m, t)
  PROVE  /\ req' \in [Actors -> TurnRequests \cup {NoRequest}]
         /\ req'[a] = Request(op, m, t) /\ req'[a] \in TurnRequests /\ req'[a] # NoRequest
         /\ \A b \in Actors \ {a} : req'[b] = req[b]
<1>1. Request(op, m, t) \in TurnRequests /\ Request(op, m, t) # NoRequest
  BY DEF Request, TurnRequests, NoRequest
<1> QED BY <1>1 DEF Send, TypeOK

\* A result has been read.
LEMMA ClearTypes ==
  ASSUME TypeOK, NEW a \in Actors, Clear(a)
  PROVE  /\ req' \in [Actors -> TurnRequests \cup {NoRequest}]
         /\ req'[a] = NoRequest
         /\ \A b \in Actors \ {a} : req'[b] = req[b]
BY DEF Clear, TypeOK

\* A request is answered.
LEMMA ResultTypes ==
  ASSUME TypeOK, NEW a \in Actors, Waiting(a), NEW r \in {"ok", "error"}, NEW t \in Nat,
         Result(a, r, t)
  PROVE  /\ req' \in [Actors -> TurnRequests \cup {NoRequest}]
         /\ req[a] \in TurnRequests /\ req'[a] \in TurnRequests /\ req'[a] # NoRequest
         /\ req'[a].op = req[a].op /\ req'[a].msg = req[a].msg
         /\ req'[a].turn = t /\ req'[a].result = r
         /\ \A b \in Actors \ {a} : req'[b] = req[b]
<1>1. req[a] \in TurnRequests
  BY DEF TypeOK, Waiting
<1> DEFINE q == [req[a] EXCEPT !.result = r, !.turn = t]
<1>2. /\ q \in TurnRequests /\ q.op = req[a].op /\ q.msg = req[a].msg /\ q.turn = t /\ q.result = r
      /\ q # NoRequest
  BY <1>1 DEF TurnRequests, NoRequest
<1>3. req' = [req EXCEPT ![a] = q]
  BY DEF Result
<1> HIDE DEF q
<1> QED BY <1>1, <1>2, <1>3 DEF TypeOK

\* Steps of start_turn
LEMMA StartingTypes ==
  ASSUME TypeOK, NEW m \in Messages, ReadThread(m) \/ Starting(m)
  PROVE  TypeOK'
<1>0. m \in Actors
  BY Casting
<1>1. CASE ReadThread(m)
  BY <1>1 DEF TypeOK, ReadThread, store, taps, deleting, server
<1>2. CASE StartDirectly(m)
  <2>1. req' \in [Actors -> TurnRequests \cup {NoRequest}]
    BY <1>0, <1>2, SendTypes DEF StartDirectly
  <2>2. overlays' \in Seq(Messages \X Nat)
    BY <1>2 DEF TypeOK, StartDirectly
  <2> QED
    BY <1>2, <2>1, <2>2 DEF TypeOK, StartDirectly, taps, deleting, server
<1>3. CASE Enqueue(m)
  <2>1. drafts' \in Seq(Drafts)
    BY <1>3 DEF TypeOK, Enqueue, Drafts
  <2> QED
    BY <1>3, <2>1 DEF TypeOK, Enqueue, taps, deleting, server
<1>4. CASE SteerDirectly(m)
  <2>1. req' \in [Actors -> TurnRequests \cup {NoRequest}]
    BY <1>0, <1>4, SendTypes DEF SteerDirectly, TypeOK
  <2> QED
    BY <1>4, <2>1 DEF TypeOK, SteerDirectly, taps, deleting, server, store
<1>5. CASE SteerReturns(m)
  <2>1. req' \in [Actors -> TurnRequests \cup {NoRequest}]
    BY <1>0, <1>5, SendTypes, ClearTypes DEF SteerReturns
  <2> QED
    BY <1>5, <2>1 DEF TypeOK, SteerReturns, taps, deleting, server, store
<1>6. CASE StartReturns(m)
  <2>1. req' \in [Actors -> TurnRequests \cup {NoRequest}]
    BY <1>0, <1>6, ClearTypes DEF StartReturns
  <2>2. Without(m) \in Seq(Messages \X Nat)
    BY RetainMade DEF TypeOK, Without
  <2>3. BindTo(m, req[m].turn) \in Seq(Messages \X Nat)
    <3>1. req[m].turn \in Nat /\ overlays \in Seq(Messages \X Nat)
      BY <1>0, <1>6 DEF TypeOK, StartReturns, Answered, TurnRequests
    <3>2. \A i \in 1..Len(overlays) : (IF overlays[i][1] = m THEN <<m, req[m].turn>> ELSE overlays[i])
                                         \in Messages \X Nat
      BY <3>1
    <3>3. BindTo(m, req[m].turn) \in [1..Len(overlays) -> Messages \X Nat]
      BY <3>2 DEF BindTo
    <3> QED BY <3>1, <3>3
  <2> QED
    BY <1>6, <2>1, <2>2, <2>3 DEF TypeOK, StartReturns, taps, deleting, server
<1> QED
  BY <1>1, <1>2, <1>3, <1>4, <1>5, <1>6 DEF Starting

\* What the queue is made of.
LEMMA DraftIs ==
  ASSUME NEW s \in Seq(Drafts), NEW i \in 1..Len(s)
  PROVE  s[i] \in Drafts /\ s[i].msg \in Messages /\ s[i].kind \in {"Message", "PendingSteer"}
<1>1. s[i] \in Drafts
  BY ElementOfSeq
<1> QED BY <1>1 DEF Drafts

\* Where a queued message is.
LEMMA PositionIs ==
  ASSUME TypeOK, NEW m, Queued(m)
  PROVE  Position(m) \in 1..Len(drafts) /\ drafts[Position(m)].msg = m
BY DEF Queued, Position

\* Marking a draft.
LEMMA MarkIs ==
  ASSUME TypeOK, NEW m, Queued(m),
         drafts' = [drafts EXCEPT ![Position(m)].kind = "PendingSteer"]
  PROVE  /\ drafts' \in Seq(Drafts) /\ Len(drafts') = Len(drafts)
         /\ drafts'[Position(m)].kind = "PendingSteer"
         /\ \A i \in 1..Len(drafts) : drafts'[i].msg = drafts[i].msg
         /\ \A i \in 1..Len(drafts) : i # Position(m) => drafts'[i] = drafts[i]
<1> DEFINE p == Position(m)
           d == [drafts[p] EXCEPT !.kind = "PendingSteer"]
<1>0. drafts \in Seq(Drafts)
  BY DEF TypeOK
<1>1. p \in 1..Len(drafts) /\ drafts[p].msg = m /\ drafts[p] \in Drafts
  BY <1>0, PositionIs, DraftIs
<1>2. d \in Drafts /\ d.msg = m /\ d.kind = "PendingSteer"
  BY <1>1 DEF Drafts
<1>3. drafts' = [drafts EXCEPT ![p] = d]
  OBVIOUS
<1> HIDE DEF p, d
<1>4. drafts \in Seq(Drafts)
  BY DEF TypeOK
<1> QED BY <1>1, <1>2, <1>3, <1>4, ExceptSeq DEF p

\* Steps of steer_queued_follow_up.
LEMMA TappingTypes ==
  ASSUME TypeOK, NEW k \in Taps, Tapping(k) \/ \E m \in Messages : TapReads(k, m)
  PROVE  TypeOK'
<1>0. k \in Actors
  BY Casting
<1>1. ASSUME NEW m \in Messages, TapReads(k, m) PROVE TypeOK'
  <2>1. <<m, active>> \in Messages \X Nat
    BY DEF TypeOK
  <2> QED
    BY <1>1, <2>1 DEF TypeOK, TapReads, store, calls, deleting, server
<1>2. CASE TapBegins(k)
  <2>1. tapped[k] \in Messages \X Nat /\ tapped[k][1] \in Messages /\ tapped[k][2] \in Nat
    BY <1>2 DEF TypeOK, TapBegins
  <2>2. req' \in [Actors -> TurnRequests \cup {NoRequest}]
    <3>1. CASE UNCHANGED req
      BY <3>1 DEF TypeOK
    <3>2. CASE Send(k, "steer", tapped[k][1], tapped[k][2])
      BY <1>0, <2>1, <3>2, SendTypes
    <3> QED
      BY <1>2, <3>1, <3>2 DEF TapBegins
  <2>3. drafts' \in Seq(Drafts)
    <3>1. CASE UNCHANGED drafts
      BY <3>1 DEF TypeOK
    <3>2. CASE MayBegin(tapped[k][1]) /\
               drafts' = [drafts EXCEPT ![Position(tapped[k][1])].kind = "PendingSteer"]
      BY <3>2, MarkIs DEF MayBegin
    <3> QED
      BY <1>2, <3>1, <3>2 DEF TapBegins
  <2>4. \E l \in {"done", "steering"} : tap' = [tap EXCEPT ![k] = l]
    BY <1>2 DEF TapBegins
  <2>5. tap[k] = "read" /\ UNCHANGED <<scenario, active, overlays, items, events, listener, calls,
          tapped, deleting, server>>
    BY <1>2 DEF TapBegins
  <2> QED
    BY <2>2, <2>3, <2>4, <2>5 DEF TypeOK, calls, deleting, server
<1>3. CASE TapReturns(k)
  <2>1. req' \in [Actors -> TurnRequests \cup {NoRequest}]
    BY <1>0, <1>3, ClearTypes DEF TapReturns
  <2> QED
    BY <1>3, <2>1 DEF TypeOK, TapReturns, calls, deleting, server, store
<1> QED
  BY <1>1, <1>2, <1>3 DEF Tapping

\* Steps of delete_queued_follow_up.
LEMMA DeletingTypes ==
  ASSUME TypeOK, DeleteWrites \/ \E m \in Messages : DeleteReads(m)
  PROVE  TypeOK'
<1>1. ASSUME NEW m \in Messages, DeleteReads(m) PROVE TypeOK'
  <2>1. next_drafts' \in Seq(Drafts)
    BY <1>1, RetainMade DEF TypeOK, DeleteReads
  <2> QED
    BY <1>1, <2>1 DEF TypeOK, DeleteReads, store, calls, taps, server
<1>2. CASE DeleteWrites
  <2>1. undone' \subseteq Messages
    <3>1. \A i \in 1..Len(next_drafts) : next_drafts[i].msg \in Messages
      BY DraftIs DEF TypeOK
    <3> QED
      BY <1>2, <3>1 DEF DeleteWrites
  <2> QED
    BY <1>2, <2>1 DEF TypeOK, DeleteWrites, calls, taps, server
<1> QED
  BY <1>1, <1>2

\* The head of the events is taken.
LEMMA TakeIs ==
  ASSUME TypeOK, NEW type, Take(type)
  PROVE  /\ Head(events) \in Events /\ Head(events) = events[1] /\ Head(events).type = type
         /\ Len(events) >= 1 /\ Len(events) \in Nat
         /\ events' \in Seq(Events) /\ Len(events') = Len(events) - 1
         /\ \A i \in 1..Len(events') : events'[i] = events[i + 1]
         /\ listener = "idle"
<1>1. events \in Seq(Events) /\ events # <<>> /\ events' = Tail(events)
  BY DEF TypeOK, Take
<1> QED BY <1>1, HeadTailProperties DEF Take

\* The first draft is dropped.
LEMMA DropIs ==
  ASSUME TypeOK, drafts' = DropFirst(drafts)
  PROVE  /\ drafts' \in Seq(Drafts)
         /\ \/ drafts = <<>> /\ drafts' = <<>>
            \/ /\ drafts # <<>> /\ Len(drafts') = Len(drafts) - 1
               /\ \A i \in 1..Len(drafts') : drafts'[i] = drafts[i + 1]
BY HeadTailProperties DEF TypeOK, DropFirst

\* Binding an overlay to a turn leaves all of them in their places.
LEMMA BindFirstIs ==
  ASSUME TypeOK, NEW t \in Nat
  PROVE  /\ BindFirst(t) \in Seq(Messages \X Nat) /\ Len(BindFirst(t)) = Len(overlays)
         /\ \A i \in 1..Len(overlays) : BindFirst(t)[i][1] = overlays[i][1]
<1> DEFINE pending == {i \in 1..Len(overlays) : overlays[i][2] = 0}
           p == Min(pending)
           o == <<overlays[p][1], t>>
<1>0. overlays \in Seq(Messages \X Nat)
  BY DEF TypeOK
<1>1. CASE pending = {}
  BY <1>0, <1>1 DEF BindFirst
<1>2. CASE pending # {}
  <2>1. p \in pending
    BY <1>2, LeastOne
  <2>a. p \in 1..Len(overlays)
    BY <2>1
  <2>b. overlays[p] \in Messages \X Nat
    BY <1>0, <2>a, ElementOfSeq
  <2>2. p \in 1..Len(overlays) /\ o \in Messages \X Nat /\ o[1] = overlays[p][1]
    BY <2>a, <2>b
  <2>3. BindFirst(t) = [overlays EXCEPT ![p] = o]
    BY <1>2 DEF BindFirst
  <2> HIDE DEF o, p
  <2> QED BY <1>0, <2>2, <2>3, ExceptSeq
<1> QED BY <1>1, <1>2

\* The item of a message takes its overlay off the screen.
LEMMA ItemIs ==
  ASSUME TypeOK, SeeUserItem
  PROVE  \E m \in Messages : /\ Head(events).msg = {m} /\ overlays' = Without(m)
                             /\ items' = items \cup {m}
<1>1. Take("UserItem")
  BY DEF SeeUserItem
<1>a. Head(events) = events[1] /\ Head(events).type = "UserItem" /\ 1 \in 1..Len(events)
  BY <1>1, TakeIs
<1>2. PICK m \in Messages : Head(events).msg = {m}
  BY <1>a DEF TypeOK
<1> QED
  BY <1>2 DEF SeeUserItem, Supersede

\* Steps of the listener.
LEMMA ListeningTypes ==
  ASSUME TypeOK, Listening
  PROVE  TypeOK'
<1>0. Listener \in Actors
  BY Casting
<1>a. ASSUME NEW type, Take(type)
      PROVE  /\ events' \in Seq(Events) /\ Head(events).turn \in Nat
             /\ \A i \in 1..Len(events') :
                  events'[i].type = "UserItem" => \E m \in Messages : events'[i].msg = {m}
  <2>1. events' \in Seq(Events) /\ Head(events) \in Events /\ Len(events) \in Nat
        /\ Len(events') = Len(events) - 1 /\ \A i \in 1..Len(events') : events'[i] = events[i + 1]
    BY <1>a, TakeIs
  <2>2. \A i \in 1..Len(events') : i + 1 \in 1..Len(events)
    BY <2>1
  <2>3. Head(events).turn \in Nat
    BY <2>1 DEF Events
  <2>4. \A i \in 1..Len(events') :
          events'[i].type = "UserItem" => \E m \in Messages : events'[i].msg = {m}
    <3>1. \A i \in 1..Len(events) :
            events[i].type = "UserItem" => \E m \in Messages : events[i].msg = {m}
      BY DEF TypeOK
    <3> QED BY <2>1, <2>2, <3>1
  <2> QED BY <2>1, <2>3, <2>4
<1>1. CASE SeeTurnStarted
  <2>1. overlays' \in Seq(Messages \X Nat)
    BY <1>1, <1>a, BindFirstIs DEF SeeTurnStarted
  <2>2. drafts' \in Seq(Drafts)
    BY <1>1, DropIs DEF SeeTurnStarted
  <2> QED
    BY <1>1, <1>a, <2>1, <2>2 DEF TypeOK, SeeTurnStarted, calls, taps, deleting, server
<1>2. CASE SeeUserItem
  <2>0. PICK m \in Messages : overlays' = Without(m) /\ items' = items \cup {m}
    BY <1>2, ItemIs
  <2>a. overlays \in Seq(Messages \X Nat) /\ items \subseteq Messages
    BY DEF TypeOK
  <2>1. overlays' \in Seq(Messages \X Nat) /\ items' \subseteq Messages
    BY <2>0, <2>a, RetainMade DEF Without
  <2>2. drafts' \in Seq(Drafts)
    BY <1>2, DropIs DEF SeeUserItem
  <2> QED
    BY <1>2, <1>a, <2>1, <2>2 DEF TypeOK, SeeUserItem, calls, taps, deleting, server
<1>3. CASE SeeTurnCompleted
  <2>1. drafts' \in Seq(Drafts)
    BY <1>3, RetainMade DEF TypeOK, SeeTurnCompleted
  <2> QED
    BY <1>3, <1>a, <2>1 DEF TypeOK, SeeTurnCompleted, calls, taps, deleting, server
<1>4. CASE SendNext
  <2>1. CASE MaySend /\ Send(Listener, "start", Head(drafts).msg, 0) /\ listener' = "sending"
    <3>0. drafts \in Seq(Drafts) /\ drafts # <<>>
      BY <2>1 DEF TypeOK, MaySend
    <3>a. Head(drafts) \in Drafts
      BY <3>0, HeadTailProperties
    <3>1. Head(drafts).msg \in Messages
      BY <3>a DEF Drafts
    <3> QED
      BY <1>0, <1>4, <2>1, <3>1, SendTypes DEF TypeOK, SendNext, calls, taps, deleting, server, store
  <2>2. CASE UNCHANGED req /\ listener' = "idle"
    BY <1>4, <2>2 DEF TypeOK, SendNext, calls, taps, deleting, server, store
  <2> QED
    BY <1>4, <2>1, <2>2 DEF SendNext
<1>5. CASE NextSent
  BY <1>0, <1>5, ClearTypes DEF TypeOK, NextSent, calls, taps, deleting, server, store
<1> QED
  BY <1>1, <1>2, <1>3, <1>4, <1>5 DEF Listening

\* The server accepts a message.
LEMMA AcceptIs ==
  ASSUME TypeOK, NEW a \in Actors, Waiting(a), NEW t \in Nat, Accept(a, t)
  PROVE  /\ req[a] \in TurnRequests /\ req[a].msg \in Messages
         /\ runs' = [runs EXCEPT ![req[a].msg] = @ + 1]
         /\ runs' \in [Messages -> Nat]
         /\ \E r \in {"ok", "error"} : Result(a, r, t) /\ (~scenario.failing => r = "ok")
         /\ UNCHANGED <<scenario, store, listener, calls, taps, deleting>>
<1>1. req[a] \in TurnRequests /\ req[a].msg \in Messages
  BY DEF TypeOK, Waiting, TurnRequests
<1> QED
  BY <1>1 DEF Accept, TypeOK

\* The beginning and the end of a turn.
LEMMA EventIs ==
  ASSUME NEW type \in {"TurnStarted", "TurnCompleted"}, NEW t \in Nat
  PROVE  Event(type, t) \in Events /\ Event(type, t).type = type /\ Event(type, t).turn = t
         /\ Event(type, t).msg = {}
BY DEF Event, Events

\* The server takes a message: in a turn it begins, or in the one it is in.
Item(m, t) == [type |-> "UserItem", turn |-> t, msg |-> {m}]

\* The server takes the message of a in turn t, and tells it with the events es.
Taken(a, es, t) ==
  /\ Waiting(a) /\ Accept(a, t) /\ Adds(es) /\ events' \in Seq(Events)
  /\ t \in Nat /\ es \in Seq(Events)
  /\ \/ /\ req[a].op = "start" /\ turn = 0
        /\ turns' = turns + 1 /\ turn' = turns + 1 /\ t = turns + 1
        /\ Len(es) >= 1 /\ es[1] = Event("TurnStarted", t)
        /\ \A i \in 2..Len(es) : es[i] = Item(req[a].msg, t)
     \/ /\ turn # 0 /\ (req[a].op = "steer" => req[a].turn = turn)
        /\ UNCHANGED <<turn, turns>> /\ t = turn
        /\ \A i \in 1..Len(es) : es[i] = Item(req[a].msg, t)
        /\ req[a].msg \notin Bare => Len(es) >= 1

\* The server takes nothing.
Refused(a) ==
  /\ Waiting(a) /\ Result(a, "error", 0)
  /\ UNCHANGED <<scenario, store, events, listener, calls, taps, deleting, server>>

\* A request is taken or refused.
LEMMA ServingIs ==
  ASSUME TypeOK, NEW a \in Actors, Serving(a)
  PROVE  Refused(a) \/ \E es, t : Taken(a, es, t)
<1>0. Waiting(a)
  BY DEF Serving, ServerBegins, ServerAdds, ServerRefuses
<1>1. req[a] \in TurnRequests /\ req[a].msg \in Messages /\ turn \in Nat /\ turns \in Nat
  BY <1>0 DEF TypeOK, Waiting, TurnRequests
<1>2. CASE ServerBegins(a)
  <2> DEFINE t == turns + 1
             e == Event("TurnStarted", t)
             echo == Echo(req[a].msg, t)
             es == <<e>> \o echo
  <2>0. t \in Nat /\ turns' = t /\ turn' = t
    BY <1>1, <1>2 DEF ServerBegins
  <2>a. e \in Events
    BY <2>0, EventIs
  <2>b. echo \in Seq(Events) /\ Len(echo) \in Nat
        /\ \A i \in 1..Len(echo) : echo[i] = Item(req[a].msg, t)
    BY <1>1, <2>0, EchoIs DEF Item
  <2>c. <<e>> \in Seq(Events) /\ Len(<<e>>) = 1 /\ <<e>>[1] = e
    BY <2>a
  <2>2. events' = Append(events, e) \o echo
    BY <1>2, <2>0 DEF ServerBegins
  <2>3. Append(events, e) = events \o <<e>>
    BY <2>a DEF TypeOK
  <2> HIDE DEF echo, e
  <2>1. /\ es \in Seq(Events) /\ Len(es) = 1 + Len(echo)
        /\ \A i \in 1..(1 + Len(echo)) :
             es[i] = IF i <= 1 THEN <<e>>[i] ELSE echo[i - 1]
    BY <2>b, <2>c, ConcatProperties
  <2>4. events' = events \o es
    BY <2>b, <2>c, <2>2, <2>3, ConcatAssociative DEF TypeOK
  <2> HIDE DEF es
  <2>5. Adds(es) /\ events' \in Seq(Events)
    BY <2>1, <2>4, EventsAdd
  <2>6. Len(es) >= 1 /\ es[1] = e
    BY <2>1, <2>b, <2>c
  <2>7. ASSUME NEW i \in 2..Len(es) PROVE es[i] = Item(req[a].msg, t)
    <3>1. i \in 1..(1 + Len(echo)) /\ ~(i <= 1) /\ i - 1 \in 1..Len(echo)
      BY <2>1, <2>b
    <3> QED BY <2>1, <2>b, <3>1
  <2> QED
    BY <1>0, <1>1, <1>2, <2>0, <2>1, <2>5, <2>6, <2>7 DEF ServerBegins, Taken, e
<1>3. CASE ServerAdds(a)
  <2>1. Echo(req[a].msg, turn) \in Seq(Events)
        /\ (\A i \in 1..Len(Echo(req[a].msg, turn)) :
              Echo(req[a].msg, turn)[i] = Item(req[a].msg, turn))
        /\ (req[a].msg \notin Bare => Len(Echo(req[a].msg, turn)) >= 1)
    BY <1>1, EchoIs, FollowUpAssumption DEF Item
  <2>2. Adds(Echo(req[a].msg, turn)) /\ events' \in Seq(Events)
    BY <1>3, <2>1, EventsAdd DEF ServerAdds
  <2> QED
    BY <1>0, <1>1, <1>3, <2>1, <2>2 DEF ServerAdds, Taken
<1>4. CASE ServerRefuses(a)
  BY <1>0, <1>4 DEF ServerRefuses, Refused
<1> QED
  BY <1>2, <1>3, <1>4 DEF Serving

\* What is new among the events.
LEMMA TakenEvents ==
  ASSUME TypeOK, NEW a \in Actors, NEW es, NEW t, Taken(a, es, t)
  PROVE  /\ Len(events) \in Nat /\ Len(events') \in Nat /\ Len(events') >= Len(events)
         /\ \A i \in 1..Len(events) : events'[i] = events[i]
         /\ \A i \in 1..Len(events') : i > Len(events) =>
              \/ events'[i] = Item(req[a].msg, t)
              \/ i = Len(events) + 1 /\ turn = 0 /\ events'[i] = Event("TurnStarted", t)
         /\ turn = 0 => Len(events) + 1 \in 1..Len(events')
                        /\ events'[Len(events) + 1] = Event("TurnStarted", t)
         /\ req[a].msg \notin Bare => Len(events') > Len(events)
<1>a. events \in Seq(Events) /\ es \in Seq(Events)
  BY DEF TypeOK, Taken
<1>0. Len(events) \in Nat /\ Len(es) \in Nat
  BY <1>a
<1>1. /\ Len(events') = Len(events) + Len(es)
      /\ \A i \in 1..Len(events) : events'[i] = events[i]
      /\ \A i \in 1..Len(es) : events'[Len(events) + i] = es[i]
  BY DEF Taken, Adds
<1>2. \A i \in 1..Len(es) :
        \/ es[i] = Item(req[a].msg, t)
        \/ i = 1 /\ turn = 0 /\ es[i] = Event("TurnStarted", t)
  BY <1>0 DEF Taken
<1>3. ASSUME NEW i \in 1..Len(events'), i > Len(events)
      PROVE  \/ events'[i] = Item(req[a].msg, t)
             \/ i = Len(events) + 1 /\ turn = 0 /\ events'[i] = Event("TurnStarted", t)
  <2>1. i - Len(events) \in 1..Len(es) /\ Len(events) + (i - Len(events)) = i
    BY <1>0, <1>1, <1>3
  <2>2. events'[i] = es[i - Len(events)]
    BY <1>1, <2>1
  <2> QED
    BY <1>0, <1>2, <2>1, <2>2
<1>4. ASSUME turn = 0
      PROVE  Len(events) + 1 \in 1..Len(events')
             /\ events'[Len(events) + 1] = Event("TurnStarted", t)
  <2>1. 1 \in 1..Len(es) /\ es[1] = Event("TurnStarted", t)
    BY <1>0, <1>4 DEF Taken
  <2> QED BY <1>0, <1>1, <2>1
<1>5. req[a].msg \notin Bare => Len(es) >= 1
  BY DEF Taken
<1> QED
  BY <1>0, <1>1, <1>3, <1>4, <1>5

\* The server answers a request.
LEMMA ServingTypes ==
  ASSUME TypeOK, NEW a \in Actors, Serving(a)
  PROVE  TypeOK'
<1>1. ASSUME NEW es, NEW t, Taken(a, es, t) PROVE TypeOK'
  <2>0. Waiting(a) /\ Accept(a, t) /\ t \in Nat
    BY <1>1 DEF Taken
  <2>1. /\ req[a].msg \in Messages /\ runs' \in [Messages -> Nat]
        /\ \E r \in {"ok", "error"} : Result(a, r, t)
        /\ UNCHANGED <<scenario, store, listener, calls, taps, deleting>>
    BY <2>0, AcceptIs
  <2>2. req' \in [Actors -> TurnRequests \cup {NoRequest}]
    BY <2>0, <2>1, ResultTypes
  <2>3. events' \in Seq(Events) /\ turn' \in Nat /\ turns' \in Nat
    BY <1>1 DEF TypeOK, Taken
  <2>4. ASSUME NEW i \in 1..Len(events'), events'[i].type = "UserItem"
        PROVE  \E m \in Messages : events'[i].msg = {m}
    <3>1. CASE i \in 1..Len(events)
      <4>1. events[i].type = "UserItem" => \E m \in Messages : events[i].msg = {m}
        BY <3>1 DEF TypeOK
      <4>2. events'[i] = events[i]
        BY <1>1, <3>1, TakenEvents
      <4> QED BY <2>4, <4>1, <4>2
    <3>2. CASE i \notin 1..Len(events)
      <4>1. i > Len(events)
        BY <1>1, <3>2, TakenEvents
      <4>2. events'[i] = Item(req[a].msg, t) \/ events'[i] = Event("TurnStarted", t)
        BY <1>1, <4>1, TakenEvents
      <4>3. events'[i] = Item(req[a].msg, t)
        BY <2>4, <4>2 DEF Event
      <4> QED BY <2>1, <4>3 DEF Item
    <3> QED BY <3>1, <3>2
  <2> QED
    BY <2>1, <2>2, <2>3, <2>4 DEF TypeOK, store, calls, taps, deleting
<1>2. ASSUME Refused(a) PROVE TypeOK'
  <2>1. req' \in [Actors -> TurnRequests \cup {NoRequest}]
    BY <1>2, ResultTypes DEF Refused
  <2> QED
    BY <1>2, <2>1 DEF Refused, TypeOK, store, calls, taps, deleting, server
<1> QED
  BY <1>1, <1>2, ServingIs

\* A turn ends.
LEMMA CompletesIs ==
  ASSUME TypeOK, ServerCompletes
  PROVE  /\ events' \in Seq(Events) /\ Len(events) \in Nat /\ Len(events') = Len(events) + 1
         /\ \A i \in 1..Len(events) : events'[i] = events[i]
         /\ events'[Len(events) + 1] = Event("TurnCompleted", turn)
<1>1. Event("TurnCompleted", turn) \in Events /\ events \in Seq(Events)
  BY EventIs DEF TypeOK
<1> QED
  BY <1>1 DEF ServerCompletes

\* The server ends its turn.
LEMMA CompletesTypes ==
  ASSUME TypeOK, ServerCompletes
  PROVE  TypeOK'
<1>1. ASSUME NEW i \in 1..Len(events'), events'[i].type = "UserItem"
      PROVE  \E m \in Messages : events'[i].msg = {m}
  <2>1. i \in 1..Len(events) /\ events'[i] = events[i]
    BY <1>1, CompletesIs DEF Event
  <2> QED BY <1>1, <2>1 DEF TypeOK
<1>2. events' \in Seq(Events)
  BY CompletesIs
<1> QED
  BY <1>1, <1>2 DEF TypeOK, ServerCompletes, store, calls, taps, deleting

\* The types in the beginning
LEMMA InitTypes == Init => TypeOK
BY DEF Init, TypeOK, NoRequest

\* and after every step.
LEMMA NextTypes == TypeOK /\ [Next]_vars => TypeOK'
<1> SUFFICES ASSUME TypeOK, [Next]_vars PROVE TypeOK'
  OBVIOUS
<1>1. CASE UNCHANGED vars
  BY <1>1 DEF vars, TypeOK, store, calls, taps, deleting, server
<1>2. ASSUME NEW k \in Taps, Tapping(k) \/ \E m \in Messages : TapReads(k, m) PROVE TypeOK'
  BY <1>2, TappingTypes
<1> QED
  BY <1>1, <1>2, StartingTypes, DeletingTypes, ListeningTypes, ServingTypes,
     CompletesTypes DEF Next

-----------------------------------------------------------------------------
(* What the events on their way say of the turns *)

\* An event that begins or ends a turn.
Turnwise(e) == e.type # "UserItem"

\* Turns are numbered, and the store knows of none the server has not begun.
TurnFacts ==
  /\ turn \in {0, turns} /\ active <= turns
  /\ \A i \in 1..Len(events) : events[i].turn \in 1..turns

\* The i-th event begins a turn, or ends one.
Begins(i) == events[i].type = "TurnStarted"
Ends(i) == events[i].type = "TurnCompleted"

\* Between two ends is a beginning, and a turn the store does not know has one on its way.
Opened ==
  /\ \A j \in 1..Len(events) : Ends(j) /\ active = 0 => \E i \in 1..(j - 1) : Begins(i)
  /\ \A i, j \in 1..Len(events) :
       i < j /\ Ends(i) /\ Ends(j) => \E k \in (i + 1)..(j - 1) : Begins(k)
  /\ turn # 0 /\ active = 0 => \E i \in 1..Len(events) : Begins(i)
  /\ turn # 0 => \A i \in 1..Len(events) : Ends(i) => \E k \in (i + 1)..Len(events) : Begins(k)

\* Nothing follows the beginning of the turn the server is in.
Latest ==
  /\ active = turn /\ turn # 0 => \A i \in 1..Len(events) : ~Turnwise(events[i])
  /\ turn # 0 => \A i, j \in 1..Len(events) :
       Begins(i) /\ events[i].turn = turn /\ i < j => ~Turnwise(events[j])

\* The listener sends drafts after it has heard of an end.
Ended == listener # "idle" => active = 0

\* A tap that has seen the present turn acts while the store knows that turn.
Tapped(k) == tap[k] \in {"read", "steering"}

\* A tap that saw the turn the server is in saw the one the store shows.
TapsInTurn ==
  \A k \in Taps : Tapped(k) =>
    /\ tapped[k][2] <= turns
    /\ tapped[k][2] # 0 /\ tapped[k][2] = turn => active = turn

\* What is known of turns, as an invariant.
ByTurn == TurnFacts /\ Opened /\ Latest /\ Ended /\ TapsInTurn

\* In the beginning there is no turn.
LEMMA InitByTurn == Init => ByTurn
BY DEF Init, ByTurn, TurnFacts, Opened, Latest, Ended, TapsInTurn, Tapped

\* A step that has nothing to do with turns.
LEMMA TurnsRest ==
  ASSUME TypeOK, ByTurn, UNCHANGED <<events, active, turn, turns, listener, tapped>>,
         \A k \in Taps : Tapped(k)' => Tapped(k)
  PROVE  ByTurn'
<1>1. TurnFacts' /\ Ended'
  BY DEF ByTurn, TurnFacts, Ended
<1>2. Opened'
  BY DEF ByTurn, Opened, Begins, Ends
<1>3. Latest'
  BY DEF ByTurn, Latest, Begins, Turnwise
<1>4. TapsInTurn'
  BY DEF ByTurn, TapsInTurn
<1> QED BY <1>1, <1>2, <1>3, <1>4 DEF ByTurn

\* A tap reads the turn the store shows.
LEMMA TapReadsTurn ==
  ASSUME TypeOK, ByTurn, NEW k \in Taps, NEW m \in Messages, TapReads(k, m)
  PROVE  ByTurn'
<1>0. UNCHANGED <<events, active, turn, turns, listener>>
      /\ tap' = [tap EXCEPT ![k] = "read"] /\ tapped' = [tapped EXCEPT ![k] = <<m, active>>]
  BY DEF TapReads, store, server
<1>1. TurnFacts' /\ Ended'
  BY <1>0 DEF ByTurn, TurnFacts, Ended
<1>2. Opened'
  BY <1>0 DEF ByTurn, Opened, Begins, Ends
<1>3. Latest'
  BY <1>0 DEF ByTurn, Latest, Begins, Turnwise
<1>4. TapsInTurn'
  BY <1>0 DEF ByTurn, TapsInTurn, TurnFacts, Tapped, TypeOK
<1> QED BY <1>1, <1>2, <1>3, <1>4 DEF ByTurn

\* The listener takes an event.
LEMMA TakeTurn ==
  ASSUME TypeOK, ByTurn, NEW type \in {"TurnStarted", "UserItem", "TurnCompleted"}, Take(type),
         UNCHANGED <<turn, turns, tap, tapped>>,
         active' = IF type = "TurnStarted" THEN Head(events).turn
                   ELSE IF type = "UserItem" THEN active ELSE 0,
         listener' = IF type = "TurnCompleted" THEN "ended" ELSE listener
  PROVE  ByTurn'
<1>0. /\ Head(events) = events[1] /\ events[1].type = type
      /\ Len(events) \in Nat /\ 1 \in 1..Len(events) /\ Len(events') = Len(events) - 1
      /\ \A i \in 1..Len(events') : i + 1 \in 1..Len(events) /\ events'[i] = events[i + 1]
      /\ listener = "idle"
  BY TakeIs
<1>a. turns \in Nat /\ turn \in {0, turns} /\ active <= turns
      /\ \A i \in 1..Len(events) : events[i].turn \in 1..turns
  BY DEF ByTurn, TurnFacts, TypeOK
<1>b. active' <= turns
  BY <1>0, <1>a
<1>c. \A i \in 1..Len(events') : events'[i].turn \in 1..turns
  BY <1>0, <1>a
<1>1. TurnFacts' /\ Ended'
  BY <1>0, <1>a, <1>b, <1>c DEF TurnFacts, Ended
<1>2. \A i \in 1..Len(events') : /\ Begins(i)' <=> Begins(i + 1)
                                 /\ Ends(i)' <=> Ends(i + 1)
                                 /\ Turnwise(events[i])' <=> Turnwise(events[i + 1])
  BY <1>0 DEF Begins, Ends, Turnwise
<1>3. \A k \in 2..Len(events) : Begins(k) => k - 1 \in 1..Len(events') /\ Begins(k - 1)'
  <2> SUFFICES ASSUME NEW k \in 2..Len(events), Begins(k)
               PROVE  k - 1 \in 1..Len(events') /\ Begins(k - 1)'
    OBVIOUS
  <2>1. k - 1 \in 1..Len(events') /\ (k - 1) + 1 = k
    BY <1>0
  <2> QED BY <1>2, <2>1
<1>4. \A j \in 1..Len(events') : Ends(j)' /\ active' = 0 => \E i \in 1..(j - 1) : Begins(i)'
  <2> SUFFICES ASSUME NEW j \in 1..Len(events'), Ends(j)', active' = 0
               PROVE  \E i \in 1..(j - 1) : Begins(i)'
    OBVIOUS
  <2>0. Ends(j + 1) /\ j + 1 \in 1..Len(events) /\ j \in Nat
    BY <1>0, <1>2
  <2>1. \E i \in 2..j : Begins(i)
    <3>1. CASE type = "TurnStarted"
      BY <1>0, <3>1 DEF ByTurn, TurnFacts
    <3>2. CASE type = "TurnCompleted"
      <4>1. Ends(1) /\ 1 < j + 1
        BY <1>0, <2>0, <3>2 DEF Ends
      <4>2. \A i, l \in 1..Len(events) :
              i < l /\ Ends(i) /\ Ends(l) => \E k \in (i + 1)..(l - 1) : Begins(k)
        BY DEF ByTurn, Opened
      <4>3. PICK k \in (1 + 1)..((j + 1) - 1) : Begins(k)
        BY <1>0, <2>0, <4>1, <4>2
      <4>4. k \in 2..j
        BY <2>0, <4>3
      <4> QED BY <4>3, <4>4
    <3>3. CASE type = "UserItem"
      <4>1. PICK i \in 1..((j + 1) - 1) : Begins(i)
        BY <1>0, <2>0, <3>3 DEF ByTurn, Opened
      <4>2. i # 1
        BY <1>0, <3>3, <4>1 DEF Begins
      <4> QED BY <2>0, <4>1, <4>2
    <3> QED BY <3>1, <3>2, <3>3
  <2>2. PICK i \in 2..j : Begins(i)
    BY <2>1
  <2>3. i \in 2..Len(events) /\ i - 1 \in 1..(j - 1)
    BY <2>0
  <2> QED BY <1>3, <2>2, <2>3
<1>5. \A i, j \in 1..Len(events') :
        i < j /\ Ends(i)' /\ Ends(j)' => \E k \in (i + 1)..(j - 1) : Begins(k)'
  <2> SUFFICES ASSUME NEW i \in 1..Len(events'), NEW j \in 1..Len(events'), i < j, Ends(i)', Ends(j)'
               PROVE  \E k \in (i + 1)..(j - 1) : Begins(k)'
    OBVIOUS
  <2>1. /\ Ends(i + 1) /\ Ends(j + 1) /\ i + 1 < j + 1 /\ i + 1 \in 1..Len(events)
        /\ j + 1 \in 1..Len(events)
    BY <1>0, <1>2
  <2>2. PICK k \in ((i + 1) + 1)..((j + 1) - 1) : Begins(k)
    BY <2>1 DEF ByTurn, Opened
  <2>3. k \in 2..Len(events) /\ k - 1 \in (i + 1)..(j - 1)
    BY <2>1
  <2> QED BY <1>3, <2>2, <2>3
<1>6. turn' # 0 /\ active' = 0 => \E i \in 1..Len(events') : Begins(i)'
  <2> SUFFICES ASSUME turn # 0, active' = 0 PROVE \E i \in 2..Len(events) : Begins(i)
    BY <1>3
  <2>1. CASE type = "TurnStarted"
    BY <1>0, <2>1 DEF ByTurn, TurnFacts
  <2>2. CASE type = "TurnCompleted"
    BY <1>0, <2>2 DEF ByTurn, Opened, Ends
  <2>3. CASE type = "UserItem"
    <3>1. PICK i \in 1..Len(events) : Begins(i)
      BY <2>3 DEF ByTurn, Opened
    <3>2. i # 1
      BY <1>0, <2>3, <3>1 DEF Begins
    <3> QED BY <3>1, <3>2
  <2> QED BY <2>1, <2>2, <2>3
<1>7. turn' # 0 => \A i \in 1..Len(events') : Ends(i)' => \E k \in (i + 1)..Len(events') : Begins(k)'
  <2> SUFFICES ASSUME turn # 0, NEW i \in 1..Len(events'), Ends(i)'
               PROVE  \E k \in (i + 1)..Len(events') : Begins(k)'
    OBVIOUS
  <2>1. Ends(i + 1) /\ i + 1 \in 1..Len(events)
    BY <1>0, <1>2
  <2>2. PICK k \in ((i + 1) + 1)..Len(events) : Begins(k)
    BY <2>1 DEF ByTurn, Opened
  <2>3. k \in 2..Len(events) /\ k - 1 \in (i + 1)..Len(events')
    BY <1>0, <2>1
  <2> QED BY <1>3, <2>2, <2>3
<1>8. Opened'
  BY <1>4, <1>5, <1>6, <1>7 DEF Opened
<1>9. Latest'
  <2>1. ASSUME active' = turn', turn' # 0, NEW i \in 1..Len(events')
        PROVE  ~Turnwise(events[i])'
    <3>1. CASE type = "TurnStarted"
      <4>1. Begins(1) /\ events[1].turn = turn /\ 1 < i + 1
        BY <1>0, <2>1, <3>1 DEF Begins
      <4>2. ~Turnwise(events[i + 1])
        BY <1>0, <2>1, <4>1 DEF ByTurn, Latest
      <4> QED BY <1>2, <4>2
    <3>2. CASE type = "TurnCompleted"
      BY <2>1, <3>2
    <3>3. CASE type = "UserItem"
      BY <1>0, <1>2, <2>1, <3>3 DEF ByTurn, Latest
    <3> QED BY <3>1, <3>2, <3>3
  <2>2. ASSUME turn' # 0, NEW i \in 1..Len(events'), NEW j \in 1..Len(events'),
               Begins(i)', events'[i].turn = turn', i < j
        PROVE  ~Turnwise(events[j])'
    <3>1. Begins(i + 1) /\ events[i + 1].turn = turn /\ i + 1 < j + 1
          /\ i + 1 \in 1..Len(events) /\ j + 1 \in 1..Len(events)
      BY <1>0, <1>2, <2>2
    <3>2. ~Turnwise(events[j + 1])
      BY <2>2, <3>1 DEF ByTurn, Latest
    <3> QED BY <1>2, <3>2
  <2> QED BY <2>1, <2>2 DEF Latest
<1>10. TapsInTurn'
  <2> SUFFICES ASSUME NEW k \in Taps, Tapped(k), tapped[k][2] # 0, tapped[k][2] = turn
               PROVE  active' = turn
    BY DEF ByTurn, TapsInTurn, Tapped
  <2>1. active = turn /\ turn # 0
    BY DEF ByTurn, TapsInTurn
  <2>2. ~Turnwise(events[1])
    BY <1>0, <2>1 DEF ByTurn, Latest
  <2> QED BY <1>0, <2>1, <2>2 DEF Turnwise
<1> QED BY <1>1, <1>8, <1>9, <1>10 DEF ByTurn

\* What the listener does with the turns it hears of.
LEMMA ListeningTurn ==
  ASSUME TypeOK, ByTurn, Listening
  PROVE  ByTurn'
<1>1. CASE SeeTurnStarted
  BY <1>1, TakeTurn DEF SeeTurnStarted, taps, server
<1>2. CASE SeeUserItem
  BY <1>2, TakeTurn DEF SeeUserItem, taps, server
<1>3. CASE SeeTurnCompleted
  BY <1>3, TakeTurn DEF SeeTurnCompleted, taps, server
<1>4. CASE SendNext \/ NextSent
  <2>0. UNCHANGED <<events, active, turn, turns, tap, tapped>> /\ (listener # "idle" => active = 0)
        /\ listener # "idle"
    BY <1>4 DEF ByTurn, Ended, SendNext, NextSent, store, taps, server
  <2>1. TurnFacts' /\ Ended'
    BY <2>0 DEF ByTurn, TurnFacts, Ended
  <2>2. Opened'
    BY <2>0 DEF ByTurn, Opened, Begins, Ends
  <2>3. Latest'
    BY <2>0 DEF ByTurn, Latest, Begins, Turnwise
  <2>4. TapsInTurn'
    BY <2>0 DEF ByTurn, TapsInTurn, Tapped
  <2> QED BY <2>1, <2>2, <2>3, <2>4 DEF ByTurn
<1> QED BY <1>1, <1>2, <1>3, <1>4 DEF Listening

\* The server begins a turn or goes on with the one it is in.
LEMMA TakenTurn ==
  ASSUME TypeOK, ByTurn, NEW a \in Actors, NEW es, NEW t, Taken(a, es, t)
  PROVE  ByTurn'
<1>0. /\ UNCHANGED <<active, listener, tap, tapped>> /\ turns \in Nat /\ active \in Nat
      /\ turn \in {0, turns} /\ active <= turns
      /\ \A i \in 1..Len(events) : events[i].turn \in 1..turns
  BY DEF Taken, Accept, store, taps, TypeOK, ByTurn, TurnFacts
<1>1. /\ Len(events) \in Nat /\ Len(events') \in Nat /\ Len(events') >= Len(events)
      /\ \A i \in 1..Len(events) : events'[i] = events[i]
      /\ \A i \in 1..Len(events') : i > Len(events) =>
           \/ events'[i] = Item(req[a].msg, t)
           \/ i = Len(events) + 1 /\ turn = 0 /\ events'[i] = Event("TurnStarted", t)
      /\ turn = 0 => Len(events) + 1 \in 1..Len(events')
                     /\ events'[Len(events) + 1] = Event("TurnStarted", t)
  BY TakenEvents
<1>2. \/ turn = 0 /\ turns' = turns + 1 /\ turn' = turns + 1 /\ t = turns + 1
      \/ turn # 0 /\ turn' = turn /\ turns' = turns /\ t = turn
  BY DEF Taken
<1>3. \A i \in 1..Len(events') : i > Len(events) =>
        /\ ~Ends(i)' /\ events'[i].turn = t
        /\ Begins(i)' => i = Len(events) + 1 /\ turn = 0
        /\ Turnwise(events[i])' => i = Len(events) + 1 /\ turn = 0
  BY <1>1 DEF Ends, Begins, Turnwise, Item, Event
<1>4. \A i \in 1..Len(events) : /\ Ends(i)' <=> Ends(i)
                                /\ Begins(i)' <=> Begins(i)
                                /\ Turnwise(events[i])' <=> Turnwise(events[i])
                                /\ i \in 1..Len(events')
  BY <1>1 DEF Ends, Begins, Turnwise
<1>5. \A i \in 1..Len(events') : Ends(i)' => i \in 1..Len(events) /\ Ends(i)
  BY <1>1, <1>3, <1>4
<1>6. TurnFacts' /\ Ended'
  <2>1. ASSUME NEW i \in 1..Len(events') PROVE events'[i].turn \in 1..turns'
    <3>1. CASE i \in 1..Len(events)
      BY <1>0, <1>1, <1>2, <3>1
    <3>2. CASE i \notin 1..Len(events)
      <4>1. events'[i].turn = t
        BY <1>1, <1>3, <3>2
      <4> QED BY <1>0, <1>2, <4>1
    <3> QED BY <3>1, <3>2
  <2> QED BY <1>0, <1>2, <2>1 DEF TurnFacts, Ended, ByTurn
<1>7. \A j \in 1..Len(events') : Ends(j)' /\ active' = 0 => \E i \in 1..(j - 1) : Begins(i)'
  <2> SUFFICES ASSUME NEW j \in 1..Len(events'), Ends(j)', active = 0
               PROVE  \E i \in 1..(j - 1) : Begins(i)'
    BY <1>0
  <2>1. PICK i \in 1..(j - 1) : Begins(i)
    BY <1>5 DEF ByTurn, Opened
  <2>2. i \in 1..Len(events)
    BY <1>1, <1>5
  <2> QED BY <1>4, <2>1, <2>2
<1>8. \A i, j \in 1..Len(events') :
        i < j /\ Ends(i)' /\ Ends(j)' => \E k \in (i + 1)..(j - 1) : Begins(k)'
  <2> SUFFICES ASSUME NEW i \in 1..Len(events'), NEW j \in 1..Len(events'), i < j, Ends(i)', Ends(j)'
               PROVE  \E k \in (i + 1)..(j - 1) : Begins(k)'
    OBVIOUS
  <2>1. PICK k \in (i + 1)..(j - 1) : Begins(k)
    BY <1>5 DEF ByTurn, Opened
  <2>2. k \in 1..Len(events)
    BY <1>1, <1>5
  <2> QED BY <1>4, <2>1, <2>2
<1>9. turn' # 0 /\ active' = 0 => \E i \in 1..Len(events') : Begins(i)'
  <2>1. CASE turn = 0
    <3>0. PICK n : n = Len(events) + 1
      OBVIOUS
    <3>1. Begins(n)' /\ n \in 1..Len(events')
      BY <1>1, <2>1, <3>0 DEF Begins, Event
    <3> QED BY <3>1
  <2>2. CASE turn # 0 /\ active = 0
    BY <1>4, <2>2 DEF ByTurn, Opened
  <2> QED BY <1>0, <2>1, <2>2
<1>10. turn' # 0 => \A i \in 1..Len(events') : Ends(i)' =>
                      \E k \in (i + 1)..Len(events') : Begins(k)'
  <2> SUFFICES ASSUME NEW i \in 1..Len(events'), Ends(i)'
               PROVE  \E k \in (i + 1)..Len(events') : Begins(k)'
    OBVIOUS
  <2>0. i \in 1..Len(events) /\ Ends(i)
    BY <1>5
  <2>1. CASE turn = 0
    <3>0. PICK n : n = Len(events) + 1
      OBVIOUS
    <3>1. Begins(n)' /\ n \in (i + 1)..Len(events')
      BY <1>1, <2>0, <2>1, <3>0 DEF Begins, Event
    <3> QED BY <3>1
  <2>2. CASE turn # 0
    <3>1. PICK k \in (i + 1)..Len(events) : Begins(k)
      BY <2>0, <2>2 DEF ByTurn, Opened
    <3>2. k \in 1..Len(events) /\ k \in (i + 1)..Len(events')
      BY <1>1, <2>0
    <3> QED BY <1>4, <3>1, <3>2
  <2> QED BY <2>1, <2>2
<1>11. Opened'
  BY <1>7, <1>8, <1>9, <1>10 DEF Opened
<1>12. Latest'
  <2>1. ASSUME active' = turn', turn' # 0, NEW i \in 1..Len(events')
        PROVE  ~Turnwise(events[i])'
    <3>1. turn # 0 /\ active = turn
      BY <1>0, <1>2, <2>1
    <3>2. CASE i \in 1..Len(events)
      BY <1>4, <3>1, <3>2 DEF ByTurn, Latest
    <3>3. CASE i \notin 1..Len(events)
      BY <1>1, <1>3, <3>1, <3>3
    <3> QED BY <3>2, <3>3
  <2>2. ASSUME turn' # 0, NEW i \in 1..Len(events'), NEW j \in 1..Len(events'),
               Begins(i)', events'[i].turn = turn', i < j
        PROVE  ~Turnwise(events[j])'
    <3>1. CASE j \in 1..Len(events)
      <4>1. i \in 1..Len(events) /\ Begins(i) /\ events[i].turn = turn' /\ events[i].turn \in 1..turns
        BY <1>0, <1>1, <1>4, <2>2, <3>1
      <4>2. turn # 0 /\ turn' = turn
        BY <1>0, <1>2, <4>1
      <4> QED BY <1>4, <2>2, <3>1, <4>1, <4>2 DEF ByTurn, Latest
    <3>2. CASE j \notin 1..Len(events)
      <4>1. CASE i \in 1..Len(events)
        <5>1. Begins(i) /\ events[i].turn = turn' /\ events[i].turn \in 1..turns
          BY <1>0, <1>1, <1>4, <2>2, <4>1
        <5>2. turn # 0
          BY <1>0, <1>2, <5>1
        <5> QED BY <1>1, <1>3, <3>2, <5>2
      <4>2. CASE i \notin 1..Len(events)
        BY <1>1, <1>3, <2>2, <3>2, <4>2
      <4> QED BY <4>1, <4>2
    <3> QED BY <3>1, <3>2
  <2> QED BY <2>1, <2>2 DEF Latest
<1>13. TapsInTurn'
  <2> SUFFICES ASSUME NEW k \in Taps, Tapped(k)
               PROVE  /\ tapped[k][2] <= turns'
                      /\ tapped[k][2] # 0 /\ tapped[k][2] = turn' => active = turn'
    BY <1>0 DEF TapsInTurn, Tapped
  <2>1. /\ tapped[k][2] <= turns /\ tapped[k][2] \in Nat
        /\ tapped[k][2] # 0 /\ tapped[k][2] = turn => active = turn
    BY DEF ByTurn, TapsInTurn, TypeOK, Tapped
  <2> QED BY <1>0, <1>2, <2>1
<1> QED BY <1>6, <1>11, <1>12, <1>13 DEF ByTurn

\* The end of a turn is told after all that was in it.
LEMMA CompletesTurn ==
  ASSUME TypeOK, ByTurn, ServerCompletes
  PROVE  ByTurn'
<1>0. /\ UNCHANGED <<active, listener, tap, tapped, turns>> /\ turns \in Nat /\ active \in Nat
      /\ turn = turns /\ turn # 0 /\ turn' = 0 /\ active <= turns
      /\ \A i \in 1..Len(events) : events[i].turn \in 1..turns
  BY DEF ServerCompletes, store, taps, TypeOK, ByTurn, TurnFacts
<1>1. /\ Len(events) \in Nat /\ Len(events') = Len(events) + 1
      /\ \A i \in 1..Len(events) : events'[i] = events[i]
      /\ events'[Len(events) + 1] = Event("TurnCompleted", turn)
  BY CompletesIs
<1>2. \A i \in 1..Len(events) : /\ Ends(i)' <=> Ends(i)
                                /\ Begins(i)' <=> Begins(i)
                                /\ i \in 1..Len(events')
  BY <1>1 DEF Ends, Begins
<1>3. \A i \in 1..Len(events') : i \in 1..Len(events) \/ i = Len(events) + 1
  BY <1>1
<1>4. TurnFacts' /\ Ended'
  <2>1. ASSUME NEW i \in 1..Len(events') PROVE events'[i].turn \in 1..turns
    <3>1. CASE i \in 1..Len(events)
      BY <1>0, <1>1, <3>1
    <3>2. CASE i = Len(events) + 1
      BY <1>0, <1>1, <3>2 DEF Event
    <3> QED BY <1>3, <3>1, <3>2
  <2> QED BY <1>0, <2>1 DEF TurnFacts, Ended, ByTurn
<1>5. \A j \in 1..Len(events') : Ends(j)' /\ active' = 0 => \E i \in 1..(j - 1) : Begins(i)'
  <2> SUFFICES ASSUME NEW j \in 1..Len(events'), Ends(j)', active = 0
               PROVE  \E i \in 1..(j - 1) : Begins(i)'
    BY <1>0
  <2>1. PICK i \in 1..Len(events) : Begins(i) /\ i \in 1..(j - 1)
    <3>1. CASE j \in 1..Len(events)
      <4>1. PICK i \in 1..(j - 1) : Begins(i)
        BY <1>2, <3>1 DEF ByTurn, Opened
      <4> QED BY <1>1, <3>1, <4>1
    <3>2. CASE j = Len(events) + 1
      <4>1. PICK i \in 1..Len(events) : Begins(i)
        BY <1>0 DEF ByTurn, Opened
      <4> QED BY <1>1, <3>2, <4>1
    <3> QED BY <1>3, <3>1, <3>2
  <2> QED BY <1>2, <2>1
<1>6. \A i, j \in 1..Len(events') :
        i < j /\ Ends(i)' /\ Ends(j)' => \E k \in (i + 1)..(j - 1) : Begins(k)'
  <2> SUFFICES ASSUME NEW i \in 1..Len(events'), NEW j \in 1..Len(events'), i < j, Ends(i)', Ends(j)'
               PROVE  \E k \in (i + 1)..(j - 1) : Begins(k)'
    OBVIOUS
  <2>0. i \in 1..Len(events) /\ Ends(i)
    BY <1>1, <1>2
  <2>1. PICK k \in 1..Len(events) : Begins(k) /\ k \in (i + 1)..(j - 1)
    <3>1. CASE j \in 1..Len(events)
      <4>1. PICK k \in (i + 1)..(j - 1) : Begins(k)
        BY <1>2, <2>0, <3>1 DEF ByTurn, Opened
      <4> QED BY <1>1, <3>1, <4>1
    <3>2. CASE j = Len(events) + 1
      <4>1. PICK k \in (i + 1)..Len(events) : Begins(k)
        BY <1>0, <2>0 DEF ByTurn, Opened
      <4> QED BY <1>1, <3>2, <4>1
    <3> QED BY <1>3, <3>1, <3>2
  <2> QED BY <1>2, <2>1
<1>7. Opened' /\ Latest'
  BY <1>0, <1>5, <1>6 DEF Opened, Latest
<1>8. TapsInTurn'
  BY <1>0 DEF ByTurn, TapsInTurn, Tapped
<1> QED BY <1>4, <1>7, <1>8 DEF ByTurn

\* Every step keeps what is known of turns.
LEMMA NextByTurn == TypeOK /\ ByTurn /\ [Next]_vars => ByTurn'
<1> SUFFICES ASSUME TypeOK, ByTurn, [Next]_vars PROVE ByTurn'
  OBVIOUS
<1>1. ASSUME NEW m \in Messages, ReadThread(m) \/ Starting(m) PROVE ByTurn'
  <2>1. UNCHANGED <<events, active, turn, turns, listener, taps>>
    BY <1>1 DEF ReadThread, Starting, StartDirectly, Enqueue, SteerDirectly, SteerReturns,
                StartReturns, store, server
  <2> QED BY <2>1, TurnsRest DEF Tapped, taps
<1>2. ASSUME NEW k \in Taps, Tapping(k) PROVE ByTurn'
  <2>1. UNCHANGED <<events, active, turn, turns, listener, tapped>>
    BY <1>2 DEF Tapping, TapBegins, TapReturns, store, server
  <2>2. Tapped(k) /\ \E l \in {"steering", "done"} : tap' = [tap EXCEPT ![k] = l]
    BY <1>2 DEF Tapping, TapBegins, TapReturns, Tapped
  <2> QED BY <2>1, <2>2, TurnsRest DEF Tapped, TypeOK
<1>3. ASSUME NEW k \in Taps, NEW m \in Messages, TapReads(k, m) PROVE ByTurn'
  BY <1>3, TapReadsTurn
<1>4. ASSUME DeleteWrites \/ \E m \in Messages : DeleteReads(m) PROVE ByTurn'
  <2>1. UNCHANGED <<events, active, turn, turns, listener, taps>>
    BY <1>4 DEF DeleteWrites, DeleteReads, store, server
  <2> QED BY <2>1, TurnsRest DEF Tapped, taps
<1>5. ASSUME NEW a \in Actors, Serving(a) PROVE ByTurn'
  <2>1. CASE Refused(a)
    <3>1. UNCHANGED <<events, active, turn, turns, listener, taps>>
      BY <2>1 DEF Refused, store, server
    <3> QED BY <3>1, TurnsRest DEF Tapped, taps
  <2> QED BY <1>5, <2>1, ServingIs, TakenTurn
<1>6. CASE UNCHANGED vars
  BY <1>6, TurnsRest DEF vars, store, server, taps, Tapped
<1> QED
  BY <1>1, <1>2, <1>3, <1>4, <1>5, <1>6, ListeningTurn, CompletesTurn DEF Next

-----------------------------------------------------------------------------
(* Where a message can be *)

\* No element of s is of m.
Missing(m, s) == \A i \in 1..Len(s) : s[i].msg # m

\* A request is of m.
Asked(m) == \E a \in Actors : req[a] # NoRequest /\ req[a].msg = m

\* A message that start_turn has not decided about is nowhere yet.
Nowhere(m) ==
  /\ m \notin items /\ Missing(m, drafts) /\ Missing(m, next_drafts)
  /\ ~Asked(m)
  /\ \A k \in Taps : Tapped(k) => tapped[k][1] # m
  /\ \A i \in 1..Len(events) : m \notin events[i].msg
  /\ runs[m] = 0

\* A call that has not decided has left nothing.
Fresh(m) == call[m] \in {"idle", "read"} => Nowhere(m)

\* What is retained has nothing new.
LEMMA NoneKept ==
  ASSUME NEW s \in Seq(Drafts), NEW m, Missing(m, s), NEW K
  PROVE  Missing(m, Retain(s, K))
<1> DEFINE r == Retain(s, K)
<1>1. PICK f \in [1..Len(r) -> 1..Len(s)] : \A j \in 1..Len(r) : r[j] = s[f[j]] /\ r[j] \in K
  BY RetainEmbeds
<1>2. \A j \in 1..Len(r) : f[j] \in 1..Len(s)
  OBVIOUS
<1> HIDE DEF r
<1>3. Missing(m, r)
  BY <1>1, <1>2 DEF Missing
<1> QED BY <1>3 DEF r

\* A request for one message is none for another.
LEMMA SendAsks ==
  ASSUME TypeOK, NEW a \in Actors, NEW op \in {"start", "steer"}, NEW n \in Messages, NEW t \in Nat,
         Send(a, op, n, t), NEW m, ~Asked(m), n # m
  PROVE  ~Asked(m)'
<1> SUFFICES ASSUME NEW b \in Actors, req'[b] # NoRequest PROVE req'[b].msg # m
  BY DEF Asked
<1>1. CASE b = a
  <2>1. req'[a] = Request(op, n, t)
    BY SendTypes
  <2>2. Request(op, n, t).msg = n
    BY DEF Request
  <2> QED BY <1>1, <2>1, <2>2
<1>2. CASE b # a
  <2>1. req'[b] = req[b]
    BY <1>2, SendTypes
  <2> QED BY <2>1 DEF Asked
<1> QED BY <1>1, <1>2

\* Another call leaves a message that is nowhere alone.
LEMMA NowhereStarting ==
  ASSUME TypeOK, NEW n \in Messages, ReadThread(n) \/ Starting(n),
         NEW m \in Messages, Fresh(m), call'[m] \in {"idle", "read"}
  PROVE  Nowhere(m)'
<1>0. n \in Actors
  BY Casting
<1>1. call[m] \in {"idle", "read"} /\ Nowhere(m) /\ UNCHANGED <<items, next_drafts, tap, tapped, events, runs>>
      /\ (m = n => ReadThread(n))
  BY DEF Fresh, ReadThread, Starting, StartDirectly, Enqueue, SteerDirectly, SteerReturns,
         StartReturns, store, server, taps, deleting, TypeOK
<1>2. Missing(m, drafts)'
  <2>1. CASE UNCHANGED drafts
    BY <1>1, <2>1 DEF Nowhere, Missing
  <2>2. CASE Enqueue(n)
    <3>1. m # n /\ drafts \in Seq(Drafts)
      BY <1>1, <2>2 DEF Enqueue, ReadThread, TypeOK
    <3>2. [msg |-> n, kind |-> "Message"] \in Drafts
      BY DEF Drafts
    <3> QED
      BY <1>1, <2>2, <3>1, <3>2 DEF Enqueue, Nowhere, Missing
  <2> QED
    BY <2>1, <2>2 DEF ReadThread, Starting, StartDirectly, SteerDirectly, SteerReturns,
                      StartReturns, store
<1>3. ~Asked(m)'
  <2>0. ~Asked(m)
    BY <1>1 DEF Nowhere
  <2>1. CASE UNCHANGED req
    BY <2>0, <2>1 DEF Asked
  <2>2. CASE Clear(n)
    BY <1>0, <2>0, <2>2, ClearTypes DEF Asked
  <2>3. ASSUME NEW op \in {"start", "steer"}, NEW t \in Nat, Send(n, op, n, t), m # n
        PROVE  ~Asked(m)'
    BY <1>0, <2>0, <2>3, SendAsks
  <2>4. ReadThread(n) \/ m # n
    BY <1>1
  <2>5. seen[n] \in Nat
    BY DEF TypeOK
  <2> QED
    BY <2>1, <2>2, <2>3, <2>4, <2>5
    DEF ReadThread, Starting, StartDirectly, Enqueue, SteerDirectly, SteerReturns, StartReturns
<1> QED
  BY <1>1, <1>2, <1>3 DEF Nowhere, Tapped

\* So does a tap,
LEMMA NowhereTapping ==
  ASSUME TypeOK, NEW k \in Taps, Tapping(k) \/ \E n \in Messages : TapReads(k, n),
         NEW m \in Messages, Nowhere(m)
  PROVE  Nowhere(m)'
<1>0. k \in Actors
  BY Casting
<1>1. UNCHANGED <<items, next_drafts, events, runs>>
  BY DEF Tapping, TapBegins, TapReturns, TapReads, store, server, deleting
<1>2. Missing(m, drafts)'
  <2>1. CASE UNCHANGED drafts
    BY <2>1 DEF Nowhere, Missing
  <2>2. CASE MayBegin(tapped[k][1]) /\
             drafts' = [drafts EXCEPT ![Position(tapped[k][1])].kind = "PendingSteer"]
    <3>1. Len(drafts') = Len(drafts) /\ \A i \in 1..Len(drafts) : drafts'[i].msg = drafts[i].msg
      BY <2>2, MarkIs DEF MayBegin
    <3> QED BY <3>1 DEF Nowhere, Missing
  <2> QED
    BY <2>1, <2>2 DEF Tapping, TapBegins, TapReturns, TapReads, store
<1>3. \A l \in Taps : Tapped(l)' => tapped'[l][1] # m
  <2>1. ASSUME NEW n \in Messages, TapReads(k, n) PROVE \A l \in Taps : Tapped(l)' => tapped'[l][1] # m
    <3>1. n # m
      BY <2>1 DEF TapReads, Queued, Nowhere, Missing
    <3>2. tap' = [tap EXCEPT ![k] = "read"] /\ tapped' = [tapped EXCEPT ![k] = <<n, active>>]
      BY <2>1 DEF TapReads
    <3> QED BY <3>1, <3>2 DEF Nowhere, Tapped, TypeOK
  <2>2. CASE Tapping(k)
    <3>1. Tapped(k) /\ UNCHANGED tapped /\ \E l \in {"steering", "done"} : tap' = [tap EXCEPT ![k] = l]
      BY <2>2 DEF Tapping, TapBegins, TapReturns, Tapped
    <3> QED BY <3>1 DEF Nowhere, Tapped, TypeOK
  <2> QED BY <2>1, <2>2
<1>4. ~Asked(m)'
  <2>0. ~Asked(m)
    BY DEF Nowhere
  <2>1. CASE UNCHANGED req
    BY <2>0, <2>1 DEF Asked
  <2>2. CASE Clear(k)
    BY <1>0, <2>0, <2>2, ClearTypes DEF Asked
  <2>3. CASE tap[k] = "read" /\ Send(k, "steer", tapped[k][1], tapped[k][2])
    <3>1. tapped[k][1] \in Messages /\ tapped[k][2] \in Nat /\ tapped[k][1] # m
      BY <2>3 DEF TypeOK, Nowhere, Tapped
    <3> QED BY <1>0, <2>0, <2>3, <3>1, SendAsks
  <2> QED
    BY <2>1, <2>2, <2>3 DEF Tapping, TapBegins, TapReturns, TapReads
<1> QED BY <1>1, <1>2, <1>3, <1>4 DEF Nowhere

\* a deletion,
LEMMA NowhereDeleting ==
  ASSUME TypeOK, DeleteWrites \/ \E n \in Messages : DeleteReads(n),
         NEW m \in Messages, Nowhere(m)
  PROVE  Nowhere(m)'
<1>1. UNCHANGED <<items, events, runs, tap, tapped, req>>
  BY DEF DeleteWrites, DeleteReads, store, server, taps
<1>2. drafts \in Seq(Drafts) /\ Missing(m, drafts) /\ Missing(m, next_drafts)
  BY DEF TypeOK, Nowhere
<1>3. Missing(m, drafts)' /\ Missing(m, next_drafts)'
  <2>1. CASE DeleteWrites
    BY <1>2, <2>1 DEF DeleteWrites, Missing
  <2>2. ASSUME NEW n \in Messages, DeleteReads(n) PROVE Missing(m, drafts)' /\ Missing(m, next_drafts)'
    <3>1. PICK r : r = Retain(drafts, {d \in Drafts : d.msg # n})
      OBVIOUS
    <3>2. Missing(m, r)
      BY <1>2, <3>1, NoneKept
    <3>3. UNCHANGED drafts /\ next_drafts' = r
      BY <2>2, <3>1 DEF DeleteReads, store
    <3> QED BY <1>2, <3>2, <3>3 DEF Missing
  <2> QED BY <2>1, <2>2
<1> QED BY <1>1, <1>3 DEF Nowhere, Tapped, Asked

\* the listener
LEMMA NowhereListening ==
  ASSUME TypeOK, Listening, NEW m \in Messages, Nowhere(m)
  PROVE  Nowhere(m)'
<1>0. UNCHANGED <<next_drafts, runs, tap, tapped>> /\ Listener \in Actors
  BY Casting DEF Listening, SeeTurnStarted, SeeUserItem, SeeTurnCompleted, SendNext, NextSent,
                 server, deleting, taps
<1>1. ASSUME NEW type, Take(type) PROVE \A i \in 1..Len(events') : m \notin events'[i].msg
  <2>1. Len(events) \in Nat /\ Len(events') = Len(events) - 1
        /\ \A i \in 1..Len(events') : events'[i] = events[i + 1]
    BY <1>1, TakeIs
  <2>2. \A i \in 1..Len(events') : i + 1 \in 1..Len(events)
    BY <2>1
  <2> QED BY <2>1, <2>2 DEF Nowhere
<1>2. \A i \in 1..Len(events') : m \notin events'[i].msg
  <2>1. CASE UNCHANGED events
    BY <2>1 DEF Nowhere
  <2> QED
    BY <1>1, <2>1 DEF Listening, SeeTurnStarted, SeeUserItem, SeeTurnCompleted, SendNext, NextSent
<1>3. m \notin items'
  <2>1. CASE UNCHANGED items
    BY <2>1 DEF Nowhere
  <2>2. CASE SeeUserItem
    <3>1. PICK n \in Messages : Head(events).msg = {n} /\ items' = items \cup {n}
      BY <2>2, ItemIs
    <3>2. Take("UserItem")
      BY <2>2 DEF SeeUserItem
    <3>3. Head(events) = events[1] /\ 1 \in 1..Len(events)
      BY <3>2, TakeIs
    <3> QED BY <3>1, <3>3 DEF Nowhere
  <2> QED
    BY <2>1, <2>2 DEF Listening, SeeTurnStarted, SeeTurnCompleted, SendNext, NextSent, store
<1>4. Missing(m, drafts)'
  <2>1. CASE UNCHANGED drafts
    BY <2>1 DEF Nowhere, Missing
  <2>2. CASE drafts' = DropFirst(drafts)
    <3>0. drafts \in Seq(Drafts) /\ Len(drafts) \in Nat
      BY DEF TypeOK
    <3>1. CASE drafts = <<>>
      BY <2>2, <3>1 DEF DropFirst, Nowhere, Missing
    <3>2. CASE drafts # <<>>
      <4>1. Len(drafts') = Len(drafts) - 1 /\ \A i \in 1..Len(drafts') : drafts'[i] = drafts[i + 1]
        BY <2>2, <3>2, DropIs
      <4>2. \A i \in 1..Len(drafts') : i + 1 \in 1..Len(drafts)
        BY <3>0, <4>1
      <4> QED BY <4>1, <4>2 DEF Nowhere, Missing
    <3> QED BY <3>1, <3>2
  <2>3. CASE SeeTurnCompleted
    <3>0. drafts \in Seq(Drafts) /\ Missing(m, drafts)
      BY DEF TypeOK, Nowhere
    <3>1. PICK r : r = Retain(drafts, {d \in Drafts : d.kind # "PendingSteer"})
      OBVIOUS
    <3>2. Missing(m, r)
      BY <3>0, <3>1, NoneKept
    <3>3. drafts' = r
      BY <2>3, <3>1 DEF SeeTurnCompleted
    <3> QED BY <3>2, <3>3 DEF Missing
  <2> QED
    BY <2>1, <2>2, <2>3 DEF Listening, SeeTurnStarted, SeeUserItem, SendNext, NextSent, store
<1>5. ~Asked(m)'
  <2>0. ~Asked(m)
    BY DEF Nowhere
  <2>1. CASE UNCHANGED req
    BY <2>0, <2>1 DEF Asked
  <2>2. CASE Clear(Listener)
    BY <1>0, <2>0, <2>2, ClearTypes DEF Asked
  <2>3. CASE drafts # <<>> /\ Send(Listener, "start", Head(drafts).msg, 0)
    <3>1. drafts \in Seq(Drafts) /\ 1 \in 1..Len(drafts) /\ Head(drafts) = drafts[1]
      BY <2>3 DEF TypeOK
    <3>2. Head(drafts).msg \in Messages /\ Head(drafts).msg # m
      BY <3>1, DraftIs DEF Nowhere, Missing
    <3> QED BY <1>0, <2>0, <2>3, <3>2, SendAsks
  <2> QED
    BY <2>1, <2>2, <2>3
    DEF Listening, SeeTurnStarted, SeeUserItem, SeeTurnCompleted, SendNext, NextSent, MaySend
<1> QED BY <1>0, <1>2, <1>3, <1>4, <1>5 DEF Nowhere, Tapped

\* and the server.
LEMMA NowhereServing ==
  ASSUME TypeOK, (\E a \in Actors : Serving(a)) \/ ServerCompletes, NEW m \in Messages, Nowhere(m)
  PROVE  Nowhere(m)'
<1>1. UNCHANGED <<items, drafts, next_drafts, tap, tapped>>
  BY DEF Serving, ServerBegins, ServerAdds, ServerRefuses, Accept, ServerCompletes, store, taps,
         deleting
<1>2. ASSUME NEW a \in Actors, NEW es, NEW t, Taken(a, es, t) PROVE Nowhere(m)'
  <2>0. Waiting(a) /\ Accept(a, t) /\ t \in Nat
    BY <1>2 DEF Taken
  <2>1. /\ req[a].msg \in Messages /\ runs' = [runs EXCEPT ![req[a].msg] = @ + 1]
        /\ \E r \in {"ok", "error"} : Result(a, r, t)
    BY <2>0, AcceptIs
  <2>2. req[a].msg # m
    BY <2>0 DEF Nowhere, Asked, Waiting
  <2>3. runs'[m] = 0
    BY <2>1, <2>2 DEF Nowhere, TypeOK
  <2>4. ~Asked(m)'
    BY <2>0, <2>1, <2>2, ResultTypes DEF Nowhere, Asked
  <2>5. ASSUME NEW i \in 1..Len(events') PROVE m \notin events'[i].msg
    <3>1. CASE i \in 1..Len(events)
      BY <1>2, <3>1, TakenEvents DEF Nowhere
    <3>2. CASE i \notin 1..Len(events)
      <4>1. i > Len(events)
        BY <1>2, <3>2, TakenEvents
      <4>2. events'[i] = Item(req[a].msg, t) \/ events'[i] = Event("TurnStarted", t)
        BY <1>2, <4>1, TakenEvents
      <4> QED BY <2>2, <4>2 DEF Item, Event
    <3> QED BY <3>1, <3>2
  <2> QED BY <1>1, <2>3, <2>4, <2>5 DEF Nowhere, Missing, Tapped
<1>3. ASSUME NEW a \in Actors, Refused(a) PROVE Nowhere(m)'
  <2>1. UNCHANGED <<events, runs>>
    BY <1>3 DEF Refused, server
  <2>2. req[a].msg # m
    BY <1>3 DEF Nowhere, Asked, Waiting, Refused
  <2>3. ~Asked(m)'
    BY <1>3, <2>2, ResultTypes DEF Nowhere, Asked, Refused
  <2> QED BY <1>1, <2>1, <2>3 DEF Nowhere, Missing, Tapped
<1>4. CASE ServerCompletes
  <2>1. ASSUME NEW i \in 1..Len(events') PROVE m \notin events'[i].msg
    <3>1. CASE i \in 1..Len(events)
      BY <1>4, <3>1, CompletesIs DEF Nowhere
    <3>2. CASE i \notin 1..Len(events)
      <4>1. i = Len(events) + 1
        BY <1>4, <3>2, CompletesIs
      <4> QED BY <1>4, <4>1, CompletesIs DEF Event
    <3> QED BY <3>1, <3>2
  <2>2. UNCHANGED <<req, runs>>
    BY <1>4 DEF ServerCompletes
  <2> QED BY <1>1, <2>1, <2>2 DEF Nowhere, Missing, Tapped, Asked
<1> QED BY <1>2, <1>3, <1>4, ServingIs

\* Nothing is anywhere before its call has put it there.
FreshInv == \A m \in Messages : Fresh(m)

\* In the beginning nothing is anywhere.
LEMMA InitFresh == Init => FreshInv
BY DEF Init, FreshInv, Fresh, Nowhere, Missing, Tapped, Asked

\* Every step leaves what is undecided nowhere.
LEMMA NextFresh == TypeOK /\ FreshInv /\ [Next]_vars => FreshInv'
<1> SUFFICES ASSUME TypeOK, FreshInv, [Next]_vars, NEW m \in Messages,
                    call'[m] \in {"idle", "read"}
             PROVE  Nowhere(m)'
  BY DEF FreshInv, Fresh
<1>0. Fresh(m)
  BY DEF FreshInv
<1>1. ASSUME NEW n \in Messages, ReadThread(n) \/ Starting(n) PROVE Nowhere(m)'
  BY <1>0, <1>1, NowhereStarting
<1>2. ASSUME UNCHANGED call PROVE Nowhere(m)
  BY <1>0, <1>2 DEF Fresh
<1>3. CASE UNCHANGED vars
  <2>1. Nowhere(m)
    BY <1>2, <1>3 DEF vars, calls
  <2> QED BY <1>3, <2>1 DEF vars, store, deleting, taps, server, Nowhere, Missing, Tapped, Asked
<1>4. ASSUME NEW k \in Taps, Tapping(k) \/ \E n \in Messages : TapReads(k, n) PROVE Nowhere(m)'
  <2>1. UNCHANGED call
    BY <1>4 DEF Tapping, TapBegins, TapReturns, TapReads, calls
  <2> QED BY <1>2, <1>4, <2>1, NowhereTapping
<1>5. ASSUME DeleteWrites \/ \E n \in Messages : DeleteReads(n) PROVE Nowhere(m)'
  <2>1. UNCHANGED call
    BY <1>5 DEF DeleteWrites, DeleteReads, calls
  <2> QED BY <1>2, <1>5, <2>1, NowhereDeleting
<1>6. ASSUME Listening PROVE Nowhere(m)'
  <2>1. UNCHANGED call
    BY <1>6 DEF Listening, SeeTurnStarted, SeeUserItem, SeeTurnCompleted, SendNext, NextSent, calls
  <2> QED BY <1>2, <1>6, <2>1, NowhereListening
<1>7. ASSUME (\E a \in Actors : Serving(a)) \/ ServerCompletes PROVE Nowhere(m)'
  <2>1. UNCHANGED call
    BY <1>7 DEF Serving, ServerBegins, ServerAdds, ServerRefuses, Accept, ServerCompletes, calls
  <2> QED BY <1>2, <1>7, <2>1, NowhereServing
<1> QED
  BY <1>1, <1>3, <1>4, <1>5, <1>6, <1>7 DEF Next

-----------------------------------------------------------------------------
(* Bubbles *)

\* What the overlays are made of.
LEMMA BubbleIs ==
  ASSUME TypeOK, NEW i \in 1..Len(overlays)
  PROVE  overlays[i] \in Messages \X Nat
<1>1. overlays \in Seq(Messages \X Nat)
  BY DEF TypeOK
<1> QED BY <1>1, ElementOfSeq

\* What leaves no bubble of m keeps the others.
LEMMA WithoutIs ==
  ASSUME TypeOK, NEW m \in Messages, overlays' = Without(m)
  PROVE  \A i \in 1..Len(overlays') :
           overlays'[i][1] # m /\ \E j \in 1..Len(overlays) : overlays[j] = overlays'[i]
<1> DEFINE T == Messages \X Nat
           K == (Messages \ {m}) \X Nat
<1>1. overlays \in Seq(T)
  BY DEF TypeOK
<1>3. overlays' = Retain(overlays, K)
  BY DEF Without
<1> HIDE DEF T, K
<1>2. PICK f \in [1..Len(Retain(overlays, K)) -> 1..Len(overlays)] :
        \A j \in 1..Len(Retain(overlays, K)) :
          Retain(overlays, K)[j] = overlays[f[j]] /\ Retain(overlays, K)[j] \in K
  BY <1>1, RetainEmbeds
<1>4. ASSUME NEW i \in 1..Len(overlays') PROVE overlays'[i] \in K /\ overlays'[i] = overlays[f[i]]
                                                /\ f[i] \in 1..Len(overlays)
  BY <1>2, <1>3
<1> QED BY <1>4 DEF K

\* In the beginning there is neither overlay nor item.
LEMMA InitBubbles == Init => NoDoubleBubble
BY DEF Init, NoDoubleBubble

\* No step shows a message twice: it was nowhere when its own call began.
LEMMA NextBubbles == TypeOK /\ FreshInv /\ NoDoubleBubble /\ [Next]_vars => NoDoubleBubble'
<1> SUFFICES ASSUME TypeOK, FreshInv, NoDoubleBubble, [Next]_vars PROVE NoDoubleBubble'
  OBVIOUS
<1>1. CASE UNCHANGED <<overlays, items>>
  BY <1>1 DEF NoDoubleBubble
<1>2. ASSUME NEW m \in Messages, StartDirectly(m) PROVE NoDoubleBubble'
  <2>1. m \notin items
    BY <1>2 DEF StartDirectly, FreshInv, Fresh, Nowhere
  <2>2. overlays \in Seq(Messages \X Nat) /\ <<m, 0>> \in Messages \X Nat
    BY DEF TypeOK
  <2>3. overlays' = overlays \/ overlays' = Append(overlays, <<m, 0>>)
    BY <1>2 DEF StartDirectly
  <2>4. UNCHANGED items
    BY <1>2 DEF StartDirectly
  <2>5. CASE overlays' = Append(overlays, <<m, 0>>)
    <3>1. Len(overlays') = Len(overlays) + 1 /\ overlays'[Len(overlays) + 1] = <<m, 0>>
          /\ \A i \in 1..Len(overlays) : overlays'[i] = overlays[i]
      BY <2>2, <2>5
    <3>2. ASSUME NEW i \in 1..Len(overlays') PROVE overlays'[i][1] \notin items
      <4>1. CASE i \in 1..Len(overlays)
        BY <3>1, <4>1 DEF NoDoubleBubble
      <4>2. CASE i = Len(overlays) + 1
        BY <2>1, <3>1, <4>2
      <4> QED BY <2>2, <3>1, <4>1, <4>2
    <3> QED BY <2>4, <3>2 DEF NoDoubleBubble
  <2> QED BY <1>1, <2>3, <2>4, <2>5
<1>3. ASSUME NEW m \in Messages, StartReturns(m) PROVE NoDoubleBubble'
  <2>1. UNCHANGED items
    BY <1>3 DEF StartReturns
  <2>2. CASE overlays' = Without(m)
    BY <2>1, <2>2, WithoutIs DEF NoDoubleBubble
  <2>3. CASE overlays' = BindTo(m, req[m].turn)
    <3>1. Len(overlays') = Len(overlays)
          /\ \A i \in 1..Len(overlays) : overlays'[i][1] = overlays[i][1]
      <4>1. overlays \in Seq(Messages \X Nat)
        BY DEF TypeOK
      <4> QED BY <2>3, <4>1 DEF BindTo
    <3> QED BY <2>1, <3>1 DEF NoDoubleBubble
  <2> QED BY <1>3, <2>2, <2>3 DEF StartReturns
<1>4. CASE SeeTurnStarted
  <2>1. overlays' = BindFirst(Head(events).turn) /\ UNCHANGED items /\ Take("TurnStarted")
    BY <1>4 DEF SeeTurnStarted
  <2>2. Head(events).turn \in Nat
    <3>1. Head(events) \in Events
      BY <2>1, TakeIs
    <3> QED BY <3>1 DEF Events
  <2>3. Len(overlays') = Len(overlays)
        /\ \A i \in 1..Len(overlays) : overlays'[i][1] = overlays[i][1]
    BY <2>1, <2>2, BindFirstIs
  <2> QED BY <2>1, <2>3 DEF NoDoubleBubble
<1>5. CASE SeeUserItem
  <2>1. PICK m \in Messages : Head(events).msg = {m} /\ items' = items \cup {m}
                              /\ overlays' = Without(m)
    BY <1>5, ItemIs DEF Supersede
  <2> QED BY <2>1, WithoutIs DEF NoDoubleBubble
<1>6. ASSUME NEW m \in Messages,
             ReadThread(m) \/ Enqueue(m) \/ SteerDirectly(m) \/ SteerReturns(m)
      PROVE  NoDoubleBubble'
  BY <1>1, <1>6 DEF ReadThread, Enqueue, SteerDirectly, SteerReturns, store
<1>7. ASSUME NEW k \in Taps, Tapping(k) \/ \E m \in Messages : TapReads(k, m)
      PROVE  NoDoubleBubble'
  BY <1>1, <1>7 DEF Tapping, TapBegins, TapReturns, TapReads, store
<1>8. CASE DeleteWrites \/ \E m \in Messages : DeleteReads(m)
  BY <1>1, <1>8 DEF DeleteWrites, DeleteReads, store
<1>9. CASE SeeTurnCompleted \/ SendNext \/ NextSent
  BY <1>1, <1>9 DEF SeeTurnCompleted, SendNext, NextSent, store
<1>10. CASE (\E a \in Actors : Serving(a)) \/ ServerCompletes
  BY <1>1, <1>10 DEF Serving, ServerBegins, ServerAdds, ServerRefuses, Accept, ServerCompletes, store
<1>11. CASE UNCHANGED vars
  BY <1>1, <1>11 DEF vars, store
<1> QED
  BY <1>2, <1>3, <1>4, <1>5, <1>6, <1>7, <1>8, <1>9, <1>10, <1>11 DEF Next, Starting, Listening

-----------------------------------------------------------------------------
(* The queue *)

\* No message is in s twice; every draft of m in s is a steer on its way.
Distinct(s) == \A i, j \in 1..Len(s) : s[i].msg = s[j].msg => i = j
Marked(m, s) == \A i \in 1..Len(s) : s[i].msg = m => s[i].kind = "PendingSteer"

\* What r and s share is in the same order in both.
InOrder(r, s) ==
  \A i, j \in 1..Len(r) : \A a, b \in 1..Len(s) :
    i < j /\ s[a].msg = r[i].msg /\ s[b].msg = r[j].msg => a < b

\* r is what is left of s, perhaps marked since.
Embeds(r, s) ==
  \E f \in [1..Len(r) -> 1..Len(s)] :
    /\ \A i, j \in 1..Len(r) : i < j => f[i] < f[j]
    /\ \A j \in 1..Len(r) : /\ r[j].msg = s[f[j]].msg
                            /\ r[j].kind = s[f[j]].kind \/ r[j].kind = "PendingSteer"

\* What is left of a queue has what the queue had.
LEMMA EmbedsKeeps ==
  ASSUME NEW s \in Seq(Drafts), NEW r \in Seq(Drafts), Embeds(r, s)
  PROVE  /\ Distinct(s) => Distinct(r)
         /\ \A m : Missing(m, s) => Missing(m, r)
         /\ \A m : Marked(m, s) => Marked(m, r)
         /\ \A q \in Seq(Drafts) : InOrder(q, s) => InOrder(q, r)
<1>0. Len(s) \in Nat /\ Len(r) \in Nat
  OBVIOUS
<1>1. PICK f \in [1..Len(r) -> 1..Len(s)] :
        /\ \A i, j \in 1..Len(r) : i < j => f[i] < f[j]
        /\ \A j \in 1..Len(r) : /\ r[j].msg = s[f[j]].msg
                                /\ r[j].kind = s[f[j]].kind \/ r[j].kind = "PendingSteer"
  BY DEF Embeds
<1>2. \A j \in 1..Len(r) : f[j] \in 1..Len(s)
  OBVIOUS
<1>3. ASSUME NEW i \in 1..Len(r), NEW j \in 1..Len(r) PROVE (f[i] = f[j] => i = j) /\ (f[i] < f[j] => i < j)
  <2>1. i < j \/ i = j \/ j < i
    BY <1>0
  <2>2. f[i] \in Nat /\ f[j] \in Nat
    BY <1>0, <1>2
  <2> QED BY <1>1, <2>1, <2>2
<1>4. Distinct(s) => Distinct(r)
  BY <1>1, <1>2, <1>3 DEF Distinct
<1>5. \A m : (Missing(m, s) => Missing(m, r)) /\ (Marked(m, s) => Marked(m, r))
  BY <1>1, <1>2 DEF Missing, Marked
<1>6. ASSUME NEW q \in Seq(Drafts), InOrder(q, s) PROVE InOrder(q, r)
  <2> SUFFICES ASSUME NEW i \in 1..Len(q), NEW j \in 1..Len(q), NEW a \in 1..Len(r), NEW b \in 1..Len(r),
                      i < j, r[a].msg = q[i].msg, r[b].msg = q[j].msg
               PROVE  a < b
    BY DEF InOrder
  <2>1. f[a] \in 1..Len(s) /\ f[b] \in 1..Len(s) /\ s[f[a]].msg = q[i].msg /\ s[f[b]].msg = q[j].msg
    BY <1>1, <1>2
  <2>2. f[a] < f[b]
    BY <1>6, <2>1 DEF InOrder
  <2> QED BY <1>3, <2>2
<1> QED BY <1>4, <1>5, <1>6

\* A queue is left of itself.
LEMMA EmbedsItself ==
  ASSUME NEW s \in Seq(Drafts)
  PROVE  Embeds(s, s)
<1> DEFINE f == [i \in 1..Len(s) |-> i]
<1>1. f \in [1..Len(s) -> 1..Len(s)] /\ \A i \in 1..Len(s) : f[i] = i
  OBVIOUS
<1> HIDE DEF f
<1> QED BY <1>1 DEF Embeds

\* What Retain leaves is left of the queue.
LEMMA RetainShrinks ==
  ASSUME NEW s \in Seq(Drafts), NEW K
  PROVE  Retain(s, K) \in Seq(Drafts) /\ Embeds(Retain(s, K), s)
BY RetainEmbeds DEF Embeds

\* So is what dropping the first draft leaves.
LEMMA DropShrinks ==
  ASSUME TypeOK, drafts' = DropFirst(drafts)
  PROVE  Embeds(drafts', drafts)
<1>0. drafts \in Seq(Drafts) /\ Len(drafts) \in Nat
  BY DEF TypeOK
<1>1. CASE drafts = <<>>
  BY <1>0, <1>1, EmbedsItself DEF DropFirst
<1>2. CASE drafts # <<>>
  <2>1. drafts' \in Seq(Drafts) /\ Len(drafts') = Len(drafts) - 1
        /\ \A i \in 1..Len(drafts') : drafts'[i] = drafts[i + 1]
    BY <1>2, DropIs
  <2>2. PICK r \in Seq(Drafts) : r = drafts'
    BY <2>1
  <2> DEFINE f == [i \in 1..Len(r) |-> i + 1]
  <2>3. f \in [1..Len(r) -> 1..Len(drafts)] /\ \A i \in 1..Len(r) : f[i] = i + 1
    BY <1>0, <2>1, <2>2
  <2> HIDE DEF f
  <2>4. Embeds(r, drafts)
    <3>1. \A i, j \in 1..Len(r) : i < j => f[i] < f[j]
      BY <2>3
    <3>2. \A j \in 1..Len(r) : r[j] = drafts[f[j]]
      BY <2>1, <2>2, <2>3
    <3> QED BY <2>3, <3>1, <3>2 DEF Embeds
  <2> QED BY <2>2, <2>4
<1> QED BY <1>1, <1>2

\* Whoever takes drafts off the queue or marks one leaves the others in their order.
LEMMA DraftsShrink ==
  ASSUME TypeOK, [Next]_vars,
         \A n \in Messages : ~Enqueue(n), ~DeleteWrites
  PROVE  Embeds(drafts', drafts)
<1>0. drafts \in Seq(Drafts) /\ Len(drafts) \in Nat
  BY DEF TypeOK
<1>1. CASE UNCHANGED drafts
  BY <1>0, <1>1, EmbedsItself
<1>2. ASSUME NEW k \in Taps, TapBegins(k), ~UNCHANGED drafts PROVE Embeds(drafts', drafts)
  <2>1. Queued(tapped[k][1])
        /\ drafts' = [drafts EXCEPT ![Position(tapped[k][1])].kind = "PendingSteer"]
    BY <1>2 DEF TapBegins, MayBegin
  <2>2. Len(drafts') = Len(drafts) /\ \A i \in 1..Len(drafts) :
          drafts'[i].msg = drafts[i].msg
          /\ (drafts'[i].kind = drafts[i].kind \/ drafts'[i].kind = "PendingSteer")
    BY <2>1, MarkIs
  <2> DEFINE f == [i \in 1..Len(drafts) |-> i]
  <2>3. f \in [1..Len(drafts) -> 1..Len(drafts)] /\ \A i \in 1..Len(drafts) : f[i] = i
    OBVIOUS
  <2> HIDE DEF f
  <2> QED BY <2>2, <2>3 DEF Embeds
<1>4. CASE SeeTurnCompleted
  BY <1>0, <1>4, RetainShrinks DEF SeeTurnCompleted
<1>5. CASE Listening
  BY <1>1, DropShrinks, <1>4, <1>5 DEF Listening, SeeTurnStarted, SeeUserItem, SendNext, NextSent, store
<1>6. ASSUME NEW n \in Messages, ReadThread(n) \/ Starting(n) PROVE UNCHANGED drafts
  BY <1>6 DEF ReadThread, Starting, StartDirectly, SteerDirectly, SteerReturns, StartReturns, store
<1>7. ASSUME NEW k \in Taps, Tapping(k) \/ \E n \in Messages : TapReads(k, n)
      PROVE  Embeds(drafts', drafts)
  BY <1>1, <1>2, <1>7 DEF Tapping, TapReturns, TapReads, store
<1>8. CASE \E n \in Messages : DeleteReads(n)
  BY <1>1, <1>8 DEF DeleteReads, store
<1>9. CASE (\E a \in Actors : Serving(a)) \/ ServerCompletes
  BY <1>1, <1>9 DEF Serving, ServerBegins, ServerAdds, ServerRefuses, Accept, ServerCompletes, store
<1>10. CASE UNCHANGED vars
  BY <1>1, <1>10 DEF vars, store
<1> QED BY <1>1, <1>5, <1>6, <1>7, <1>8, <1>9, <1>10 DEF Next

\* A message is in the queue at most once, and only when its call has put it there; what a
\* deletion has read is a queue in the order of the present one.
QueueInv ==
  /\ Distinct(drafts) /\ Distinct(next_drafts)
  /\ \A m \in Messages : ~Missing(m, drafts) \/ ~Missing(m, next_drafts) => call[m] = "queued"
  /\ \A k \in Taps : Tapped(k) => call[tapped[k][1]] = "queued"
  /\ deletion \in {"idle", "read"} => undone = {}
  /\ deletion = "read" => InOrder(next_drafts, drafts)

\* A draft comes at the end of the queue.
LEMMA AppendsTo ==
  ASSUME TypeOK, NEW n \in Messages, Enqueue(n)
  PROVE  /\ drafts' \in Seq(Drafts) /\ Len(drafts) \in Nat /\ Len(drafts') = Len(drafts) + 1
         /\ drafts'[Len(drafts) + 1].msg = n
         /\ \A i \in 1..Len(drafts) : drafts'[i] = drafts[i]
<1>1. drafts \in Seq(Drafts) /\ [msg |-> n, kind |-> "Message"] \in Drafts
      /\ drafts' = Append(drafts, [msg |-> n, kind |-> "Message"])
  BY DEF TypeOK, Enqueue, Drafts
<1> QED BY <1>1

\* A call that has queued its message is over.
LEMMA QueuedStays ==
  ASSUME TypeOK, [Next]_vars, NEW m \in Messages, call[m] = "queued"
  PROVE  call'[m] = "queued"
<1>1. ASSUME NEW n \in Messages, ReadThread(n) \/ Starting(n) PROVE call'[m] = "queued"
  BY <1>1 DEF ReadThread, Starting, StartDirectly, Enqueue, SteerDirectly, SteerReturns, StartReturns, TypeOK
<1>2. CASE UNCHANGED call
  BY <1>2
<1> QED
  BY <1>1, <1>2
  DEF Next, vars, calls, Tapping, TapBegins, TapReturns, TapReads, DeleteWrites, DeleteReads, Listening,
      SeeTurnStarted, SeeUserItem, SeeTurnCompleted, SendNext, NextSent, Serving, ServerBegins,
      ServerAdds, ServerRefuses, Accept, ServerCompletes

\* In the beginning the queue is empty.
LEMMA InitQueue == Init => QueueInv
BY DEF Init, QueueInv, Distinct, Missing, Tapped, InOrder

\* Every step keeps the drafts apart and in order.
LEMMA NextQueue == TypeOK /\ FreshInv /\ QueueInv /\ [Next]_vars => QueueInv'
<1> SUFFICES ASSUME TypeOK, FreshInv, QueueInv, [Next]_vars PROVE QueueInv'
  OBVIOUS
<1>0. drafts \in Seq(Drafts) /\ next_drafts \in Seq(Drafts) /\ Len(drafts) \in Nat
      /\ Len(next_drafts) \in Nat
  BY DEF TypeOK
<1>6. TypeOK'
  BY NextTypes
<1>a. drafts' \in Seq(Drafts) /\ next_drafts' \in Seq(Drafts)
  BY <1>6 DEF TypeOK
<1>b. PICK r \in Seq(Drafts) : r = drafts'
  BY <1>a
<1>c. PICK q \in Seq(Drafts) : q = next_drafts'
  BY <1>a
<1>1. ASSUME NEW k \in Taps, Tapped(k)' PROVE call'[tapped'[k][1]] = "queued"
  <2>1. CASE Tapped(k) /\ tapped'[k] = tapped[k]
    <3>1. tapped[k][1] \in Messages /\ call[tapped[k][1]] = "queued"
      BY <2>1 DEF TypeOK, Tapped, QueueInv
    <3> QED BY <2>1, <3>1, QueuedStays
  <2>2. ASSUME NEW n \in Messages, TapReads(k, n) PROVE call'[tapped'[k][1]] = "queued"
    <3>1. tapped'[k] = <<n, active>> /\ ~Missing(n, drafts)
      BY <2>2 DEF TapReads, TypeOK, Queued, Missing
    <3>2. call'[n] = "queued"
      BY <3>1, QueuedStays DEF QueueInv
    <3> QED BY <3>1, <3>2
  <2>3. ASSUME NEW l \in Taps, Tapping(l) \/ \E n \in Messages : TapReads(l, n), l # k
        PROVE  Tapped(k) /\ tapped'[k] = tapped[k]
    BY <1>1, <2>3 DEF Tapping, TapBegins, TapReturns, TapReads, Tapped, TypeOK
  <2>4. ASSUME Tapping(k) PROVE Tapped(k) /\ tapped'[k] = tapped[k]
    BY <1>1, <2>4 DEF Tapping, TapBegins, TapReturns, Tapped, TypeOK
  <2>5. ASSUME UNCHANGED taps PROVE Tapped(k) /\ tapped'[k] = tapped[k]
    BY <1>1, <2>5 DEF taps, Tapped
  <2>6. ASSUME NEW n \in Messages, ReadThread(n) \/ Starting(n) PROVE UNCHANGED taps
    BY <2>6 DEF ReadThread, Starting, StartDirectly, Enqueue, SteerDirectly, SteerReturns, StartReturns
  <2>7. ASSUME Listening \/ DeleteWrites \/ (\E n \in Messages : DeleteReads(n))
               \/ UNCHANGED vars \/ (\E a \in Actors : Serving(a)) \/ ServerCompletes
        PROVE  UNCHANGED taps
    BY <2>7
    DEF DeleteWrites, DeleteReads, Listening, vars, SeeTurnStarted, SeeUserItem, SeeTurnCompleted,
        SendNext, NextSent, Serving, ServerBegins, ServerAdds, ServerRefuses, Accept, ServerCompletes
  <2> QED BY <2>1, <2>2, <2>3, <2>4, <2>5, <2>6, <2>7 DEF Next
<1>2. ASSUME NEW m \in Messages, ~Missing(m, drafts) \/ ~Missing(m, next_drafts) PROVE call'[m] = "queued"
  BY <1>2, QueuedStays DEF QueueInv
<1>3. CASE DeleteWrites
  <2>1. r = next_drafts /\ q = next_drafts /\ deletion' = "done"
    BY <1>3, <1>b, <1>c DEF DeleteWrites
  <2>2. Distinct(r) /\ Distinct(q) /\ \A m \in Messages : ~Missing(m, r) \/ ~Missing(m, q) => call'[m] = "queued"
    BY <1>2, <2>1 DEF QueueInv
  <2> QED BY <1>1, <1>b, <1>c, <2>1, <2>2 DEF QueueInv
<1>4. ASSUME NEW n \in Messages, Enqueue(n) PROVE QueueInv'
  <2>0. Nowhere(n) /\ call'[n] = "queued" /\ UNCHANGED <<deletion, undone, next_drafts>>
    BY <1>4 DEF Enqueue, FreshInv, Fresh, deleting, TypeOK
  <2>1. /\ Len(r) = Len(drafts) + 1 /\ r[Len(drafts) + 1].msg = n
        /\ \A i \in 1..Len(drafts) : r[i] = drafts[i]
    BY <1>4, <1>b, AppendsTo
  <2>2. \A i \in 1..Len(drafts) : drafts[i].msg # n
    BY <2>0 DEF Nowhere, Missing
  <2>3. \A i \in 1..Len(r) : i \in 1..Len(drafts) \/ i = Len(drafts) + 1
    BY <1>0, <2>1
  <2>4. Distinct(r)
    BY <2>1, <2>2, <2>3 DEF Distinct, QueueInv
  <2>5. \A m \in Messages : ~Missing(m, r) => call'[m] = "queued"
    BY <1>2, <2>0, <2>1, <2>3 DEF Missing
  <2>6. ASSUME deletion = "read" PROVE InOrder(next_drafts, r)
    <3>1. \A i \in 1..Len(next_drafts) : next_drafts[i].msg # n
      BY <2>0 DEF Nowhere, Missing
    <3> SUFFICES ASSUME NEW i \in 1..Len(next_drafts), NEW j \in 1..Len(next_drafts),
                        NEW a \in 1..Len(r), NEW b \in 1..Len(r),
                        i < j, r[a].msg = next_drafts[i].msg, r[b].msg = next_drafts[j].msg
                 PROVE  a < b
      BY DEF InOrder
    <3>2. a \in 1..Len(drafts) /\ b \in 1..Len(drafts)
      BY <2>1, <2>3, <3>1
    <3>3. drafts[a].msg = next_drafts[i].msg /\ drafts[b].msg = next_drafts[j].msg
      BY <2>1, <3>2
    <3>4. InOrder(next_drafts, drafts)
      BY <2>6 DEF QueueInv
    <3> QED BY <3>2, <3>3, <3>4 DEF InOrder
  <2>7. q = next_drafts
    BY <1>c, <2>0
  <2>8. Distinct(q) /\ (deletion' = "read" => InOrder(q, r))
        /\ (deletion' \in {"idle", "read"} => undone' = {})
        /\ \A m \in Messages : ~Missing(m, r) \/ ~Missing(m, q) => call'[m] = "queued"
    BY <1>2, <2>0, <2>5, <2>6, <2>7 DEF QueueInv
  <2> QED BY <1>1, <1>b, <1>c, <2>4, <2>8 DEF QueueInv
<1>5. CASE (\A n \in Messages : ~Enqueue(n)) /\ ~DeleteWrites
  <2>1. Embeds(r, drafts)
    BY <1>5, <1>b, DraftsShrink
  <2>2. Distinct(r) /\ (\A m : Missing(m, drafts) => Missing(m, r))
        /\ \A x \in Seq(Drafts) : InOrder(x, drafts) => InOrder(x, r)
    BY <1>0, <2>1, EmbedsKeeps DEF QueueInv
  <2>3. ASSUME NEW n \in Messages, DeleteReads(n)
        PROVE  /\ Distinct(q) /\ InOrder(q, r)
               /\ \A m : Missing(m, drafts) => Missing(m, q)
               /\ UNCHANGED undone /\ deletion = "idle"
    <3>1. q = Retain(drafts, {d \in Drafts : d.msg # n}) /\ r = drafts /\ UNCHANGED undone
          /\ deletion = "idle"
      BY <1>b, <1>c, <2>3 DEF DeleteReads, store
    <3>2. Embeds(q, drafts)
      BY <1>0, <3>1, RetainShrinks
    <3>3. Distinct(q) /\ \A m : Missing(m, drafts) => Missing(m, q)
      BY <1>0, <3>2, EmbedsKeeps DEF QueueInv
    <3>4. InOrder(drafts, drafts)
      BY DEF InOrder, Distinct, QueueInv
    <3>5. PICK f \in [1..Len(q) -> 1..Len(drafts)] :
            /\ \A i, j \in 1..Len(q) : i < j => f[i] < f[j]
            /\ \A j \in 1..Len(q) : q[j].msg = drafts[f[j]].msg
      BY <3>2 DEF Embeds
    <3>6. InOrder(q, drafts)
      <4> SUFFICES ASSUME NEW i \in 1..Len(q), NEW j \in 1..Len(q), NEW a \in 1..Len(drafts),
                          NEW b \in 1..Len(drafts), i < j, drafts[a].msg = q[i].msg, drafts[b].msg = q[j].msg
                   PROVE  a < b
        BY DEF InOrder
      <4>1. f[i] \in 1..Len(drafts) /\ f[j] \in 1..Len(drafts) /\ f[i] < f[j]
        BY <3>5
      <4>2. drafts[f[i]].msg = drafts[a].msg /\ drafts[f[j]].msg = drafts[b].msg
        BY <3>5
      <4>3. \A x, y \in 1..Len(drafts) : drafts[x].msg = drafts[y].msg => x = y
        BY DEF QueueInv, Distinct
      <4>4. a = f[i] /\ b = f[j]
        BY <4>1, <4>2, <4>3
      <4> QED BY <4>1, <4>4
    <3> QED BY <3>1, <3>3, <3>6
  <2>4. CASE \E n \in Messages : DeleteReads(n)
    <3>1. /\ Distinct(q) /\ InOrder(q, r)
          /\ \A m : Missing(m, drafts) => Missing(m, q)
          /\ undone' = {}
      BY <2>3, <2>4 DEF QueueInv
    <3>2. \A m \in Messages : ~Missing(m, r) \/ ~Missing(m, q) => call'[m] = "queued"
      BY <1>2, <2>2, <3>1
    <3> QED BY <1>1, <1>b, <1>c, <2>2, <3>1, <3>2 DEF QueueInv
  <2>5. CASE UNCHANGED deleting
    <3>1. q = next_drafts /\ UNCHANGED <<deletion, undone>>
      BY <1>c, <2>5 DEF deleting
    <3>2. Distinct(q) /\ (deletion' = "read" => InOrder(q, r))
          /\ (deletion' \in {"idle", "read"} => undone' = {})
      BY <1>0, <2>2, <3>1 DEF QueueInv
    <3>3. \A m \in Messages : ~Missing(m, r) \/ ~Missing(m, q) => call'[m] = "queued"
      BY <1>2, <2>2, <3>1
    <3> QED BY <1>1, <1>b, <1>c, <2>2, <3>2, <3>3 DEF QueueInv
  <2>6. ASSUME NEW n \in Messages, ReadThread(n) \/ Starting(n) PROVE UNCHANGED deleting
    BY <2>6 DEF ReadThread, Starting, StartDirectly, Enqueue, SteerDirectly, SteerReturns, StartReturns
  <2>7. ASSUME NEW k \in Taps, Tapping(k) \/ \E n \in Messages : TapReads(k, n) PROVE UNCHANGED deleting
    BY <2>7 DEF Tapping, TapBegins, TapReturns, TapReads
  <2>8. ASSUME Listening \/ UNCHANGED vars \/ (\E a \in Actors : Serving(a)) \/ ServerCompletes
        PROVE  UNCHANGED deleting
    BY <2>8
    DEF Listening, vars, SeeTurnStarted, SeeUserItem, SeeTurnCompleted,
        SendNext, NextSent, Serving, ServerBegins, ServerAdds, ServerRefuses, Accept, ServerCompletes
  <2> QED BY <1>5, <2>4, <2>5, <2>6, <2>7, <2>8 DEF Next
<1> QED BY <1>3, <1>4, <1>5

-----------------------------------------------------------------------------
(* Who asks for what *)

\* A call asks for its own message,
OwnAsks ==
  \A m \in Messages : req[m] # NoRequest => call[m] \in {"steering", "starting"} /\ req[m].msg = m

\* a tap for the one it has read, in the turn it has seen,
TapAsks ==
  \A k \in Taps : req[k] # NoRequest =>
    /\ tap[k] = "steering" /\ req[k].msg = tapped[k][1]
    /\ Waiting(k) => req[k].op = "steer" /\ req[k].turn = tapped[k][2]

\* and the listener for one that was queued.
ListenerAsks ==
  req[Listener] # NoRequest =>
    listener = "sending" /\ req[Listener].op = "start" /\ call[req[Listener].msg] = "queued"

\* Who asks for what, as an invariant.
AskInv == OwnAsks /\ TapAsks /\ ListenerAsks

\* In the beginning nobody asks.
LEMMA InitAsks == Init => AskInv
BY Casting DEF Init, AskInv, OwnAsks, TapAsks, ListenerAsks

\* Only a's request differs, and a's own duties hold.
LEMMA AsksRest ==
  ASSUME TypeOK, QueueInv, AskInv, [Next]_vars, NEW a \in Actors,
         \A b \in Actors \ {a} : req'[b] = req[b],
         \A m \in Messages \ {a} : call'[m] = call[m],
         \A k \in Taps \ {a} : tap'[k] = tap[k] /\ tapped'[k] = tapped[k],
         a # Listener => UNCHANGED listener,
         a \in Messages /\ req'[a] # NoRequest => call'[a] \in {"steering", "starting"} /\ req'[a].msg = a,
         a \in Taps /\ req'[a] # NoRequest =>
           /\ tap'[a] = "steering" /\ req'[a].msg = tapped'[a][1]
           /\ req'[a].result = "none" => req'[a].op = "steer" /\ req'[a].turn = tapped'[a][2],
         a = Listener /\ req'[a] # NoRequest =>
           /\ listener' = "sending" /\ req'[a].op = "start"
           /\ call[req'[a].msg] = "queued" /\ req'[a].msg \in Messages
  PROVE  AskInv'
<1>1. OwnAsks'
  BY Casting DEF AskInv, OwnAsks
<1>2. TapAsks'
  BY Casting DEF AskInv, TapAsks, Waiting
<1>3. ListenerAsks'
  <2>1. CASE a = Listener
    BY <2>1, QueuedStays DEF ListenerAsks
  <2>2. CASE a # Listener
    <3>1. req[Listener] # NoRequest => req[Listener].msg \in Messages
      BY Casting DEF TypeOK, TurnRequests
    <3>2. req[Listener] # NoRequest => call'[req[Listener].msg] = "queued"
      BY <3>1, QueuedStays DEF AskInv, ListenerAsks
    <3> QED BY <2>2, <3>2, Casting DEF AskInv, ListenerAsks
  <2> QED BY <2>1, <2>2
<1> QED BY <1>1, <1>2, <1>3 DEF AskInv

\* Every step keeps to who asks for what.
LEMMA NextAsks == TypeOK /\ QueueInv /\ AskInv /\ [Next]_vars => AskInv'
<1> SUFFICES ASSUME TypeOK, QueueInv, AskInv, [Next]_vars PROVE AskInv'
  OBVIOUS
<1>0. /\ call \in [Messages -> {"idle", "read", "steering", "starting", "queued", "done"}]
      /\ tap \in [Taps -> {"idle", "read", "steering", "done"}]
      /\ tapped \in [Taps -> (Messages \X Nat) \cup {<<>>}]
      /\ seen \in [Messages -> Nat]
  BY DEF TypeOK
<1>1. ASSUME NEW n \in Messages, ReadThread(n) \/ Starting(n) PROVE AskInv'
  <2>1. UNCHANGED <<tap, tapped, listener>> /\ (\A m \in Messages \ {n} : call'[m] = call[m])
        /\ n \in Actors /\ n \notin Taps /\ n # Listener
    BY <1>0, <1>1, Casting
    DEF ReadThread, Starting, StartDirectly, Enqueue, SteerDirectly, SteerReturns, StartReturns, taps
  <2>2. ASSUME NEW op \in {"start", "steer"}, NEW t \in Nat, Send(n, op, n, t),
               call'[n] \in {"steering", "starting"}
        PROVE  AskInv'
    <3>1. (\A b \in Actors \ {n} : req'[b] = req[b]) /\ req'[n] = Request(op, n, t)
      BY <2>1, <2>2, SendTypes
    <3>2. Request(op, n, t).msg = n
      BY DEF Request
    <3> QED BY <2>1, <2>2, <3>1, <3>2, AsksRest
  <2>3. CASE Clear(n)
    BY <2>1, <2>3, ClearTypes, AsksRest
  <2>4. CASE UNCHANGED req /\ call[n] \in {"idle", "read"}
    <3>1. req'[n] = NoRequest
      BY <2>4 DEF AskInv, OwnAsks
    <3> QED BY <2>1, <2>4, <3>1, AsksRest
  <2>5. ASSUME StartDirectly(n) \/ SteerDirectly(n) \/ SteerReturns(n), ~Clear(n)
        PROVE  /\ call'[n] \in {"steering", "starting"}
               /\ \E op \in {"start", "steer"} : \E t \in Nat : Send(n, op, n, t)
    BY <1>0, <2>5 DEF StartDirectly, SteerDirectly, SteerReturns
  <2> QED
    BY <1>1, <2>2, <2>3, <2>4, <2>5 DEF ReadThread, Starting, Enqueue, StartReturns
<1>2. ASSUME NEW k \in Taps, Tapping(k) \/ \E n \in Messages : TapReads(k, n) PROVE AskInv'
  <2>1. UNCHANGED <<call, listener>> /\ k \in Actors /\ k \notin Messages /\ k # Listener
        /\ \A l \in Taps \ {k} : tap'[l] = tap[l] /\ tapped'[l] = tapped[l]
    BY <1>0, <1>2, Casting DEF Tapping, TapBegins, TapReturns, TapReads, calls
  <2>2. CASE Clear(k)
    BY <2>1, <2>2, ClearTypes, AsksRest
  <2>3. CASE UNCHANGED req /\ tap[k] \in {"idle", "read"}
    <3>1. req'[k] = NoRequest
      BY <2>3 DEF AskInv, TapAsks
    <3> QED BY <2>1, <2>3, <3>1, AsksRest
  <2>4. CASE /\ tap[k] = "read" /\ tap' = [tap EXCEPT ![k] = "steering"] /\ UNCHANGED tapped
             /\ Send(k, "steer", tapped[k][1], tapped[k][2])
    <3>0. tapped[k][1] \in Messages /\ tapped[k][2] \in Nat
      BY <2>4 DEF TypeOK
    <3>1. (\A b \in Actors \ {k} : req'[b] = req[b]) /\ req'[k] = Request("steer", tapped[k][1], tapped[k][2])
      BY <2>1, <2>4, <3>0, SendTypes
    <3>2. req'[k].msg = tapped[k][1] /\ req'[k].op = "steer" /\ req'[k].turn = tapped[k][2]
      BY <3>1 DEF Request
    <3>3. tap'[k] = "steering" /\ tapped'[k] = tapped[k]
      BY <1>0, <2>4
    <3> QED BY <2>1, <3>1, <3>2, <3>3, AsksRest
  <2> QED
    BY <1>2, <2>2, <2>3, <2>4 DEF Tapping, TapBegins, TapReturns, TapReads
<1>3. CASE Listening
  <2>1. UNCHANGED <<call, tap, tapped>> /\ Listener \in Actors /\ Listener \notin Messages
        /\ Listener \notin Taps
    BY <1>3, Casting
    DEF Listening, SeeTurnStarted, SeeUserItem, SeeTurnCompleted, SendNext, NextSent, calls, taps
  <2>2. CASE Clear(Listener)
    BY <2>1, <2>2, ClearTypes, AsksRest
  <2>3. CASE UNCHANGED req /\ listener # "sending"
    <3>1. req'[Listener] = NoRequest
      BY <2>3 DEF AskInv, ListenerAsks
    <3> QED BY <2>1, <2>3, <3>1, AsksRest
  <2>4. CASE drafts # <<>> /\ Send(Listener, "start", Head(drafts).msg, 0) /\ listener' = "sending"
    <3>1. drafts \in Seq(Drafts) /\ 1 \in 1..Len(drafts) /\ Head(drafts) = drafts[1]
      BY <2>4 DEF TypeOK
    <3>2. PICK m \in Messages : m = Head(drafts).msg
      BY <3>1, DraftIs
    <3>3. call[m] = "queued"
      BY <3>1, <3>2 DEF Missing, QueueInv
    <3>4. (\A b \in Actors \ {Listener} : req'[b] = req[b]) /\ req'[Listener] = Request("start", m, 0)
      BY <2>1, <2>4, <3>2, SendTypes
    <3>5. Request("start", m, 0).msg = m /\ Request("start", m, 0).op = "start"
      BY DEF Request
    <3> QED BY <2>1, <2>4, <3>3, <3>4, <3>5, AsksRest
  <2> QED
    BY <1>3, <2>2, <2>3, <2>4
    DEF Listening, SeeTurnStarted, SeeUserItem, SeeTurnCompleted, SendNext, NextSent, MaySend, Take
<1>4. ASSUME NEW a \in Actors, Serving(a) PROVE AskInv'
  <2>1. Waiting(a) /\ UNCHANGED <<call, tap, tapped, listener>>
    BY <1>4 DEF Serving, ServerBegins, ServerAdds, ServerRefuses, Accept, calls, taps
  <2>2. \E r \in {"ok", "error"} : \E t \in Nat : Result(a, r, t)
    <3>1. ASSUME NEW es, NEW t, Taken(a, es, t) PROVE \E r \in {"ok", "error"} : Result(a, r, t) /\ t \in Nat
      BY <2>1, <3>1, AcceptIs DEF Taken
    <3>2. CASE Refused(a)
      BY <3>2 DEF Refused
    <3> QED BY <1>4, <3>1, <3>2, ServingIs
  <2>3. /\ req'[a].msg = req[a].msg /\ req'[a].result # "none" /\ req[a] # NoRequest
        /\ req'[a].op = req[a].op
        /\ req[a].msg \in Messages
        /\ \A b \in Actors \ {a} : req'[b] = req[b]
    BY <2>1, <2>2, ResultTypes DEF Waiting, TurnRequests
  <2>4. /\ a \in Messages => call'[a] \in {"steering", "starting"} /\ req'[a].msg = a
        /\ a \in Taps => tap'[a] = "steering" /\ req'[a].msg = tapped'[a][1]
        /\ a = Listener => listener' = "sending" /\ req'[a].op = "start" /\ call[req'[a].msg] = "queued"
    BY <2>1, <2>3 DEF AskInv, OwnAsks, TapAsks, ListenerAsks
  <2> QED BY <2>1, <2>3, <2>4, AsksRest
<1>5. CASE UNCHANGED <<call, tap, tapped, listener, req>>
  BY <1>5 DEF AskInv, OwnAsks, TapAsks, ListenerAsks, Waiting
<1>6. CASE DeleteWrites \/ (\E n \in Messages : DeleteReads(n)) \/ ServerCompletes \/ UNCHANGED vars
  BY <1>5, <1>6 DEF DeleteWrites, DeleteReads, ServerCompletes, vars, calls, taps
<1> QED BY <1>1, <1>2, <1>3, <1>4, <1>6 DEF Next

-----------------------------------------------------------------------------
(* A message is taken once *)

\* The first of s is of m.
First(m, s) == Len(s) >= 1 /\ s[1].msg = m

\* The server can take it now or in the turn it is in.
Takeable(a) == Waiting(a) /\ (req[a].op = "steer" => req[a].turn = turn /\ turn # 0)

\* The listener has something to hear before the next end.
OnItsWay == Len(events) >= 1 /\ ~Ends(1)

\* The server has taken m at most once, and not at all if its own call failed.
Own(m) == runs[m] <= 1 /\ (req[m] # NoRequest /\ req[m].result # "ok" => runs[m] = 0)

\* No request that could still be taken is for a message that was.
Untaken(m) == \A a \in Actors : Takeable(a) /\ req[a].msg = m => runs[m] = 0

\* A draft the server has taken is not sent when a turn ends: it leaves the queue before.
Leaves(m) ==
  runs[m] # 0 /\ ~Missing(m, drafts) =>
    listener # "ended" /\ (Marked(m, drafts) \/ (First(m, drafts) /\ active = 0 /\ OnItsWay))

\* What the listener sends is first in the queue, or marked there.
ListenerSends(m) ==
  Waiting(Listener) /\ req[Listener].msg = m /\ ~Missing(m, drafts) =>
    Marked(m, drafts) \/ First(m, drafts)

\* The tap k steers m; no two taps do, and the draft is marked meanwhile.
Steers(k, m) == tap[k] = "steering" /\ tapped[k][1] = m
OneTap(m) ==
  /\ \A k \in Taps : Steers(k, m) => Marked(m, drafts)
  /\ \A k, l \in Taps : Steers(k, m) /\ Steers(l, m) => k = l

\* What each message is owed.
Once(m) == Own(m) /\ Untaken(m) /\ Leaves(m) /\ ListenerSends(m) /\ OneTap(m)

\* While no answer is lost: every message but those a deletion has put back.
OnceInv == ~scenario.failing => \A m \in Messages \ undone : Once(m)

\* A step after which the queue says of m what it said.
Keeps(m) ==
  /\ Missing(m, drafts) => Missing(m, drafts')
  /\ Marked(m, drafts) => Marked(m, drafts')
  /\ First(m, drafts) => First(m, drafts') \/ Missing(m, drafts')

\* A queue that stays as it is says what it said.
LEMMA KeepsAll ==
  ASSUME UNCHANGED drafts, NEW m
  PROVE  Keeps(m)
BY DEF Keeps, Missing, Marked, First

\* One that has got another draft does too,
LEMMA KeepsAdding ==
  ASSUME TypeOK, NEW n \in Messages, Enqueue(n), NEW m, m # n
  PROVE  Keeps(m)
<1>1. /\ Len(drafts) \in Nat /\ Len(drafts') = Len(drafts) + 1 /\ drafts'[Len(drafts) + 1].msg = n
      /\ \A i \in 1..Len(drafts) : drafts'[i] = drafts[i]
  BY AppendsTo
<1>2. \A i \in 1..Len(drafts') : i \in 1..Len(drafts) \/ i = Len(drafts) + 1
  BY <1>1
<1>3. (Missing(m, drafts) => Missing(m, drafts')) /\ (Marked(m, drafts) => Marked(m, drafts'))
  BY <1>1, <1>2 DEF Missing, Marked
<1>4. First(m, drafts) => First(m, drafts')
  BY <1>1 DEF First
<1> QED BY <1>3, <1>4 DEF Keeps

\* and one with a draft marked,
LEMMA KeepsMarking ==
  ASSUME TypeOK, NEW n, Queued(n), drafts' = [drafts EXCEPT ![Position(n)].kind = "PendingSteer"],
         NEW m
  PROVE  Keeps(m) /\ (Distinct(drafts) => Marked(n, drafts'))
<1>1. Position(n) \in 1..Len(drafts) /\ drafts[Position(n)].msg = n
  BY PositionIs
<1>2. /\ Len(drafts') = Len(drafts) /\ drafts'[Position(n)].kind = "PendingSteer"
      /\ \A i \in 1..Len(drafts) : drafts'[i].msg = drafts[i].msg
      /\ \A i \in 1..Len(drafts) : i # Position(n) => drafts'[i] = drafts[i]
  BY MarkIs
<1>3. Keeps(m)
  <2>1. Missing(m, drafts) => Missing(m, drafts')
    BY <1>2 DEF Missing
  <2>2. Marked(m, drafts) => Marked(m, drafts')
    BY <1>2 DEF Marked
  <2>3. First(m, drafts) => First(m, drafts')
    <3>1. drafts \in Seq(Drafts) /\ Len(drafts) \in Nat
      BY DEF TypeOK
    <3> QED BY <1>2, <3>1 DEF First
  <2> QED BY <2>1, <2>2, <2>3 DEF Keeps
<1>4. Distinct(drafts) => Marked(n, drafts')
  BY <1>1, <1>2 DEF Distinct, Marked
<1> QED BY <1>3, <1>4

\* and one that a deletion has written over, of a message it has not put back.
LEMMA KeepsDeleting ==
  ASSUME TypeOK, QueueInv, DeleteWrites, NEW m \in Messages, m \notin undone'
  PROVE  Keeps(m)
<1>0. /\ drafts \in Seq(Drafts) /\ next_drafts \in Seq(Drafts)
      /\ Len(drafts) \in Nat /\ Len(next_drafts) \in Nat
      /\ InOrder(next_drafts, drafts) /\ drafts' = next_drafts
  BY DEF TypeOK, QueueInv, DeleteWrites
<1> DEFINE Back == {j \in 1..Len(next_drafts) : \E k \in 1..j : ~Contains(drafts, next_drafts[k])}
<1>1. ASSUME NEW i \in 1..Len(next_drafts), next_drafts[i].msg = m, NEW k \in 1..i
      PROVE  \E a \in 1..Len(drafts) : drafts[a] = next_drafts[k]
  <2>1. undone' = {next_drafts[j].msg : j \in Back}
    BY DEF DeleteWrites
  <2>2. i \notin Back
    <3> HIDE DEF Back
    <3> QED BY <1>1, <2>1
  <2>3. Contains(drafts, next_drafts[k])
    BY <2>2
  <2> QED BY <2>3 DEF Contains
<1> HIDE DEF Back
<1>2. ASSUME NEW i \in 1..Len(next_drafts), next_drafts[i].msg = m
      PROVE  \E a \in 1..Len(drafts) : drafts[a] = next_drafts[i]
  <2>1. i \in 1..i
    OBVIOUS
  <2> QED BY <1>1, <1>2, <2>1
<1>3. (Missing(m, drafts) => Missing(m, next_drafts)) /\ (Marked(m, drafts) => Marked(m, next_drafts))
  BY <1>2 DEF Missing, Marked
<1>4. ASSUME First(m, drafts), ~Missing(m, next_drafts) PROVE First(m, next_drafts)
  <2>1. PICK i \in 1..Len(next_drafts) : next_drafts[i].msg = m
    BY <1>4 DEF Missing
  <2>2. 1 \in 1..i /\ 1 \in 1..Len(next_drafts) /\ 1 \in 1..Len(drafts) /\ drafts[1].msg = m
    BY <1>0, <1>4 DEF First
  <2>3. PICK b \in 1..Len(drafts) : drafts[b] = next_drafts[1]
    BY <1>1, <2>1, <2>2
  <2>4. CASE i = 1
    BY <1>0, <2>1, <2>2, <2>4 DEF First
  <2>5. CASE 1 < i
    <3>1. b < 1
      BY <1>0, <2>1, <2>2, <2>3, <2>5 DEF InOrder
    <3> QED BY <1>0, <3>1
  <2> QED BY <2>2, <2>4, <2>5
<1> QED BY <1>0, <1>3, <1>4 DEF Keeps

\* A step that neither takes m nor asks for it.
LEMMA KeepsOnce ==
  ASSUME NEW m, Once(m), Keeps(m), runs'[m] = runs[m], UNCHANGED active,
         OnItsWay => OnItsWay', listener' = "ended" => listener = "ended",
         Own(m)', Untaken(m)',
         Waiting(Listener)' /\ req'[Listener].msg = m => Waiting(Listener) /\ req[Listener].msg = m,
         \A k \in Taps : Steers(k, m)' => Steers(k, m)
  PROVE  Once(m)'
<1>1. Leaves(m)'
  BY DEF Once, Leaves, Keeps
<1>2. ListenerSends(m)'
  BY DEF Once, ListenerSends, Keeps
<1>3. OneTap(m)'
  BY DEF Once, OneTap, Keeps
<1> QED BY <1>1, <1>2, <1>3 DEF Once

\* Steps of the calls,
LEMMA OnceStarting ==
  ASSUME TypeOK, FreshInv, QueueInv, AskInv, NEW n \in Messages, ReadThread(n) \/ Starting(n),
         NEW m \in Messages, Once(m)
  PROVE  Once(m)'
<1>0. /\ UNCHANGED <<active, events, listener, tap, tapped, turn, runs>>
      /\ n \in Actors /\ n # Listener /\ Listener \in Actors
      /\ OnItsWay' <=> OnItsWay
      /\ \A k \in Taps : Steers(k, m)' <=> Steers(k, m)
  BY Casting
  DEF ReadThread, Starting, StartDirectly, Enqueue, SteerDirectly, SteerReturns, StartReturns,
      store, taps, server, OnItsWay, Ends, Steers
<1>1. ASSUME \A b \in Actors \ {n} : req'[b] = req[b],
             req'[n] = req[n] \/ req'[n] = NoRequest \/ (req'[n].msg = n /\ runs[n] = 0),
             Keeps(m)
      PROVE  Once(m)'
  <2>1. req'[Listener] = req[Listener] /\ (m # n => req'[m] = req[m])
    BY <1>0, <1>1, Casting
  <2>2. Own(m)'
    BY <1>0, <1>1, <2>1 DEF Own, Once
  <2>3. ASSUME NEW a \in Actors, Takeable(a)', req'[a].msg = m PROVE runs[m] = 0
    <3>1. CASE req'[a] = req[a]
      BY <1>0, <2>3, <3>1 DEF Takeable, Waiting, Once, Untaken
    <3>2. req'[a] # NoRequest
      BY <2>3 DEF Takeable, Waiting
    <3> QED BY <1>1, <2>3, <3>1, <3>2
  <2>4. Untaken(m)'
    BY <1>0, <2>3 DEF Untaken
  <2> QED BY <1>0, <1>1, <2>1, <2>2, <2>4, KeepsOnce DEF Waiting
<1>2. CASE Enqueue(n)
  <2>0. UNCHANGED req
    BY <1>2 DEF Enqueue
  <2>1. CASE m # n
    BY <1>1, <1>2, <2>0, <2>1, KeepsAdding
  <2>2. CASE m = n
    <3>1. Nowhere(m)
      BY <1>2, <2>2 DEF Enqueue, FreshInv, Fresh
    <3>2. runs[m] = 0 /\ (\A a \in Actors : req[a] # NoRequest => req[a].msg # m)
          /\ \A k \in Taps : ~Steers(k, m)
      BY <3>1 DEF Nowhere, Asked, Steers, Tapped
    <3>3. Own(m)' /\ Untaken(m)' /\ Leaves(m)'
      BY <1>0, <2>0, <3>2 DEF Own, Untaken, Leaves
    <3>4. ListenerSends(m)' /\ OneTap(m)'
      BY <1>0, <2>0, <3>2 DEF ListenerSends, OneTap, Waiting
    <3> QED BY <3>3, <3>4 DEF Once
  <2> QED BY <2>1, <2>2
<1>3. CASE ~Enqueue(n)
  <2>1. Keeps(m)
    BY <1>0, <1>3, KeepsAll
    DEF ReadThread, Starting, StartDirectly, SteerDirectly, SteerReturns, StartReturns, store
  <2>2. CASE UNCHANGED req
    BY <1>1, <2>1, <2>2
  <2>3. CASE Clear(n)
    BY <1>0, <1>1, <2>1, <2>3, ClearTypes
  <2>4. ASSUME NEW op \in {"start", "steer"}, NEW t \in Nat, Send(n, op, n, t), runs[n] = 0
        PROVE  Once(m)'
    <3>1. (\A b \in Actors \ {n} : req'[b] = req[b]) /\ req'[n] = Request(op, n, t)
      BY <1>0, <2>4, SendTypes
    <3>2. Request(op, n, t).msg = n
      BY DEF Request
    <3> QED BY <1>1, <2>1, <2>4, <3>1, <3>2
  <2>5. call[n] \in {"idle", "read"} => runs[n] = 0
    BY DEF FreshInv, Fresh, Nowhere
  <2>6. seen[n] \in Nat
    BY DEF TypeOK
  <2>7. CASE StartDirectly(n)
    BY <2>4, <2>5, <2>7 DEF StartDirectly
  <2>8. CASE SteerDirectly(n)
    BY <2>4, <2>5, <2>6, <2>8 DEF SteerDirectly
  <2>9. CASE SteerReturns(n) /\ ~Clear(n)
    <3>1. Send(n, "start", n, 0) /\ req[n] # NoRequest /\ req[n].result = "error"
      BY <2>9 DEF SteerReturns, Answered
    <3>2. CASE m = n
      <4>1. runs[n] = 0
        BY <3>1, <3>2 DEF Once, Own
      <4> QED BY <2>4, <3>1, <4>1
    <3>3. CASE m # n
      <4>1. (\A b \in Actors \ {n} : req'[b] = req[b]) /\ req'[n] = Request("start", n, 0)
        BY <1>0, <3>1, SendTypes
      <4>2. Request("start", n, 0).msg = n
        BY DEF Request
      <4>3. req'[Listener] = req[Listener] /\ req'[m] = req[m] /\ req'[n].msg # m
        BY <1>0, <3>3, <4>1, <4>2, Casting
      <4>4. Own(m)'
        BY <1>0, <4>3 DEF Own, Once
      <4>5. ASSUME NEW a \in Actors, Takeable(a)', req'[a].msg = m PROVE runs[m] = 0
        <5>1. a # n
          BY <4>3, <4>5
        <5>2. req'[a] = req[a]
          BY <4>1, <5>1
        <5> QED BY <1>0, <4>5, <5>2 DEF Takeable, Waiting, Once, Untaken
      <4>6. Untaken(m)'
        BY <1>0, <4>5 DEF Untaken
      <4> QED BY <1>0, <2>1, <4>3, <4>4, <4>6, KeepsOnce DEF Waiting
    <3> QED BY <3>2, <3>3
  <2> QED
    BY <1>3, <2>2, <2>3, <2>7, <2>8, <2>9 DEF ReadThread, Starting, StartReturns, SteerReturns
<1> QED BY <1>2, <1>3

\* of the taps,
LEMMA OnceTapping ==
  ASSUME TypeOK, ByTurn, QueueInv, AskInv, NEW k \in Taps, Tapping(k) \/ \E n \in Messages : TapReads(k, n),
         NEW m \in Messages, Once(m)
  PROVE  Once(m)'
<1>0. /\ UNCHANGED <<active, events, listener, turn, runs>>
      /\ OnItsWay' <=> OnItsWay
      /\ k \in Actors /\ k # Listener /\ k # m /\ m \in Actors /\ Listener \in Actors
      /\ tap \in [Taps -> {"idle", "read", "steering", "done"}]
  <2>1. /\ UNCHANGED <<active, events, listener, turn, runs>>
        /\ OnItsWay' <=> OnItsWay
    BY DEF Tapping, TapBegins, TapReturns, TapReads, store, server, OnItsWay, Ends
  <2>2. tap \in [Taps -> {"idle", "read", "steering", "done"}]
    BY DEF TypeOK
  <2> QED BY <2>1, <2>2, Casting
<1>1. ASSUME \A b \in Actors \ {k} : req'[b] = req[b] PROVE
             /\ Own(m)' /\ req'[Listener] = req[Listener]
             /\ \A a \in Actors \ {k} : Takeable(a)' <=> Takeable(a)
  BY <1>0, <1>1 DEF Own, Once, Takeable, Waiting
<1>2. ASSUME \A b \in Actors \ {k} : req'[b] = req[b], req'[k] = req[k] \/ req'[k] = NoRequest,
             Keeps(m), \A l \in Taps : Steers(l, m)' => Steers(l, m)
      PROVE  Once(m)'
  <2>1. Untaken(m)'
    BY <1>0, <1>2 DEF Untaken, Once, Takeable, Waiting
  <2> QED BY <1>0, <1>1, <1>2, <2>1, KeepsOnce DEF Waiting
<1>3. ASSUME NEW x \in {"read", "done"}, tap' = [tap EXCEPT ![k] = x],
             \A l \in Taps \ {k} : tapped'[l] = tapped[l]
      PROVE  \A l \in Taps : Steers(l, m)' => Steers(l, m)
  BY <1>0, <1>3 DEF Steers
<1>4. CASE \E n \in Messages : TapReads(k, n)
  <2>1. /\ tap' = [tap EXCEPT ![k] = "read"] /\ \A l \in Taps \ {k} : tapped'[l] = tapped[l]
        /\ UNCHANGED <<drafts, req>>
    BY <1>4 DEF TapReads, TypeOK, store
  <2> QED BY <1>2, <1>3, <2>1, KeepsAll
<1>5. CASE TapReturns(k)
  <2>1. tap' = [tap EXCEPT ![k] = "done"] /\ UNCHANGED <<tapped, drafts>> /\ Clear(k)
    BY <1>5 DEF TapReturns, store
  <2> QED BY <1>0, <1>2, <1>3, <2>1, ClearTypes, KeepsAll
<1>6. CASE TapBegins(k) /\ ~MayBegin(tapped[k][1])
  <2>1. tap' = [tap EXCEPT ![k] = "done"] /\ UNCHANGED <<tapped, drafts, req>>
    BY <1>6 DEF TapBegins
  <2> QED BY <1>2, <1>3, <2>1, KeepsAll
<1>7. CASE TapBegins(k) /\ MayBegin(tapped[k][1])
  <2>0. PICK n \in Messages : n = tapped[k][1]
    BY <1>7 DEF TapBegins, TypeOK
  <2>1. /\ Queued(n) /\ drafts[Position(n)].kind = "Message" /\ UNCHANGED tapped /\ tap[k] = "read"
        /\ drafts' = [drafts EXCEPT ![Position(n)].kind = "PendingSteer"]
        /\ \/ tap' = [tap EXCEPT ![k] = "done"] /\ UNCHANGED req
           \/ /\ tap' = [tap EXCEPT ![k] = "steering"] /\ tapped[k][2] # 0
              /\ Send(k, "steer", n, tapped[k][2])
    BY <1>7, <2>0 DEF TapBegins, MayBegin
  <2>2. Keeps(m) /\ Marked(n, drafts')
    BY <2>1, KeepsMarking DEF QueueInv
  <2>3. CASE tap' = [tap EXCEPT ![k] = "done"] /\ UNCHANGED req
    BY <1>2, <1>3, <2>1, <2>2, <2>3
  <2>4. CASE /\ tap' = [tap EXCEPT ![k] = "steering"] /\ tapped[k][2] # 0
             /\ Send(k, "steer", n, tapped[k][2])
    <3>0. tapped[k][2] \in Nat
      BY <2>1 DEF TypeOK
    <3>1. (\A b \in Actors \ {k} : req'[b] = req[b]) /\ req'[k] = Request("steer", n, tapped[k][2])
      BY <1>0, <2>4, <3>0, SendTypes
    <3>2. req'[k].msg = n /\ req'[k].op = "steer" /\ req'[k].turn = tapped[k][2]
      BY <3>1 DEF Request
    <3>3. ASSUME NEW l \in Taps \ {k} PROVE Steers(l, m)' <=> Steers(l, m)
      BY <1>0, <2>1, <2>4 DEF Steers
    <3>4. CASE n # m
      <4>1. ~Steers(k, m)'
        BY <2>0, <2>1, <3>0, <3>4 DEF Steers
      <4>2. Untaken(m)'
        BY <1>0, <1>1, <3>1, <3>2, <3>4 DEF Untaken, Once
      <4> QED BY <1>0, <1>1, <2>2, <3>1, <3>3, <4>1, <4>2, KeepsOnce DEF Waiting
    <3>5. CASE n = m
      <4>1. Position(m) \in 1..Len(drafts) /\ drafts[Position(m)].msg = m
            /\ drafts[Position(m)].kind # "PendingSteer"
        BY <2>1, <3>5, PositionIs
      <4>2. ~Marked(m, drafts) /\ ~Missing(m, drafts)
        BY <4>1 DEF Marked, Missing
      <4>3. \A l \in Taps : Steers(l, m)' => l = k
        BY <3>3, <4>2 DEF Once, OneTap
      <4>4. OneTap(m)'
        BY <2>2, <3>5, <4>3 DEF OneTap
      <4>5. ASSUME Takeable(k)' PROVE runs[m] = 0
        <5>1. tapped[k][2] = turn /\ tapped[k][2] # 0
          BY <1>0, <2>4, <3>2, <4>5 DEF Takeable
        <5>2. active # 0
          BY <2>1, <5>1 DEF ByTurn, TapsInTurn, Tapped
        <5> QED BY <4>2, <5>2 DEF Once, Leaves
      <4>6. Untaken(m)'
        BY <1>0, <1>1, <3>1, <4>5 DEF Untaken, Once
      <4>7. Leaves(m)'
        BY <1>0, <2>2 DEF Once, Leaves, Keeps
      <4>8. ListenerSends(m)'
        BY <1>1, <2>2, <3>1 DEF Once, ListenerSends, Keeps, Waiting
      <4> QED BY <1>1, <3>1, <4>4, <4>6, <4>7, <4>8 DEF Once
    <3> QED BY <3>4, <3>5
  <2> QED BY <2>1, <2>3, <2>4
<1> QED
  BY <1>4, <1>5, <1>6, <1>7 DEF Tapping

\* of the listener
LEMMA OnceListening ==
  ASSUME TypeOK, ByTurn, QueueInv, AskInv, Listening, NEW m \in Messages, Once(m)
  PROVE  Once(m)'
<1>0. /\ UNCHANGED <<tap, tapped, turn, runs>> /\ m # Listener /\ m \in Actors /\ Listener \in Actors
      /\ \A k \in Taps : Steers(k, m)' <=> Steers(k, m)
      /\ drafts \in Seq(Drafts) /\ Len(drafts) \in Nat
  BY Casting
  DEF Listening, SeeTurnStarted, SeeUserItem, SeeTurnCompleted, SendNext, NextSent, taps, server,
      Steers, TypeOK
<1>1. ASSUME UNCHANGED req PROVE Own(m)' /\ Untaken(m)'
  BY <1>0, <1>1 DEF Own, Untaken, Once, Takeable, Waiting
<1>2. ASSUME listener = "idle" PROVE req[Listener] = NoRequest
  BY <1>2 DEF AskInv, ListenerAsks
<1>3. CASE SeeTurnStarted \/ SeeUserItem
  <2>1. drafts' = DropFirst(drafts) /\ listener = "idle" /\ UNCHANGED <<listener, req>>
    BY <1>3 DEF SeeTurnStarted, SeeUserItem, Take
  <2>a. PICK r \in Seq(Drafts) : r = drafts'
    BY <2>1, DropIs
  <2>2. Embeds(r, drafts)
    BY <2>1, <2>a, DropShrinks
  <2>3. (Missing(m, drafts) => Missing(m, r)) /\ (Marked(m, drafts) => Marked(m, r))
    BY <1>0, <2>2, EmbedsKeeps
  <2>4. ASSUME First(m, drafts) PROVE Missing(m, r)
    <3>1. drafts # <<>> /\ 1 \in 1..Len(drafts) /\ drafts[1].msg = m
      BY <1>0, <2>4 DEF First
    <3>2. Len(r) = Len(drafts) - 1 /\ \A i \in 1..Len(r) : r[i] = drafts[i + 1]
      BY <2>1, <2>a, <3>1, DropIs
    <3>3. \A i \in 1..Len(r) : i + 1 \in 1..Len(drafts) /\ i + 1 # 1
      BY <1>0, <3>2
    <3> QED BY <3>1, <3>2, <3>3 DEF Missing, Distinct, QueueInv
  <2>5. Leaves(m)'
    BY <1>0, <2>1, <2>3, <2>4, <2>a DEF Once, Leaves
  <2>6. ListenerSends(m)'
    BY <1>2, <2>1 DEF ListenerSends, Waiting
  <2>7. OneTap(m)'
    BY <1>0, <2>3, <2>a DEF Once, OneTap
  <2> QED BY <1>1, <2>1, <2>5, <2>6, <2>7 DEF Once
<1>4. CASE SeeTurnCompleted
  <2>1. /\ Take("TurnCompleted") /\ listener = "idle" /\ UNCHANGED req
        /\ drafts' = Retain(drafts, {d \in Drafts : d.kind # "PendingSteer"})
    BY <1>4 DEF SeeTurnCompleted, Take
  <2>b. PICK K : K = {d \in Drafts : d.kind # "PendingSteer"}
    OBVIOUS
  <2>a. PICK r \in Seq(Drafts) : r = Retain(drafts, K)
    BY <1>0, RetainShrinks
  <2>c. PICK f \in [1..Len(r) -> 1..Len(drafts)] :
          \A j \in 1..Len(r) : r[j] = drafts[f[j]] /\ r[j] \in K
    BY <1>0, <2>a, RetainEmbeds
  <2>2. \A j \in 1..Len(r) : r[j] = drafts[f[j]] /\ r[j].kind # "PendingSteer"
                             /\ f[j] \in 1..Len(drafts)
    BY <2>b, <2>c
  <2>3. ASSUME Marked(m, drafts) PROVE Missing(m, r)
    BY <2>2, <2>3 DEF Marked, Missing
  <2>4. ASSUME Missing(m, drafts) PROVE Missing(m, r)
    BY <2>2, <2>4 DEF Missing
  <2>5. ~OnItsWay
    BY <2>1, TakeIs DEF OnItsWay, Ends
  <2>6. Leaves(m)'
    BY <1>0, <2>1, <2>3, <2>4, <2>5, <2>a, <2>b DEF Once, Leaves
  <2>7. ListenerSends(m)'
    BY <1>2, <2>1 DEF ListenerSends, Waiting
  <2>8. OneTap(m)'
    <3>1. ASSUME NEW k \in Taps, Steers(k, m) PROVE Marked(m, r)
      <4>1. Missing(m, r)
        BY <2>3, <3>1 DEF Once, OneTap
      <4> QED BY <4>1 DEF Missing, Marked
    <3> QED BY <1>0, <2>1, <2>a, <2>b, <3>1 DEF Once, OneTap
  <2> QED BY <1>1, <2>1, <2>6, <2>7, <2>8 DEF Once
<1>5. CASE SendNext
  <2>1. UNCHANGED <<drafts, active, events>> /\ listener = "ended" /\ listener' # "ended"
    BY <1>5 DEF SendNext, store
  <2>2. Keeps(m) /\ (OnItsWay' <=> OnItsWay)
    BY <2>1, KeepsAll DEF OnItsWay, Ends
  <2>3. runs[m] # 0 => Missing(m, drafts)
    BY <2>1 DEF Once, Leaves
  <2>4. CASE UNCHANGED req
    BY <1>0, <1>1, <2>1, <2>2, <2>4, KeepsOnce DEF Waiting
  <2>5. CASE drafts # <<>> /\ Send(Listener, "start", Head(drafts).msg, 0)
    <3>1. Len(drafts) >= 1 /\ 1 \in 1..Len(drafts) /\ Head(drafts) = drafts[1]
      BY <1>0, <2>5
    <3>2. PICK n \in Messages : n = Head(drafts).msg
      BY <1>0, <3>1, DraftIs
    <3>3. (\A b \in Actors \ {Listener} : req'[b] = req[b]) /\ req'[Listener] = Request("start", n, 0)
      BY <1>0, <2>5, <3>2, SendTypes
    <3>4. req'[Listener].msg = n
      BY <3>3 DEF Request
    <3>5. n = m => runs[m] = 0 /\ First(m, drafts)
      BY <2>3, <3>1, <3>2 DEF Missing, First
    <3>6. Own(m)'
      BY <1>0, <3>3 DEF Own, Once
    <3>7. ASSUME NEW a \in Actors, Takeable(a)', req'[a].msg = m PROVE runs[m] = 0
      <4>1. CASE a = Listener
        BY <3>4, <3>5, <3>7, <4>1
      <4>2. CASE a # Listener
        BY <1>0, <3>3, <3>7, <4>2 DEF Takeable, Waiting, Once, Untaken
      <4> QED BY <4>1, <4>2
    <3>8. Untaken(m)'
      BY <1>0, <3>7 DEF Untaken
    <3>9. Leaves(m)'
      BY <1>0, <2>1, <2>3 DEF Leaves, Missing
    <3>10. ListenerSends(m)'
      BY <2>1, <3>4, <3>5 DEF ListenerSends, First
    <3>11. OneTap(m)'
      BY <1>0, <2>2 DEF Once, OneTap, Keeps
    <3> QED BY <3>6, <3>8, <3>9, <3>10, <3>11 DEF Once
  <2> QED BY <1>5, <2>4, <2>5 DEF SendNext, MaySend
<1>6. CASE NextSent
  <2>1. UNCHANGED <<drafts, active, events>> /\ listener' = "idle" /\ Clear(Listener)
    BY <1>6 DEF NextSent, store
  <2>2. Keeps(m) /\ (OnItsWay' <=> OnItsWay)
    BY <2>1, KeepsAll DEF OnItsWay, Ends
  <2>3. req'[Listener] = NoRequest /\ \A b \in Actors \ {Listener} : req'[b] = req[b]
    BY <1>0, <2>1, ClearTypes
  <2>4. Own(m)' /\ Untaken(m)'
    BY <1>0, <2>3 DEF Own, Untaken, Once, Takeable, Waiting
  <2> QED BY <1>0, <2>1, <2>2, <2>3, <2>4, KeepsOnce DEF Waiting
<1> QED BY <1>3, <1>4, <1>5, <1>6 DEF Listening

\* and of the server.
LEMMA OnceServing ==
  ASSUME TypeOK, ByTurn, ByTurn', QueueInv, AskInv, ~scenario.failing, NEW a \in Actors, Serving(a),
         NEW m \in Messages, Once(m)
  PROVE  Once(m)'
<1>0. /\ UNCHANGED <<active, drafts, listener, tap, tapped>>
      /\ m \in Actors /\ m # Listener /\ m \notin Taps /\ Listener \in Actors
      /\ \A k \in Taps : Steers(k, m)' <=> Steers(k, m)
  BY Casting DEF Serving, ServerBegins, ServerAdds, ServerRefuses, Accept, store, taps, Steers
<1>1. Waiting(a) /\ Keeps(m)
  BY <1>0, KeepsAll DEF Serving, ServerBegins, ServerAdds, ServerRefuses
<1>2. ASSUME NEW r \in {"ok", "error"}, NEW t \in Nat, Result(a, r, t)
      PROVE  /\ req'[a].msg = req[a].msg /\ req'[a].op = req[a].op /\ req'[a].result = r
             /\ req'[a] # NoRequest /\ ~Takeable(a)' /\ ~Waiting(a)'
             /\ \A b \in Actors \ {a} : req'[b] = req[b]
  BY <1>1, <1>2, ResultTypes DEF Takeable, Waiting
<1>3. CASE Refused(a)
  <2>0. UNCHANGED <<events, turn, runs>> /\ Result(a, "error", 0)
    BY <1>3 DEF Refused, server
  <2>1. /\ req'[a].msg = req[a].msg /\ req'[a].result = "error" /\ ~Takeable(a)' /\ ~Waiting(a)'
        /\ \A b \in Actors \ {a} : req'[b] = req[b]
    BY <1>2, <2>0
  <2>2. Own(m)'
    BY <1>0, <1>1, <2>0, <2>1 DEF Own, Once, Waiting
  <2>3. Untaken(m)'
    BY <2>0, <2>1 DEF Untaken, Once, Takeable, Waiting
  <2>4. OnItsWay' <=> OnItsWay
    BY <2>0 DEF OnItsWay, Ends
  <2>5. Waiting(Listener)' /\ req'[Listener].msg = m => Waiting(Listener) /\ req[Listener].msg = m
    BY <1>0, <2>1 DEF Waiting
  <2> QED BY <1>0, <1>1, <2>0, <2>2, <2>3, <2>4, <2>5, KeepsOnce
<1>4. ASSUME NEW es, NEW t, Taken(a, es, t) PROVE Once(m)'
  <2>0. Accept(a, t) /\ t \in Nat /\ turns \in Nat /\ turn \in Nat
    BY <1>4 DEF Taken, TypeOK
  <2>1. /\ req[a].msg \in Messages /\ runs' = [runs EXCEPT ![req[a].msg] = @ + 1]
        /\ Result(a, "ok", t)
    BY <1>1, <2>0, AcceptIs
  <2>a. runs \in [Messages -> Nat]
    BY DEF TypeOK
  <2>2. /\ req'[a].msg = req[a].msg /\ req'[a].result = "ok" /\ ~Takeable(a)' /\ ~Waiting(a)'
        /\ \A b \in Actors \ {a} : req'[b] = req[b]
    BY <1>2, <2>0, <2>1
  <2>3. turn' # 0 /\ (turn' = turn \/ turn' = turns + 1) /\ Takeable(a)
    BY <1>4, <2>0 DEF Taken, Takeable
  <2>4. OnItsWay => OnItsWay'
    BY <1>4, TakenEvents DEF OnItsWay, Ends
  <2>5. Waiting(Listener)' /\ req'[Listener].msg = m => Waiting(Listener) /\ req[Listener].msg = m
    BY <1>0, <2>2 DEF Waiting
  <2>6. ASSUME NEW b \in Actors \ Messages, Takeable(b)'
        PROVE  Takeable(b) /\ b # a /\ req'[b] = req[b]
    <3>1. b # a /\ req'[b] = req[b] /\ Waiting(b)
      BY <2>2, <2>6 DEF Takeable, Waiting
    <3>2. ASSUME req[b].op = "steer" PROVE req[b].turn = turn /\ turn # 0
      <4>1. req[b].turn = turn' /\ turn' # 0
        BY <2>6, <3>1, <3>2 DEF Takeable
      <4>2. CASE turn' = turn
        BY <4>1, <4>2
      <4>3. CASE b \in Taps
        <5>1. Tapped(b) /\ req[b].turn = tapped[b][2]
          BY <3>1, <4>3 DEF AskInv, TapAsks, Waiting, Tapped
        <5>2. tapped[b][2] <= turns
          BY <4>3, <5>1 DEF ByTurn, TapsInTurn
        <5> QED BY <2>0, <2>3, <4>1, <4>2, <5>1, <5>2
      <4>4. CASE b = Listener
        BY <3>1, <3>2, <4>4 DEF AskInv, ListenerAsks, Waiting
      <4> QED BY <4>3, <4>4 DEF Actors
    <3> QED BY <3>1, <3>2 DEF Takeable
  <2>7. CASE req[a].msg # m
    <3>1. runs'[m] = runs[m]
      BY <2>1, <2>7, <2>a
    <3>2. Own(m)'
      BY <1>0, <2>2, <2>7, <3>1 DEF Own, Once, AskInv, OwnAsks
    <3>3. ASSUME NEW b \in Actors, Takeable(b)', req'[b].msg = m PROVE runs'[m] = 0
      <4>1. CASE b \in Messages
        <5>1. b # a /\ req'[b] = req[b] /\ Waiting(b)
          BY <2>2, <3>3 DEF Takeable, Waiting
        <5>2. b = m
          BY <3>3, <4>1, <5>1 DEF AskInv, OwnAsks, Waiting
        <5> QED BY <3>1, <5>1, <5>2 DEF Waiting, Once, Own
      <4>2. CASE b \notin Messages
        BY <2>6, <3>1, <3>3, <4>2 DEF Once, Untaken
      <4> QED BY <4>1, <4>2
    <3>4. Untaken(m)'
      BY <3>3 DEF Untaken
    <3> QED BY <1>0, <1>1, <2>4, <2>5, <3>1, <3>2, <3>4, KeepsOnce
  <2>8. CASE req[a].msg = m
    <3>0. req[a] # NoRequest
      BY <1>1 DEF Waiting
    <3>1. runs[m] = 0 /\ runs'[m] = 1
      BY <2>1, <2>3, <2>8, <2>a DEF Once, Untaken
    <3>2. /\ a \in Messages => a = m /\ call[m] # "queued"
          /\ a \notin Messages => call[m] = "queued"
          /\ a = Listener => listener = "sending" /\ active = 0
          /\ a \in Taps => Steers(a, m) /\ active # 0 /\ listener = "idle"
      <4>1. CASE a \in Messages
        BY <2>8, <3>0, <4>1, Casting DEF AskInv, OwnAsks
      <4>2. CASE a = Listener
        BY <2>8, <3>0, <4>2, Casting DEF AskInv, ListenerAsks, ByTurn, Ended
      <4>3. CASE a \in Taps
        <5>1. Steers(a, m) /\ Tapped(a) /\ tapped[a][2] = turn /\ turn # 0
          BY <1>1, <2>3, <2>8, <3>0, <4>3 DEF AskInv, TapAsks, Steers, Tapped, Takeable
        <5>2. active # 0 /\ call[m] = "queued"
          BY <4>3, <5>1 DEF ByTurn, TapsInTurn, QueueInv, Steers
        <5> QED BY <4>3, <5>1, <5>2, Casting DEF ByTurn, Ended
      <4> QED BY <4>1, <4>2, <4>3 DEF Actors
    <3>3. req[m] # NoRequest => a = m
      BY <3>2 DEF AskInv, OwnAsks
    <3>4. Own(m)'
      BY <1>0, <2>2, <3>1, <3>3 DEF Own
    <3>5. ASSUME NEW b \in Actors, Takeable(b)', req'[b].msg = m PROVE FALSE
      <4>1. b # a /\ req'[b] = req[b] /\ Waiting(b) /\ req[b] # NoRequest
        BY <2>2, <3>5 DEF Takeable, Waiting
      <4>2. CASE b \in Messages
        BY <3>3, <3>5, <4>1, <4>2 DEF AskInv, OwnAsks
      <4>3. CASE b = Listener
        <5>1. call[m] = "queued" /\ active = 0
          BY <3>5, <4>1, <4>3 DEF AskInv, ListenerAsks, ByTurn, Ended
        <5> QED BY <3>2, <4>1, <4>3, <5>1 DEF Actors
      <4>4. CASE b \in Taps
        <5>1. Takeable(b) /\ Steers(b, m) /\ Tapped(b) /\ tapped[b][2] = turn /\ turn # 0
          BY <2>6, <3>5, <4>1, <4>4, Casting DEF AskInv, TapAsks, Steers, Tapped, Takeable
        <5>2. active # 0 /\ call[m] = "queued"
          BY <4>4, <5>1 DEF ByTurn, TapsInTurn, QueueInv, Steers
        <5>3. a \in Taps
          BY <3>2, <5>2 DEF Actors
        <5> QED BY <3>2, <4>1, <4>4, <5>1, <5>3 DEF Once, OneTap
      <4> QED BY <4>2, <4>3, <4>4 DEF Actors
    <3>6. Untaken(m)'
      BY <3>5 DEF Untaken
    <3>7. ASSUME ~Missing(m, drafts)
          PROVE  listener # "ended" /\ (Marked(m, drafts) \/ (First(m, drafts) /\ active = 0 /\ OnItsWay'))
      <4>1. a \notin Messages
        BY <3>2, <3>7 DEF QueueInv
      <4>2. CASE a \in Taps
        BY <3>2, <4>2 DEF Once, OneTap
      <4>3. CASE a = Listener
        <5>1. Marked(m, drafts) \/ First(m, drafts)
          BY <1>1, <2>8, <3>7, <4>3 DEF Once, ListenerSends
        <5>2. active' = 0 /\ active = 0 /\ listener = "sending"
          BY <1>0, <3>2, <4>3
        <5>3. Len(events') \in Nat
          BY <1>4, TakenEvents
        <5>4. PICK i \in 1..Len(events') : Begins(i)'
          BY <2>3, <5>2 DEF ByTurn, Opened
        <5>5. 1 \in 1..Len(events')
          BY <5>3, <5>4
        <5>6. ~Ends(1)'
          BY <5>2, <5>5 DEF ByTurn, Opened
        <5> QED BY <5>1, <5>2, <5>3, <5>5, <5>6 DEF OnItsWay
      <4> QED BY <4>1, <4>2, <4>3 DEF Actors
    <3>8. Leaves(m)'
      BY <1>0, <3>7 DEF Leaves
    <3>9. ~(Waiting(Listener)' /\ req'[Listener].msg = m)
      <4>1. SUFFICES ASSUME Waiting(Listener)', req'[Listener].msg = m PROVE FALSE
        OBVIOUS
      <4>2. a # Listener /\ req'[Listener] = req[Listener] /\ Waiting(Listener)
        BY <1>0, <2>2, <4>1 DEF Waiting
      <4>3. req'[Listener].op = "start"
        BY <4>2 DEF AskInv, ListenerAsks, Waiting
      <4> QED BY <1>0, <3>5, <4>1, <4>3 DEF Takeable
    <3>10. ListenerSends(m)'
      BY <3>9 DEF ListenerSends
    <3>11. OneTap(m)'
      BY <1>0, <1>1 DEF Once, OneTap, Keeps
    <3> QED BY <3>4, <3>6, <3>8, <3>10, <3>11 DEF Once
  <2> QED BY <2>7, <2>8
<1> QED BY <1>3, <1>4, ServingIs

\* In the beginning nothing has been taken.
LEMMA InitOnce == Init => OnceInv
<1> SUFFICES ASSUME Init, NEW m \in Messages PROVE Once(m)
  BY DEF OnceInv
<1>1. (\A a \in Actors : req[a] = NoRequest) /\ runs[m] = 0 /\ m \in Actors /\ Listener \in Actors
      /\ \A k \in Taps : tap[k] = "idle"
  BY Casting DEF Init
<1> QED
  BY <1>1 DEF Once, Own, Untaken, Leaves, ListenerSends, OneTap, Steers, Takeable, Waiting

\* No step has a message taken a second time.
LEMMA NextOnce ==
  TypeOK /\ ByTurn /\ FreshInv /\ QueueInv /\ AskInv /\ OnceInv /\ [Next]_vars => OnceInv'
<1> SUFFICES ASSUME TypeOK, ByTurn, FreshInv, QueueInv, AskInv, OnceInv, [Next]_vars,
                    ~scenario'.failing, NEW m \in Messages, m \notin undone'
             PROVE  Once(m)'
  BY DEF OnceInv
<1>0. UNCHANGED scenario
  <2>1. ASSUME NEW n \in Messages, ReadThread(n) \/ Starting(n) PROVE UNCHANGED scenario
    BY <2>1 DEF ReadThread, Starting, StartDirectly, Enqueue, SteerDirectly, SteerReturns, StartReturns
  <2>2. ASSUME NEW k \in Taps, Tapping(k) \/ \E n \in Messages : TapReads(k, n) PROVE UNCHANGED scenario
    BY <2>2 DEF Tapping, TapBegins, TapReturns, TapReads
  <2>3. ASSUME Listening \/ DeleteWrites \/ (\E n \in Messages : DeleteReads(n))
               \/ UNCHANGED vars \/ (\E a \in Actors : Serving(a)) \/ ServerCompletes
        PROVE  UNCHANGED scenario
    BY <2>3
    DEF DeleteWrites, DeleteReads, Listening, vars, SeeTurnStarted, SeeUserItem, SeeTurnCompleted,
        SendNext, NextSent, Serving, ServerBegins, ServerAdds, ServerRefuses, Accept, ServerCompletes
  <2> QED BY <2>1, <2>2, <2>3 DEF Next
<1>1. ASSUME m \notin undone PROVE Once(m)
  BY <1>0, <1>1 DEF OnceInv
<1>2. ASSUME UNCHANGED <<active, listener, tap, tapped, req, turn, runs>>, OnItsWay => OnItsWay',
             Keeps(m), m \notin undone
      PROVE  Once(m)'
  <2>1. Own(m)' /\ Untaken(m)' /\ Once(m)
    BY <1>1, <1>2 DEF Once, Own, Untaken, Takeable, Waiting
  <2> QED BY <1>2, <2>1, KeepsOnce DEF Waiting, Steers
<1>3. ASSUME NEW n \in Messages, ReadThread(n) \/ Starting(n) PROVE Once(m)'
  <2>1. UNCHANGED undone
    BY <1>3 DEF ReadThread, Starting, StartDirectly, Enqueue, SteerDirectly, SteerReturns,
                StartReturns, deleting
  <2> QED BY <1>1, <1>3, <2>1, OnceStarting
<1>4. ASSUME NEW k \in Taps, Tapping(k) \/ \E n \in Messages : TapReads(k, n) PROVE Once(m)'
  <2>1. UNCHANGED undone
    BY <1>4 DEF Tapping, TapBegins, TapReturns, TapReads, deleting
  <2> QED BY <1>1, <1>4, <2>1, OnceTapping
<1>5. CASE Listening
  <2>1. UNCHANGED undone
    BY <1>5 DEF Listening, SeeTurnStarted, SeeUserItem, SeeTurnCompleted, SendNext, NextSent, deleting
  <2> QED BY <1>1, <1>5, <2>1, OnceListening
<1>6. ASSUME NEW a \in Actors, Serving(a) PROVE Once(m)'
  <2>1. UNCHANGED undone
    BY <1>6 DEF Serving, ServerBegins, ServerAdds, ServerRefuses, Accept, deleting
  <2>2. ByTurn'
    BY NextByTurn
  <2> QED BY <1>0, <1>1, <1>6, <2>1, <2>2, OnceServing
<1>7. CASE ServerCompletes
  <2>1. /\ UNCHANGED <<drafts, active, listener, tap, tapped, req, runs, undone>>
        /\ turn' = 0
    BY <1>7 DEF ServerCompletes, store, taps, deleting
  <2>2. OnItsWay => OnItsWay'
    BY <1>7, CompletesIs DEF OnItsWay, Ends
  <2>3. Once(m)
    BY <1>1, <2>1
  <2>4. Own(m)' /\ Untaken(m)'
    BY <2>1, <2>3 DEF Once, Own, Untaken, Takeable, Waiting
  <2> QED BY <2>1, <2>2, <2>3, <2>4, KeepsAll, KeepsOnce DEF Waiting, Steers
<1>8. CASE DeleteWrites
  <2>1. undone = {} /\ UNCHANGED <<active, events, listener, tap, tapped, req, turn, runs>>
    BY <1>8 DEF DeleteWrites, QueueInv, store, taps, server
  <2> QED BY <1>2, <1>8, <2>1, KeepsDeleting DEF OnItsWay, Ends
<1>9. CASE (\E n \in Messages : DeleteReads(n)) \/ UNCHANGED vars
  <2>1. UNCHANGED <<drafts, undone, active, events, listener, tap, tapped, req, turn, runs>>
    BY <1>9 DEF DeleteReads, vars, store, taps, server, deleting
  <2> QED BY <1>2, <2>1, KeepsAll DEF OnItsWay, Ends
<1> QED BY <1>3, <1>4, <1>5, <1>6, <1>7, <1>8, <1>9 DEF Next

\* The inductive invariant of the queue.
QueueIInv == TypeOK /\ ByTurn /\ FreshInv /\ QueueInv /\ AskInv /\ OnceInv /\ NoDoubleBubble

\* It holds.
LEMMA QueueInvariant == Spec => []QueueIInv
<1>1. Init => QueueIInv
  BY InitTypes, InitByTurn, InitFresh, InitQueue, InitAsks, InitOnce, InitBubbles DEF QueueIInv
<1>2. QueueIInv /\ [Next]_vars => QueueIInv'
  BY NextTypes, NextByTurn, NextFresh, NextQueue, NextAsks, NextOnce, NextBubbles DEF QueueIInv
<1> QED BY <1>1, <1>2, PTL DEF Spec

\* The queue, the overlays and the events keep their types (start_turn, queue handling of
\* the reducer).
THEOREM QueueTypeCorrect == Spec => []TypeOK
<1>1. QueueIInv => TypeOK
  BY DEF QueueIInv
<1> QED BY <1>1, QueueInvariant, PTL

\* A message is not shown twice, as overlay and as item, however the response, the turn
\* and the item come (stage_local_user_message_overlay, SeeUserItem).
THEOREM BubblesOnce == Spec => []NoDoubleBubble
<1>1. QueueIInv => NoDoubleBubble
  BY DEF QueueIInv
<1> QED BY <1>1, QueueInvariant, PTL

\* While no answer is lost, the server takes each message at most once, but for those a
\* deletion may have put back on the queue (start_turn, steer_queued_follow_up and what
\* the listener sends when a turn has ended).
THEOREM MessagesOnce == Spec => []MessageOnce
<1>1. QueueIInv => MessageOnce
  BY DEF QueueIInv, OnceInv, Once, Own, MessageOnce
<1> QED BY <1>1, QueueInvariant, PTL

-----------------------------------------------------------------------------
\* What a lane of a pass and an entry of the store are.
LaneType == [at : {"idle", "asking", "got", "over", "failed"},
             cursor : 1..(N + 1), page : 0..N, live : BOOLEAN, more : BOOLEAN]
EntryType == [there : BOOLEAN, turn : BOOLEAN, status : {"idle", "active"}]

\* What a list that prunes has seen: everything from its cursor on, and when a runtime is
\* through, everything.
Seen(p, r, c) == \A t \in old[p] \ gone : RuntimeOf[t] = r /\ t >= c => t \in ids[p]

\* What the lane r of the pass p has still to see is behind its cursor.
SeenFrom(p, r) ==
  /\ lane[p][r].at = "asking" => Seen(p, r, lane[p][r].cursor)
  /\ lane[p][r].at = "got" =>
       \A t \in old[p] \ gone :
         /\ RuntimeOf[t] = r
         /\ t > lane[p][r].page \/ ~lane[p][r].more
         => t \in ids[p] \cup {lane[p][r].page}
  /\ lane[p][r].at = "got" /\ lane[p][r].more => lane[p][r].page # 0
  /\ lane[p][r].at = "over" => Seen(p, r, 0)

\* That is so in every list that prunes.
Covered == \A p \in Polls \cup Drains, r \in Runtimes : SeenFrom(p, r)

\* The inductive invariant of the lists.
ListInv == ListTypeOK /\ (\A p \in Passes : old[p] \subseteq made) /\ Covered

\* A set of threads that is not empty has a newest one.
LEMMA NewestIs ==
  ASSUME NEW S, S \subseteq Threads, S # {}
  PROVE  Newest(S) \in S /\ \A u \in S : u <= Newest(S)
<1> DEFINE B == {n \in Nat : \A u \in S : u <= n}
<1>1. N \in B
  BY ListAssumption DEF Threads
<1>2. \E x \in B : \A y \in B : ~ (<<y, x>> \in OpToRel(<,Nat))
  BY <1>1, NatLessThanWellFounded, WFMin
<1>3. PICK x \in B : \A y \in B : ~ (y < x)
  BY <1>2 DEF OpToRel
<1>4. x \in S
  <2>1. SUFFICES ASSUME x \notin S PROVE FALSE
    OBVIOUS
  <2>a. x \in Nat /\ \A u \in S : u <= x
    OBVIOUS
  <2>2. PICK u : u \in S
    OBVIOUS
  <2>3. \A v \in S : v \in Nat /\ v <= x /\ v # x
    BY <2>1, <2>a, ListAssumption DEF Threads
  <2>4. u \in Nat /\ 1 <= u
    BY <2>2, ListAssumption DEF Threads
  <2>5. x - 1 \in Nat
    BY <2>a, <2>2, <2>4
  <2>6. x - 1 \in B
    BY <2>a, <2>3, <2>5
  <2> QED BY <1>3, <2>a, <2>6
<1>5. \E t \in S : \A u \in S : u <= t
  BY <1>4
<1> HIDE DEF B
<1> QED BY <1>5 DEF Newest

\* What a page is made of.
LEMMA Lanes ==
  ASSUME NEW f \in [Passes -> [Runtimes -> LaneType]], NEW p \in Passes,
         NEW r \in Runtimes, NEW l \in LaneType
  PROVE  [f EXCEPT ![p][r] = l] \in [Passes -> [Runtimes -> LaneType]]
OBVIOUS

\* A lane that does nothing has its type,
LEMMA IdleLane == Idle \in LaneType
BY ListAssumption DEF Idle, LaneType

\* and so have those that begin, fail and are through.
LEMMA IdleLanes ==
  ASSUME NEW f \in LaneType
  PROVE  /\ [f EXCEPT !.at = "asking"] \in LaneType
         /\ [f EXCEPT !.at = "failed"] \in LaneType
         /\ [f EXCEPT !.at = "over"] \in LaneType
BY DEF LaneType

\* In the beginning no pass is under way.
LEMMA ListInitInv == ListInit => ListInv
<1> SUFFICES ASSUME ListInit PROVE ListInv
  OBVIOUS
<1> USE DEF ListInit
<1>1. course \in Course
  BY ListAssumption
<1>2. ListTypeOK
  BY <1>1, IdleLane DEF ListTypeOK, LaneType, Course, Absent, Entry, InStore
<1>3. Covered
  BY ListAssumption DEF Covered, SeenFrom, Seen, Idle, Passes
<1> QED
  BY <1>2, <1>3 DEF ListInv

\* A step that leaves the passes alone.
LEMMA PassesRest ==
  ASSUME ListInv, UNCHANGED passes, gone \subseteq gone', made \subseteq made', ListTypeOK'
  PROVE  ListInv'
<1>1. \A p \in Passes : old[p]' \subseteq made'
  BY DEF ListInv, passes
<1>2. Covered'
  BY DEF ListInv, Covered, SeenFrom, Seen, passes
<1> QED
  BY <1>1, <1>2 DEF ListInv

\* An event goes to the end of the feed.
LEMMA Notices ==
  ASSUME ListTypeOK, NEW t \in Threads, NEW k \in Kinds, Notify(k, t) \/ MayNotify(k, t)
  PROVE  feed' \in Seq(Kinds \X Threads)
<1>1. <<k, t>> \in Kinds \X Threads
  OBVIOUS
<1>2. feed \in Seq(Kinds \X Threads)
  BY DEF ListTypeOK
<1>3. Append(feed, <<k, t>>) \in Seq(Kinds \X Threads)
  BY <1>1, <1>2, AppendProperties
<1> QED
  BY <1>2, <1>3 DEF Notify, MayNotify

\* Steps of the server keep the types.
ServerStep(t) ==
  Make(t) \/ Delete(t) \/ BeginTurn(t) \/ Ask(t) \/ EndTurn(t) \/ Report(t)

LEMMA ServerTypes ==
  ASSUME ListTypeOK, NEW t \in Threads, ServerStep(t)
  PROVE  ListTypeOK' /\ UNCHANGED passes /\ gone \subseteq gone' /\ made \subseteq made'
<1>1. feed' \in Seq(Kinds \X Threads)
  BY Notices DEF ServerStep, Make, Delete, BeginTurn, Ask, EndTurn, Report, Kinds
<1>2. CASE Make(t)
  BY <1>1, <1>2 DEF ListTypeOK, Make, passes, app
<1>3. CASE Delete(t)
  BY <1>1, <1>3 DEF ListTypeOK, Delete, passes, app, Exists
<1>4. CASE BeginTurn(t)
  BY <1>1, <1>4 DEF ListTypeOK, BeginTurn, passes, app, Exists
<1>5. CASE Ask(t)
  BY <1>1, <1>5 DEF ListTypeOK, Ask, passes, app
<1>6. CASE EndTurn(t)
  BY <1>1, <1>6 DEF ListTypeOK, EndTurn, passes, app
<1>7. CASE Report(t)
  BY <1>1, <1>7 DEF ListTypeOK, Report, passes, app, listServer
<1> QED
  BY <1>2, <1>3, <1>4, <1>5, <1>6, <1>7 DEF ServerStep

\* So do those of the app beside the passes.
AppStep ==
  \/ \E t \in Threads : StartAnswered(t) \/ Approve(t)
  \/ \E t \in Threads : \E inOne \in BOOLEAN : StartStored(t, inOne)
  \/ \E t \in Threads \cup {0} : Open(t)
  \/ \E h \in {"connected", "connecting", "disconnected"} : Flap(h)
  \/ HearEvent \/ EndSync

LEMMA Afters == \A e \in EntryType : \A k \in Kinds : After(k, e) \in EntryType
BY DEF After, Entry, EntryType, Kinds, Absent

\* What an event does to the store.
LEMMA HeardIs ==
  ASSUME HearEvent, NEW k, NEW t, Head(feed) = <<k, t>>
  PROVE  /\ known' = [known EXCEPT ![t] = After(k, @)]
         /\ revived' = IF k \in {"active", "ask"} THEN revived ELSE revived \ {t}
<1> DEFINE a == Head(feed)[1]
           b == Head(feed)[2]
<1>1. /\ known' = [known EXCEPT ![b] = After(a, @)]
      /\ revived' = IF a \in {"active", "ask"} THEN revived ELSE revived \ {b}
  BY DEF HearEvent
<1>2. a = k /\ b = t
  OBVIOUS
<1> HIDE DEF a, b
<1> QED
  BY <1>1, <1>2

LEMMA AppTypes ==
  ASSUME ListTypeOK, AppStep
  PROVE  ListTypeOK' /\ UNCHANGED <<passes, gone, made>>
<1>a. course \in Course
  BY ListAssumption DEF ListTypeOK
<1>b. known \in [Threads -> EntryType]
  BY DEF ListTypeOK, EntryType
<1>1. ASSUME NEW t \in Threads, StartAnswered(t)
      PROVE  ListTypeOK' /\ UNCHANGED <<passes, gone, made>>
  <2>1. known[t].turn \in BOOLEAN
    BY <1>b DEF EntryType
  <2>2. starts' \subseteq Threads \X BOOLEAN
    BY <1>1, <2>1 DEF ListTypeOK, StartAnswered
  <2> QED
    BY <1>1, <2>2 DEF ListTypeOK, StartAnswered, passes
<1>2. ASSUME NEW t \in Threads, NEW inOne \in BOOLEAN, StartStored(t, inOne)
      PROVE  ListTypeOK' /\ UNCHANGED <<passes, gone, made>>
  <2>1. Entry(inOne, IF inOne THEN "active" ELSE "idle") \in EntryType
    BY DEF Entry, EntryType
  <2>2. known' \in [Threads -> EntryType]
    BY <1>b, <1>2, <2>1 DEF StartStored
  <2> QED
    BY <1>2, <2>2 DEF ListTypeOK, StartStored, passes, listServer, EntryType
<1>3. ASSUME NEW t \in Threads, Approve(t)
      PROVE  ListTypeOK' /\ UNCHANGED <<passes, gone, made>>
  BY <1>3 DEF ListTypeOK, Approve, passes
<1>4. ASSUME NEW t \in Threads \cup {0}, Open(t)
      PROVE  ListTypeOK' /\ UNCHANGED <<passes, gone, made>>
  BY <1>4 DEF ListTypeOK, Open, passes, listServer
<1>5. ASSUME NEW h \in {"connected", "connecting", "disconnected"}, Flap(h)
      PROVE  ListTypeOK' /\ UNCHANGED <<passes, gone, made>>
  BY <1>5, <1>a DEF ListTypeOK, Flap, passes, listServer, app, Course
<1>6. ASSUME HearEvent PROVE ListTypeOK' /\ UNCHANGED <<passes, gone, made>>
  <2>0. Head(feed) \in Kinds \X Threads /\ Tail(feed) \in Seq(Kinds \X Threads)
    BY <1>6 DEF ListTypeOK, HearEvent
  <2>1. PICK k \in Kinds, t \in Threads : Head(feed) = <<k, t>>
    BY <2>0
  <2>2. After(k, known[t]) \in EntryType
    BY <1>b, Afters
  <2>3. known' = [known EXCEPT ![t] = After(k, known[t])]
    BY <1>6, <2>1, HeardIs
  <2>4. known' \in [Threads -> EntryType]
    BY <1>b, <2>2, <2>3
  <2>5. prompted' \subseteq Threads /\ screen' \in Threads \cup {0} /\ revived' \subseteq Threads
    BY <1>6, <2>1 DEF ListTypeOK, HearEvent
  <2> QED
    BY <1>6, <2>0, <2>4, <2>5 DEF ListTypeOK, HearEvent, passes, listServer, EntryType
<1>7. ASSUME EndSync PROVE ListTypeOK' /\ UNCHANGED <<passes, gone, made>>
  BY <1>7 DEF ListTypeOK, EndSync, passes, listServer, app
<1> QED
  BY <1>1, <1>2, <1>3, <1>4, <1>5, <1>6, <1>7 DEF AppStep

\* A step of one lane of a pass, which may have seen more.
LEMMA LaneSteps ==
  ASSUME ListInv, UNCHANGED <<made, gone, old>>, ListTypeOK',
         NEW p \in Passes, NEW r \in Runtimes, NEW l, lane' = [lane EXCEPT ![p][r] = l],
         \A q \in Passes : ids[q] \subseteq ids'[q],
         p \in Polls \cup Drains => SeenFrom(p, r)'
  PROVE  ListInv'
<1>1. \A q \in Passes : old'[q] \subseteq made'
  BY DEF ListInv
<1>2. lane \in [Passes -> [Runtimes -> LaneType]]
  BY DEF ListInv, ListTypeOK, LaneType
<1>3. ASSUME NEW q \in Polls \cup Drains, NEW s \in Runtimes PROVE SeenFrom(q, s)'
  <2>1. CASE q = p /\ s = r
    BY <2>1, <1>3
  <2>2. CASE q # p \/ s # r
    <3>1. q \in Passes
      BY DEF Passes
    <3>2. lane'[q][s] = lane[q][s] /\ ids[q] \subseteq ids'[q]
      BY <2>2, <1>2, <3>1
    <3>3. SeenFrom(q, s)
      BY DEF ListInv, Covered
    <3> QED
      BY <3>2, <3>3 DEF SeenFrom, Seen
  <2> QED
    BY <2>1, <2>2
<1> QED
  BY <1>1, <1>3 DEF ListInv, Covered

\* A step that puts all the lanes of a pass where they have nothing to show.
LEMMA AllLanesStep ==
  ASSUME ListInv, UNCHANGED <<made, gone>>, ListTypeOK', NEW p \in Passes,
         \A q \in Passes \ {p} : lane'[q] = lane[q] /\ ids'[q] = ids[q] /\ old'[q] = old[q],
         old'[p] \subseteq made, p \in Polls \cup Drains => \A r \in Runtimes : SeenFrom(p, r)'
  PROVE  ListInv'
<1>1. \A q \in Passes : old'[q] \subseteq made'
  BY DEF ListInv
<1>2. ASSUME NEW q \in Polls \cup Drains, NEW s \in Runtimes PROVE SeenFrom(q, s)'
  <2>1. CASE q = p
    BY <2>1
  <2>2. CASE q # p
    <3>1. q \in Passes
      BY DEF Passes
    <3> QED
      BY <3>1, <2>2 DEF ListInv, Covered, SeenFrom, Seen
  <2> QED
    BY <2>1, <2>2
<1> QED
  BY <1>1, <1>2 DEF ListInv, Covered

\* A list begins: nothing has been seen, and nothing is behind the cursor but everything.
LEMMA BeginKeeps ==
  ASSUME ListInv, NEW p \in Passes, BeginPass(p)
  PROVE  ListInv'
<1>1. Exists \subseteq made /\ made \subseteq Threads
  BY DEF ListInv, ListTypeOK, Exists
<1>2. lane' \in [Passes -> [Runtimes -> LaneType]]
  <2>1. \A S : [r \in Runtimes |-> IF r \in S THEN [Idle EXCEPT !.at = "asking"] ELSE Idle]
                \in [Runtimes -> LaneType]
    BY IdleLane, IdleLanes
  <2> QED
    <3>1. PICK S \in Fanned(p) : lane' = [lane EXCEPT ![p] = [r \in Runtimes |->
                     IF r \in S THEN [Idle EXCEPT !.at = "asking"] ELSE Idle]]
      BY DEF BeginPass
    <3> DEFINE l == [r \in Runtimes |-> IF r \in S THEN [Idle EXCEPT !.at = "asking"] ELSE Idle]
    <3>2. l \in [Runtimes -> LaneType] /\ lane' = [lane EXCEPT ![p] = l]
      BY <2>1, <3>1
    <3>3. lane \in [Passes -> [Runtimes -> LaneType]]
      BY DEF ListInv, ListTypeOK, LaneType
    <3> HIDE DEF l
    <3> QED
      BY <3>2, <3>3
<1>a. asked' \in [Passes -> SUBSET Runtimes]
  <2>1. Fanned(p) \subseteq SUBSET Runtimes
    BY ListAssumption DEF Fanned
  <2> QED
    BY <2>1 DEF ListInv, ListTypeOK, BeginPass
<1>3. ListTypeOK'
  BY <1>1, <1>2, <1>a DEF ListInv, ListTypeOK, LaneType, BeginPass, app, listServer
<1>4. ASSUME NEW r \in Runtimes PROVE SeenFrom(p, r)'
  <2>1. lane'[p][r].at \in {"idle", "asking"} /\ lane'[p][r].cursor = N + 1
    BY DEF ListInv, ListTypeOK, BeginPass, Idle
  <2>2. old'[p] \subseteq Threads
    BY <1>1 DEF ListInv, ListTypeOK, BeginPass
  <2> QED
    BY <2>1, <2>2, ListAssumption DEF SeenFrom, Seen, Threads
<1> QED
  BY <1>1, <1>3, <1>4, AllLanesStep DEF BeginPass, ListInv, ListTypeOK, listServer

\* A list that is over asks nothing any more.
LEMMA Resets ==
  ASSUME ListInv, NEW p \in Passes, Reset(p), UNCHANGED <<made, gone>>, ListTypeOK'
  PROVE  ListInv'
<1>1. ASSUME NEW r \in Runtimes PROVE SeenFrom(p, r)'
  BY DEF ListInv, ListTypeOK, Reset, SeenFrom, Idle
<1> QED
  BY <1>1, AllLanesStep DEF Reset, ListInv, ListTypeOK

\* Its lanes have their types.
LEMMA ResetTypes ==
  ASSUME ListTypeOK, NEW p \in Passes, Reset(p)
  PROVE  /\ lane' \in [Passes -> [Runtimes -> LaneType]]
         /\ ids' \in [Passes -> SUBSET Threads] /\ old' \in [Passes -> SUBSET Threads]
         /\ stage' \in [Passes -> {"idle", "open", "done"}]
         /\ asked' \in [Passes -> SUBSET Runtimes]
<1>1. [r \in Runtimes |-> Idle] \in [Runtimes -> LaneType]
  BY IdleLane
<1> QED
  BY <1>1 DEF ListTypeOK, LaneType, Reset

\* Pruning takes threads away, and what goes with them.
LEMMA PruneTypes ==
  ASSUME ListTypeOK, NEW keep
  PROVE  /\ Prune(known, keep) \in [Threads -> EntryType]
         /\ Forget(keep) => prompted' \subseteq Threads /\ screen' \in Threads \cup {0}
BY DEF ListTypeOK, Prune, Pruned, Forget, EntryType, Absent

\* A pass prunes and ends,
LEMMA FinalizeKeeps ==
  ASSUME ListInv, NEW p \in Passes, Finalize(p)
  PROVE  ListInv'
<1>1. ListTypeOK'
  BY ResetTypes, PruneTypes
  DEF ListInv, ListTypeOK, Finalize, listServer, LaneType, EntryType
<1> QED
  BY <1>1, Resets DEF Finalize, listServer

\* or gives up,
LEMMA GiveUpKeeps ==
  ASSUME ListInv, NEW p \in Passes, GiveUp(p)
  PROVE  ListInv'
<1>1. ListTypeOK'
  BY ResetTypes DEF ListInv, ListTypeOK, GiveUp, listServer, app, LaneType
<1> QED
  BY <1>1, Resets DEF GiveUp, listServer

\* or is the list of a tool call.
LEMMA ToolKeeps ==
  ASSUME ListInv, NEW p \in Passes, ToolSync(p)
  PROVE  ListInv'
<1> DEFINE t == lane[p][Default].page
           keep == {t} \ {0}
           left == Prune(known, keep)
<1>0. t \in Threads \cup {0}
  BY ListAssumption DEF ListInv, ListTypeOK, Threads
<1>a. ListTypeOK
  BY DEF ListInv
<1>b. left \in [Threads -> EntryType]
  BY <1>a, PruneTypes
<1>1. Forget(keep)
  BY DEF ToolSync
<1>c. prompted' \subseteq Threads /\ screen' \in Threads \cup {0}
  BY <1>a, <1>1, PruneTypes
<1>2. known' = IF t = 0 THEN left ELSE Merge(left, t, lane[p][Default].live)
  BY DEF ToolSync
<1> HIDE DEF t, keep, left
<1>3. known' \in [Threads -> EntryType]
  <2>1. CASE t = 0
    BY <1>b, <1>2, <2>1
  <2>2. CASE t \in Threads
    <3>1. t # 0
      BY <2>2, ListAssumption DEF Threads
    <3>2. PICK e \in EntryType : known' = [left EXCEPT ![t] = e]
      <4>1. left[t].turn \in BOOLEAN
        BY <1>b, <2>2 DEF EntryType
      <4> DEFINE new == Entry(left[t].turn, IF lane[p][Default].live \/ left[t].turn
                                            THEN "active" ELSE "idle")
      <4>2. new \in EntryType
        BY <4>1 DEF Entry, EntryType
      <4>3. known' = [left EXCEPT ![t] = new]
        BY <1>2, <3>1 DEF Merge
      <4> QED
        BY <4>2, <4>3
    <3> QED
      BY <1>b, <3>2, <2>2
  <2> QED
    BY <1>0, <2>1, <2>2
<1>4. ListTypeOK'
  BY <1>c, <1>3, ResetTypes
  DEF ListInv, ListTypeOK, ToolSync, listServer, LaneType, EntryType
<1> QED
  BY <1>4, Resets DEF ToolSync, listServer

\* A page fails,
LEMMA FailKeeps ==
  ASSUME ListInv, NEW p \in Passes, NEW r \in Runtimes, Fail(p, r)
  PROVE  ListInv'
<1> DEFINE l == [lane[p][r] EXCEPT !.at = "failed"]
<1>a. lane[p][r] \in LaneType
  BY DEF ListInv, ListTypeOK, LaneType
<1>1. l \in LaneType /\ l.at = "failed"
  BY <1>a, IdleLanes DEF LaneType
<1>2. lane' = [lane EXCEPT ![p][r] = l] /\ lane'[p][r] = l
  BY DEF Fail, ListInv, ListTypeOK
<1>3. lane' \in [Passes -> [Runtimes -> LaneType]]
  BY <1>1, <1>2, Lanes DEF ListInv, ListTypeOK, LaneType
<1>4. course \in Course
  BY ListAssumption DEF ListInv, ListTypeOK
<1>5. ListTypeOK'
  BY <1>3, <1>4 DEF ListInv, ListTypeOK, LaneType, Fail, app, listServer, Course
<1>6. SeenFrom(p, r)'
  BY <1>1, <1>2 DEF SeenFrom, LaneType
<1> QED
  BY <1>2, <1>5, <1>6, LaneSteps DEF Fail, listServer, ListInv, ListTypeOK

\* a page comes,
LEMMA AnswerKeeps ==
  ASSUME ListInv, NEW p \in Passes, NEW r \in Runtimes, Answer(p, r)
  PROVE  ListInv'
<1> DEFINE S == Older(r, lane[p][r].cursor)
           t == IF S = {} THEN 0 ELSE Newest(S)
           l == [lane[p][r] EXCEPT !.at = "got", !.page = t, !.live = t \in inTurn,
                                   !.more = S \ {t} # {}]
<1>1. /\ S \subseteq Threads /\ t \in {0} \cup S
      /\ \A u \in S : u <= t
  BY NewestIs, ListAssumption DEF Older, Exists, ListInv, ListTypeOK, Threads
<1>0. t \in 0..N
  BY <1>1, ListAssumption DEF Threads
<1>b. lane[p][r] \in LaneType
  BY DEF ListInv, ListTypeOK, LaneType
<1>2. /\ l \in LaneType /\ l.at = "got" /\ l.page = t /\ l.more = (S \ {t} # {})
  <2>1. PICK a : a = (t \in inTurn)
    OBVIOUS
  <2>2. PICK b : b = (S \ {t} # {})
    OBVIOUS
  <2> HIDE DEF t, S
  <2>3. l = [lane[p][r] EXCEPT !.at = "got", !.page = t, !.live = a, !.more = b]
    BY <2>1, <2>2, Zenon
  <2> HIDE DEF l
  <2>4. l \in LaneType /\ l.at = "got" /\ l.page = t /\ l.more = b
    <3>1. a \in BOOLEAN /\ b \in BOOLEAN
      BY <2>1, <2>2
    <3>2. l.at = "got" /\ l.page = t /\ l.more = b
      BY <1>b, <2>3 DEF LaneType
    <3> QED
      BY <1>b, <1>0, <2>3, <3>1, <3>2 DEF LaneType
  <2> QED
    BY <2>2, <2>4
<1>3. lane' = [lane EXCEPT ![p][r] = l]
  BY DEF Answer
<1>a. lane'[p][r] = l
  BY <1>3 DEF ListInv, ListTypeOK
<1>4. lane' \in [Passes -> [Runtimes -> LaneType]]
  BY <1>2, <1>3, Lanes DEF ListInv, ListTypeOK, LaneType
<1>5. ListTypeOK'
  BY <1>4 DEF ListInv, ListTypeOK, LaneType, Answer, app, listServer
<1>6. ASSUME p \in Polls \cup Drains PROVE SeenFrom(p, r)'
  <2>0. UNCHANGED <<gone, ids, old>> /\ lane[p][r].at = "asking"
    BY DEF Answer, listServer, MayAsk
  <2>1. Seen(p, r, lane[p][r].cursor)
    BY <1>6, <2>0 DEF ListInv, Covered, SeenFrom
  <2>2. \A u \in old[p] \ gone : RuntimeOf[u] = r /\ u \notin ids[p] => u \in S
    <3> SUFFICES ASSUME NEW u \in old[p] \ gone, RuntimeOf[u] = r, u \notin ids[p]
                 PROVE  u \in S
      OBVIOUS
    <3>1. u \in Exists /\ u \in Nat /\ lane[p][r].cursor \in Nat
      BY <1>b, ListAssumption DEF ListInv, ListTypeOK, Exists, Threads, LaneType
    <3> QED
      BY <3>1, <2>1 DEF Seen, Older
  <2>3. \A u \in S : u \in Nat
    BY <1>1, ListAssumption DEF Threads
  <2>4. \A u \in old[p] \ gone : u \in Nat
    BY ListAssumption DEF ListInv, ListTypeOK, Threads
  <2>5. S \ {t} # {} => t # 0
    BY <1>1, <2>3, ListAssumption DEF Threads
  <2> HIDE DEF l, S, t
  <2>6. \A u \in old[p] \ gone :
          RuntimeOf[u] = r /\ (u > t \/ ~(S \ {t} # {})) => u \in ids[p] \cup {t}
    BY <1>1, <1>0, <2>2, <2>3, <2>4
  <2> QED
    BY <1>a, <1>2, <2>0, <2>5, <2>6 DEF SeenFrom
<1> QED
  BY <1>3, <1>5, <1>6, LaneSteps DEF Answer, listServer

\* a page is taken into the store.
LEMMA ApplyKeeps ==
  ASSUME ListInv, NEW p \in Passes, NEW r \in Runtimes, Apply(p, r)
  PROVE  ListInv'
<1>0. PICK t : t = lane[p][r].page
  OBVIOUS
<1> DEFINE again == lane[p][r].more /\ p \notin Limited
           l == IF again THEN [Idle EXCEPT !.at = "asking", !.cursor = t]
                ELSE [Idle EXCEPT !.at = "over"]
<1>1. lane[p][r] \in LaneType /\ t \in Threads \cup {0} /\ lane[p][r].at = "got"
  BY <1>0, ListAssumption DEF ListInv, ListTypeOK, LaneType, Threads, Apply
<1>2. /\ known' = IF t = 0 THEN known ELSE Upsert(known, t, lane[p][r].live)
      /\ ids' = [ids EXCEPT ![p] = @ \cup ({t} \ {0})]
      /\ lane' = [lane EXCEPT ![p][r] = l]
      /\ UNCHANGED <<course, listServer, health, feed, screen, prompted, starts, revived,
                     syncing, stage, asked, old, fails, flaps>>
  BY <1>0 DEF Apply
<1>3. ASSUME again, p \in Polls \cup Drains PROVE t # 0
  BY <1>0, <1>1, <1>3 DEF ListInv, Covered, SeenFrom
<1>4. l \in LaneType
  <2>1. again => t \in 1..(N + 1)
    <3>1. again => p \in Polls \cup Drains
      BY DEF Apply, Passes
    <3> QED
      BY <1>1, <1>3, <3>1, ListAssumption DEF Threads
  <2> HIDE DEF again
  <2> QED
    BY <2>1, IdleLane, IdleLanes DEF LaneType
<1>5. lane' \in [Passes -> [Runtimes -> LaneType]] /\ lane'[p][r] = l
  BY <1>2, <1>4, Lanes DEF ListInv, ListTypeOK, LaneType
<1>6. known' \in [Threads -> EntryType]
  <2>1. CASE t = 0
    BY <1>2, <2>1 DEF ListInv, ListTypeOK, EntryType
  <2>2. CASE t \in Threads
    <3>1. t # 0
      BY <2>2, ListAssumption DEF Threads
    <3> QED
      BY <1>2, <2>2, <3>1 DEF ListInv, ListTypeOK, EntryType, Upsert, Entry
  <2> QED
    BY <1>1, <2>1, <2>2
<1>7. ListTypeOK'
  BY <1>1, <1>2, <1>5, <1>6 DEF ListInv, ListTypeOK, LaneType, EntryType, listServer
<1>8. ASSUME p \in Polls \cup Drains PROVE SeenFrom(p, r)'
  <2>1. p \notin Limited /\ SeenFrom(p, r)
    BY <1>8, ListAssumption DEF ListInv, Covered
  <2>2. UNCHANGED <<gone, old>> /\ ids'[p] = ids[p] \cup ({t} \ {0})
    BY <1>2 DEF ListInv, ListTypeOK, listServer
  <2>3. \A u \in old[p] \ gone : u \in Nat /\ u # 0
    BY ListAssumption DEF ListInv, ListTypeOK, Threads
  <2>4. CASE again
    <3>1. l.at = "asking" /\ l.cursor = t
      BY <2>4 DEF Idle
    <3>2. t \in Nat
      BY <1>1, ListAssumption DEF Threads
    <3>3. Seen(p, r, t)'
      <4> HIDE DEF again, l
      <4> QED
        BY <1>0, <1>1, <2>1, <2>2, <2>3, <3>2 DEF SeenFrom, Seen
    <3> QED
      BY <1>5, <3>1, <3>3 DEF SeenFrom
  <2>5. CASE ~again
    <3>1. l.at = "over"
      BY <2>5 DEF Idle
    <3>2. ~lane[p][r].more
      BY <2>1, <2>5
    <3>3. Seen(p, r, 0)'
      <4> HIDE DEF again, l
      <4> QED
        BY <1>0, <1>1, <2>1, <2>2, <2>3, <3>2 DEF SeenFrom, Seen
    <3> QED
      BY <1>5, <3>1, <3>3 DEF SeenFrom
  <2> QED
    BY <2>4, <2>5
<1>9. \A q \in Passes : ids[q] \subseteq ids'[q]
  BY <1>2 DEF ListInv, ListTypeOK
<1> HIDE DEF l
<1> QED
  BY <1>2, <1>7, <1>8, <1>9, LaneSteps DEF listServer

\* Every step keeps the invariant.
LEMMA ListNextKeeps == ListInv /\ [ListNext]_listVars => ListInv'
<1> SUFFICES ASSUME ListInv, [ListNext]_listVars PROVE ListInv'
  OBVIOUS
<1>0. ListTypeOK
  BY DEF ListInv
<1>1. ASSUME NEW t \in Threads, ServerStep(t) PROVE ListInv'
  BY <1>0, <1>1, ServerTypes, PassesRest
<1>2. CASE AppStep
  BY <1>0, <1>2, AppTypes, PassesRest
<1>4. ASSUME NEW p \in Passes, BeginPass(p) \/ Continue(p) PROVE ListInv'
  BY <1>4, BeginKeeps, FinalizeKeeps, GiveUpKeeps, ToolKeeps, AnswerKeeps, FailKeeps,
     ApplyKeeps DEF Continue
<1>5. CASE UNCHANGED listVars
  <2>1. ListTypeOK'
    BY <1>0, <1>5 DEF listVars, ListTypeOK, listServer, app, passes
  <2> QED
    BY <1>5, <2>1, PassesRest DEF listVars, listServer
<1> QED
  BY <1>1, <1>2, <1>4, <1>5 DEF ListNext, ServerStep, AppStep

\* The passes and the store keep their types.
THEOREM ListTypeCorrect == ListSpec => []ListTypeOK
<1>1. ListInv => ListTypeOK
  BY DEF ListInv
<1> QED
  BY <1>1, ListInitInv, ListNextKeeps, PTL DEF ListSpec

\* A thread the server has had since before a list began is not pruned at its end by a
\* list that has asked its runtime.
LEMMA FinalizeSpares ==
  ASSUME ListInv, NEW p \in Passes, Finalize(p), NEW t \in InStore \ gone, ~known'[t].there,
         RuntimeOf[t] \in asked[p]
  PROVE  t \notin old[p]
<1>1. t \notin ids[p]
  BY DEF Finalize, Prune, Pruned, InStore
<1>2. SUFFICES ASSUME t \in old[p] PROVE FALSE
  OBVIOUS
<1>3. t \in Threads /\ RuntimeOf[t] \in Runtimes /\ t >= 0
  BY ListAssumption DEF InStore, Threads
<1>4. lane[p][RuntimeOf[t]].at = "over" /\ p \in Polls \cup Drains
  BY <1>3 DEF Finalize, At
<1>5. Seen(p, RuntimeOf[t], 0)
  BY <1>3, <1>4 DEF ListInv, Covered, SeenFrom
<1> QED
  BY <1>1, <1>2, <1>3, <1>5 DEF Seen

\* Of the threads of the runtimes that were asked, the end of a list takes out of the store
\* only what the server has deleted or what is younger than the list
\* (finalize_thread_list_sync, OnlyStalePruned).
THEOREM PrunesOnlyStale == ListSpec => OnlyStalePruned
<1>1. ListInv => \A t \in InStore \ gone : \A p \in Passes :
                   ~known'[t].there /\ Finalize(p) /\ RuntimeOf[t] \in asked[p]
                     => t \notin old[p]
  BY FinalizeSpares
<1> QED
  BY <1>1, ListInitInv, ListNextKeeps, PTL DEF ListSpec, OnlyStalePruned

-----------------------------------------------------------------------------
(* Turns. *)

\* The end of the turn of t is on its way, behind place i.
EndComes(t, i) == \E j \in DOMAIN feed : j > i /\ feed[j] = <<"completed", t>>

\* A turn whose beginning is on its way, and one that the store shows, is in progress or
\* its end follows.
TurnInv ==
  /\ \A t \in Threads, i \in DOMAIN feed :
       feed[i] = <<"started", t>> => t \in inTurn \/ EndComes(t, i)
  /\ TurnsAreReal

LEMMA TurnInit == ListInit => TurnInv
BY DEF ListInit, TurnInv, TurnsAreReal, Entry, Absent

\* What is on its way stays where it is when something is put behind it.
LEMMA Behind ==
  ASSUME ListTypeOK, NEW k \in Kinds, NEW t \in Threads, Notify(k, t)
  PROVE  /\ Len(feed') = Len(feed) + 1 /\ Len(feed) \in Nat
         /\ DOMAIN feed = 1..Len(feed) /\ DOMAIN feed' = 1..Len(feed')
         /\ \A i \in DOMAIN feed : feed'[i] = feed[i]
         /\ feed'[Len(feed')] = <<k, t>>
<1>1. feed \in Seq(Kinds \X Threads) /\ <<k, t>> \in Kinds \X Threads
  BY DEF ListTypeOK
<1>2. feed' = Append(feed, <<k, t>>)
  BY DEF Notify
<1> QED
  BY <1>1, <1>2

\* The server says of a turn that it is over when it is, and that it has begun.
LEMMA NotifyTurns ==
  ASSUME ListTypeOK, TurnInv, NEW k \in Kinds, NEW t \in Threads, Notify(k, t),
         UNCHANGED <<known, revived>>,
         \A u \in inTurn : u \in inTurn' \/ (k = "completed" /\ u = t),
         k = "started" => t \in inTurn'
  PROVE  TurnInv'
<1>1. /\ Len(feed') = Len(feed) + 1 /\ Len(feed) \in Nat
      /\ DOMAIN feed = 1..Len(feed) /\ DOMAIN feed' = 1..Len(feed')
      /\ \A i \in DOMAIN feed : feed'[i] = feed[i]
      /\ feed'[Len(feed')] = <<k, t>>
  BY Behind
<1>2. ASSUME NEW u \in Threads, NEW i \in Nat, i <= Len(feed),
             u \in inTurn \/ EndComes(u, i)
      PROVE  u \in inTurn' \/ EndComes(u, i)'
  <2>1. CASE u \in inTurn /\ u \notin inTurn'
    BY <1>1, <1>2, <2>1 DEF EndComes
  <2>2. CASE EndComes(u, i)
    BY <1>1, <1>2, <2>2 DEF EndComes
  <2> QED
    BY <1>2, <2>1, <2>2
<1>3. ASSUME NEW u \in Threads, NEW i \in DOMAIN feed', feed'[i] = <<"started", u>>
      PROVE  u \in inTurn' \/ EndComes(u, i)'
  <2>1. CASE i \in DOMAIN feed
    <3>1. u \in inTurn \/ EndComes(u, i)
      BY <1>1, <1>3, <2>1 DEF TurnInv
    <3> QED
      BY <1>1, <1>2, <2>1, <3>1
  <2>2. CASE i = Len(feed')
    BY <1>1, <1>3, <2>2
  <2> QED
    BY <1>1, <2>1, <2>2
<1>4. ASSUME NEW u \in Threads, known'[u].turn, u \notin revived'
      PROVE  u \in inTurn' \/ \E i \in DOMAIN feed' : feed'[i] = <<"completed", u>>
  <2>1. u \in inTurn \/ EndComes(u, 0)
    <3>1. u \in inTurn \/ \E i \in DOMAIN feed : feed[i] = <<"completed", u>>
      BY <1>4 DEF TurnInv, TurnsAreReal
    <3>2. \A i \in DOMAIN feed : i > 0
      BY <1>1
    <3> QED
      BY <3>1, <3>2 DEF EndComes
  <2>2. u \in inTurn' \/ EndComes(u, 0)'
    BY <1>1, <1>2, <2>1
  <2> QED
    BY <2>2 DEF EndComes
<1> QED
  BY <1>3, <1>4 DEF TurnInv, TurnsAreReal

\* The feed and the turns stay, and the store shows no turn that it did not show.
LEMMA SameTurns ==
  ASSUME TurnInv, inTurn \subseteq inTurn', UNCHANGED feed,
         \A t \in Threads : known'[t].turn /\ t \notin revived'
                            => known[t].turn /\ t \notin revived
  PROVE  TurnInv'
BY DEF TurnInv, TurnsAreReal, EndComes

LEMMA ServerTurns ==
  ASSUME ListTypeOK, TurnInv, NEW t \in Threads, ServerStep(t)
  PROVE  TurnInv'
<1>1. UNCHANGED <<known, revived>>
  BY DEF ServerStep, Make, Delete, BeginTurn, Ask, EndTurn, Report, app
<1>2. CASE UNCHANGED <<feed, inTurn>>
  BY <1>1, <1>2, SameTurns
<1>3. CASE UNCHANGED inTurn
           /\ \E k \in {"active", "archived", "ask", "idle"} : Notify(k, t)
  BY <1>1, <1>3, NotifyTurns DEF Kinds
<1>4. CASE BeginTurn(t)
  BY <1>1, <1>4, NotifyTurns DEF BeginTurn, Kinds
<1>5. CASE EndTurn(t)
  BY <1>1, <1>5, NotifyTurns DEF EndTurn, Kinds
<1>6. Make(t) \/ Delete(t) \/ Ask(t) \/ Report(t) =>
        /\ UNCHANGED inTurn
        /\ UNCHANGED feed \/ \E k \in {"active", "archived", "ask", "idle"} : Notify(k, t)
  BY DEF Make, Delete, Ask, Report, MayNotify, listServer
<1> QED
  BY <1>2, <1>3, <1>4, <1>5, <1>6 DEF ServerStep

\* An event that is heard was the first on its way.
LEMMA HeardFirst ==
  ASSUME ListTypeOK, HearEvent
  PROVE  /\ Len(feed) \in Nat /\ Len(feed) > 0 /\ Len(feed') = Len(feed) - 1
         /\ DOMAIN feed = 1..Len(feed) /\ DOMAIN feed' = 1..Len(feed')
         /\ \A i \in DOMAIN feed' : feed'[i] = feed[i + 1]
         /\ \E k \in Kinds, t \in Threads :
              /\ feed[1] = <<k, t>> /\ known' = [known EXCEPT ![t] = After(k, @)]
              /\ revived' = IF k \in {"active", "ask"} THEN revived ELSE revived \ {t}
<1>1. feed \in Seq(Kinds \X Threads) /\ feed # <<>> /\ feed' = Tail(feed)
  BY DEF ListTypeOK, HearEvent
<1>2. /\ Len(feed) \in Nat /\ Len(feed) > 0 /\ Len(feed') = Len(feed) - 1
      /\ DOMAIN feed = 1..Len(feed) /\ DOMAIN feed' = 1..Len(feed')
      /\ \A i \in DOMAIN feed' : feed'[i] = feed[i + 1]
      /\ Head(feed) = feed[1] /\ feed[1] \in Kinds \X Threads
  BY <1>1
<1>3. PICK k \in Kinds, t \in Threads : feed[1] = <<k, t>>
  BY <1>2
<1>4. /\ known' = [known EXCEPT ![t] = After(k, @)]
      /\ revived' = IF k \in {"active", "ask"} THEN revived ELSE revived \ {t}
  BY <1>2, <1>3, HeardIs
<1> QED
  BY <1>2, <1>3, <1>4

\* A thread that is not in the store is not in a turn there: an entry is written whole or
\* taken out.
TurnsThere == \A t \in Threads : known[t].turn => known[t].there

LEMMA SameThere ==
  ASSUME TurnsThere,
         \A t \in Threads : known'[t] = known[t] \/ known'[t] = Absent \/ known'[t].there
  PROVE  TurnsThere'
BY DEF TurnsThere, Absent

LEMMA AppThere ==
  ASSUME ListTypeOK, TurnsThere, (\E t \in Threads : ServerStep(t)) \/ AppStep
  PROVE  TurnsThere'
<1>0. known \in [Threads -> EntryType]
  BY DEF ListTypeOK, EntryType
<1>1. ASSUME NEW t \in Threads, NEW inOne \in BOOLEAN, StartStored(t, inOne) PROVE TurnsThere'
  <2>1. \A u \in Threads : known'[u] = known[u] \/ known'[u].there
    BY <1>0, <1>1 DEF StartStored, Entry
  <2> QED
    BY <2>1, SameThere
<1>2. CASE HearEvent
  <2>1. PICK k \in Kinds, t \in Threads : known' = [known EXCEPT ![t] = After(k, @)]
    BY <1>2, HeardFirst
  <2>2. After(k, known[t]) = known[t] \/ After(k, known[t]) = Absent \/ After(k, known[t]).there
    BY DEF After, Entry, Kinds
  <2>3. \A u \in Threads : known'[u] = known[u] \/ known'[u] = Absent \/ known'[u].there
    BY <1>0, <2>1, <2>2
  <2> QED
    BY <2>3, SameThere
<1>3. ASSUME UNCHANGED known PROVE TurnsThere'
  BY <1>3 DEF TurnsThere
<1>4. \/ HearEvent \/ UNCHANGED known
      \/ \E t \in Threads : \E inOne \in BOOLEAN : StartStored(t, inOne)
  BY DEF AppStep, ServerStep, StartAnswered, Approve, Open, Flap, EndSync, app, Make,
     Delete, BeginTurn, Ask, EndTurn, Report
<1> QED
  BY <1>1, <1>2, <1>3, <1>4

LEMMA PassThere ==
  ASSUME ListTypeOK, TurnsThere, NEW p \in Passes, BeginPass(p) \/ Continue(p)
  PROVE  TurnsThere'
<1>0. known \in [Threads -> EntryType] /\ \A n \in Threads : n # 0
  BY ListAssumption DEF ListTypeOK, EntryType, Threads
<1>1. SUFFICES \A t \in Threads : known'[t] = known[t] \/ known'[t] = Absent \/ known'[t].there
  BY <1>1, SameThere
<1>2. CASE Finalize(p)
  BY <1>0, <1>2 DEF Finalize, Prune
<1>3. ASSUME NEW r \in Runtimes, Apply(p, r)
      PROVE  \A t \in Threads : known'[t] = known[t] \/ known'[t].there
  BY <1>0, <1>3 DEF Apply, Upsert, Entry
<1>4. CASE ToolSync(p)
  <2> DEFINE u == lane[p][Default].page
             left == Prune(known, {u} \ {0})
  <2>1. known' = IF u = 0 THEN left ELSE Merge(left, u, lane[p][Default].live)
    BY <1>4 DEF ToolSync
  <2>2. DOMAIN left = Threads /\ \A n \in Threads : left[n] = known[n] \/ left[n] = Absent
    BY DEF Prune
  <2> HIDE DEF u, left
  <2> QED
    BY <2>1, <2>2 DEF Merge, Entry
<1>5. CASE BeginPass(p) \/ GiveUp(p) \/ \E r \in Runtimes : Answer(p, r) \/ Fail(p, r)
  BY <1>5 DEF BeginPass, GiveUp, Answer, Fail, app
<1> QED
  BY <1>2, <1>3, <1>4, <1>5 DEF Continue

LEMMA HearTurns ==
  ASSUME ListTypeOK, TurnsThere, TurnInv, HearEvent
  PROVE  TurnInv'
<1>1. /\ Len(feed) \in Nat /\ Len(feed) > 0 /\ Len(feed') = Len(feed) - 1
      /\ DOMAIN feed = 1..Len(feed) /\ DOMAIN feed' = 1..Len(feed')
      /\ \A i \in DOMAIN feed' : feed'[i] = feed[i + 1]
  BY HeardFirst
<1>2. PICK k \in Kinds, t \in Threads :
        /\ feed[1] = <<k, t>> /\ known' = [known EXCEPT ![t] = After(k, @)]
        /\ revived' = IF k \in {"active", "ask"} THEN revived ELSE revived \ {t}
  BY HeardFirst
<1>3. UNCHANGED inTurn
  BY DEF HearEvent, listServer
<1>4. ASSUME NEW u \in Threads, NEW i \in Nat, i >= 1, EndComes(u, i)
      PROVE  EndComes(u, i - 1)'
  <2>1. PICK j \in DOMAIN feed : j > i /\ feed[j] = <<"completed", u>>
    BY <1>4 DEF EndComes
  <2>2. j - 1 \in DOMAIN feed' /\ j - 1 > i - 1 /\ feed'[j - 1] = feed[j]
    BY <1>1, <1>4, <2>1
  <2> QED
    BY <2>1, <2>2 DEF EndComes
<1>5. ASSUME NEW u \in Threads, NEW i \in DOMAIN feed', feed'[i] = <<"started", u>>
      PROVE  u \in inTurn' \/ EndComes(u, i)'
  <2>1. i + 1 \in DOMAIN feed /\ feed[i + 1] = <<"started", u>> /\ i + 1 \in Nat /\ i \in Nat
    BY <1>1, <1>5
  <2>2. u \in inTurn \/ EndComes(u, i + 1)
    BY <2>1 DEF TurnInv
  <2>3. EndComes(u, i + 1) => EndComes(u, (i + 1) - 1)'
    BY <1>4, <2>1
  <2>4. (i + 1) - 1 = i
    BY <2>1
  <2> QED
    BY <1>3, <2>2, <2>3, <2>4
<1>6. ASSUME NEW u \in Threads, known'[u].turn, u \notin revived'
      PROVE  u \in inTurn' \/ \E i \in DOMAIN feed' : feed'[i] = <<"completed", u>>
  <2>0. known \in [Threads -> EntryType]
    BY DEF ListTypeOK, EntryType
  <2>1. SUFFICES u \in inTurn \/ EndComes(u, 1)
    <3>1. EndComes(u, 1) => EndComes(u, 1 - 1)'
      BY <1>4
    <3> QED
      BY <1>3, <2>1, <3>1 DEF EndComes
  <2>2. CASE k = "started" /\ u = t
    BY <1>1, <1>2, <2>2 DEF TurnInv
  <2>3. CASE ~(k = "started" /\ u = t)
    <3>1. known[u].turn /\ u \notin revived /\ (u = t => k \in {"active", "ask"})
      <4>1. CASE u # t
        BY <1>2, <1>6, <2>0, <4>1
      <4>2. CASE u = t
        <5>1. known'[t] = After(k, known[t]) /\ known[t] \in EntryType
          BY <1>2, <2>0
        <5>2. k \in {"active", "ask"}
          BY <1>6, <2>3, <4>2, <5>1 DEF After, Entry, Absent, Kinds, EntryType, TurnsThere
        <5>3. known[t].turn /\ t \notin revived
          BY <1>2, <1>6, <4>2, <5>1, <5>2 DEF After, Entry
        <5> QED
          BY <4>2, <5>2, <5>3
      <4> QED
        BY <4>1, <4>2
    <3>2. u \in inTurn \/ \E i \in DOMAIN feed : feed[i] = <<"completed", u>>
      BY <3>1 DEF TurnInv, TurnsAreReal
    <3>3. feed[1] # <<"completed", u>>
      BY <1>2, <3>1
    <3>4. \A i \in DOMAIN feed : i = 1 \/ i > 1
      BY <1>1
    <3> QED
      BY <3>2, <3>3, <3>4 DEF EndComes
  <2> QED
    BY <2>2, <2>3
<1> QED
  BY <1>5, <1>6 DEF TurnInv, TurnsAreReal

\* No list and no answer shows a turn that the store did not show, but one that comes back.
LEMMA OtherTurns ==
  ASSUME ListTypeOK, TurnInv, AppStep, ~HearEvent
  PROVE  TurnInv'
<1>0. known \in [Threads -> EntryType]
  BY DEF ListTypeOK, EntryType
<1>1. ASSUME NEW t \in Threads, NEW inOne \in BOOLEAN, StartStored(t, inOne) PROVE TurnInv'
  <2>1. UNCHANGED <<feed, inTurn>>
    BY <1>1 DEF StartStored, listServer
  <2>2. ASSUME NEW u \in Threads, known'[u].turn, u \notin revived'
        PROVE  known[u].turn /\ u \notin revived
    BY <1>0, <1>1, <2>2 DEF StartStored, Entry
  <2> QED
    BY <2>1, <2>2, SameTurns
<1>2. ASSUME UNCHANGED <<feed, inTurn, known, revived>> PROVE TurnInv'
  BY <1>2, SameTurns
<1>3. AppStep /\ ~HearEvent => UNCHANGED <<feed, inTurn, known, revived>>
        \/ \E t \in Threads : \E inOne \in BOOLEAN : StartStored(t, inOne)
  BY DEF AppStep, StartAnswered, Approve, Open, Flap, EndSync, app, listServer
<1> QED
  BY <1>1, <1>2, <1>3

LEMMA PassTurns ==
  ASSUME ListTypeOK, TurnInv, NEW p \in Passes, BeginPass(p) \/ Continue(p)
  PROVE  TurnInv'
<1>0. known \in [Threads -> EntryType] /\ \A n \in Threads : n # 0
  BY ListAssumption DEF ListTypeOK, EntryType, Threads
<1>1. UNCHANGED <<feed, inTurn, revived>>
  BY DEF BeginPass, Continue, Finalize, GiveUp, ToolSync, Answer, Fail, Apply, listServer, app
<1>2. SUFFICES \A t \in Threads : known'[t].turn => known[t].turn
  BY <1>1, SameTurns
<1>3. CASE Finalize(p)
  BY <1>0, <1>3 DEF Finalize, Prune, Absent
<1>4. ASSUME NEW r \in Runtimes, Apply(p, r) PROVE \A t \in Threads : known'[t].turn => known[t].turn
  BY <1>0, <1>4 DEF Apply, Upsert, Entry
<1>5. CASE ToolSync(p)
  <2> DEFINE u == lane[p][Default].page
             left == Prune(known, {u} \ {0})
  <2>1. known' = IF u = 0 THEN left ELSE Merge(left, u, lane[p][Default].live)
    BY <1>5 DEF ToolSync
  <2>2. \A n \in Threads : left[n] = known[n] \/ left[n] = Absent
    BY DEF Prune
  <2>3. DOMAIN left = Threads
    BY DEF Prune
  <2> HIDE DEF u, left
  <2>4. \A t \in Threads : known'[t] = left[t] \/ known'[t].turn = left[t].turn
    BY <2>1, <2>3 DEF Merge, Entry
  <2> QED
    BY <2>2, <2>4 DEF Absent
<1>6. CASE BeginPass(p) \/ GiveUp(p) \/ \E r \in Runtimes : Answer(p, r) \/ Fail(p, r)
  BY <1>6 DEF BeginPass, GiveUp, Answer, Fail, app
<1> QED
  BY <1>3, <1>4, <1>5, <1>6 DEF Continue

\* A turn the store shows is in progress at the server, or its end is on its way: lists,
\* status events and the answers to thread/start bring none back that has ended, but for
\* an answer whose thread ends its turn between the two locks.
THEOREM NoTurnComesBack == ListSpec => []TurnsAreReal
<1>1. ListInv /\ TurnsThere /\ TurnInv /\ [ListNext]_listVars => TurnsThere' /\ TurnInv'
  <2> SUFFICES ASSUME ListTypeOK, TurnsThere, TurnInv, [ListNext]_listVars
               PROVE  TurnsThere' /\ TurnInv'
    BY DEF ListInv
  <2>1. CASE UNCHANGED listVars
    BY <2>1, SameTurns DEF listVars, app, listServer, TurnsThere
  <2>2. CASE AppStep
    BY <2>2, HearTurns, OtherTurns, AppThere
  <2>3. ASSUME NEW t \in Threads, ServerStep(t) PROVE TurnsThere' /\ TurnInv'
    BY <2>3, ServerTurns, AppThere
  <2> QED
    BY <2>1, <2>2, <2>3, PassTurns, PassThere DEF ListNext, ServerStep, AppStep
<1>0. ListInit => TurnsThere
  BY DEF ListInit, TurnsThere, Absent, Entry
<1>2. TurnInv => TurnsAreReal
  BY DEF TurnInv
<1> QED
  BY <1>0, <1>1, <1>2, ListInitInv, ListNextKeeps, TurnInit, PTL DEF ListSpec
=============================================================================
