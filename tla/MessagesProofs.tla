---------------------------- MODULE MessagesProofs ----------------------------
(*************************************************************************)
(* Proofs about what members say to each other and to the                *)
(* administrators: the messages of a match and the blocks, the threads   *)
(* that are open on screens, and the support requests.                   *)
(*************************************************************************)
EXTENDS Conversations, LiveThreads, Support, TLAPS

-----------------------------------------------------------------------------
(*************************************************************************)
(* Matches and blocks. A request remembers whether, since it began,      *)
(* there was a moment without a block it must respect (clear) and a      *)
(* moment at which the conversation had not ended (live). The steps      *)
(* that write contact are reached only past a look at the blocks         *)
(* (PastBlocks), those that revive a conversation only past a look at    *)
(* its status (PastStatus), and what has been seen stays seen            *)
(* (HasLooked).                                                          *)
(*************************************************************************)

RequestRow == [pc : ChatStep, by : Member \cup {NoMember}, clear : BOOLEAN,
               live : BOOLEAN, upTo : 0..MaxPosts]

\* The steps a request reaches only past a look at the blocks, and only past a look at
\* the status of the conversation.
PastBlocks == {"ask.look", "ask.create", "ask.reply", "accept.write", "send.write",
               "like.closed", "like.log", "like.other", "like.match", "unblock.restore"}
PastStatus == {"ask.reply", "accept.blocks", "accept.write", "like.log", "like.other", "like.match"}

HasLooked(r) ==
    /\ r.pc # "idle" => r.by \in Member
    /\ r.pc \in PastBlocks => r.clear
    /\ r.pc \in PastStatus => r.live

RowsOK ==
    /\ match \in MatchRow
    /\ blocker \subseteq Member
    /\ liked \in [Member -> Action]
    /\ inbox \in Seq(Member) /\ Len(inbox) <= MaxPosts
    /\ readUpTo \in [Member -> 0..MaxPosts]
    /\ asks \in 0..MaxAsks
RequestsOK == request \in [Asker -> RequestRow] /\ \A c \in Asker : HasLooked(request[c])
ChatInv == RowsOK /\ RequestsOK

LEMMA ChatShape == ChatInv => ChatTypeOK
  BY DEF ChatInv, RowsOK, RequestsOK, RequestRow, ChatTypeOK

LEMMA NoRequestIsARow == NoRequest \in RequestRow
  BY ConversationsAssumption DEF NoRequest, RequestRow, ChatStep

\* No request has begun.
LEMMA ChatStarts == ChatInit => ChatInv
<1> SUFFICES ASSUME ChatInit PROVE ChatInv
  OBVIOUS
<1> USE ConversationsAssumption DEF ChatInit
<1>2. request \in [Asker -> RequestRow]
  BY NoRequestIsARow
<1>3. match \in MatchRow
  BY DEF MatchRow, MatchStatus
<1>4. liked \in [Member -> Action] /\ readUpTo \in [Member -> 0..MaxPosts]
  BY DEF Action
<1>5. inbox \in Seq(Member) /\ Len(inbox) = 0
  OBVIOUS
<1>6. RowsOK
  BY <1>3, <1>4, <1>5 DEF RowsOK
<1>7. \A c \in Asker : HasLooked(request[c])
  BY DEF HasLooked, NoRequest, PastBlocks, PastStatus
<1> QED
  BY <1>2, <1>6, <1>7 DEF ChatInv, RequestsOK

\* A request moves to a row that has looked, or sees what it needs in the state the step
\* leaves: the others keep what they have seen.
LEMMA Moves ==
    ASSUME RequestsOK, NEW c \in Asker, NEW e \in RequestRow,
           request' = Witness([request EXCEPT ![c] = e]),
           e.pc # "idle" => e.by \in Member,
           e.pc \in PastBlocks => e.clear \/ blocker' \subseteq Lifted(e),
           e.pc \in PastStatus => e.live \/ match'.status \notin Ended
    PROVE  RequestsOK' /\ request'[c].pc = e.pc
<1> DEFINE r == [request EXCEPT ![c] = e]
<1>1. request \in [Asker -> RequestRow]
  BY DEF RequestsOK
<1>2. r \in [Asker -> RequestRow] /\ r[c] = e /\ \A d \in Asker \ {c} : r[d] = request[d]
  BY <1>1
<1>3. "idle" \notin PastBlocks \cup PastStatus
  BY DEF PastBlocks, PastStatus
<1> HIDE DEF r
<1>4. \A d \in Asker : request'[d] = IF r[d].pc = "idle" THEN r[d]
                                     ELSE [r[d] EXCEPT !.clear = @ \/ blocker' \subseteq Lifted(r[d]),
                                                       !.live = @ \/ match'.status \notin Ended]
  BY <1>2 DEF Witness, r
<1>5. ASSUME NEW d \in Asker PROVE request'[d] \in RequestRow /\ HasLooked(request'[d])
  <2>1. PICK x \in RequestRow : x = r[d]
    BY <1>2
  <2>2. CASE x.pc = "idle"
    BY <1>3, <1>4, <2>1, <2>2 DEF HasLooked
  <2>3. CASE x.pc # "idle"
    <3>1. PICK clear \in BOOLEAN, live \in BOOLEAN :
              clear = (x.clear \/ blocker' \subseteq Lifted(x)) /\ live = (x.live \/ match'.status \notin Ended)
      OBVIOUS
    <3> DEFINE y == [x EXCEPT !.clear = clear, !.live = live]
    <3>2. request'[d] = y
      BY <1>4, <2>1, <2>3, <3>1
    <3>3. y \in RequestRow /\ y.pc = x.pc /\ y.by = x.by /\ y.clear = clear /\ y.live = live
      BY <2>1 DEF RequestRow
    <3>4. /\ x.pc # "idle" => x.by \in Member
          /\ x.pc \in PastBlocks => x.clear \/ blocker' \subseteq Lifted(x)
          /\ x.pc \in PastStatus => x.live \/ match'.status \notin Ended
      BY <1>2, <2>1 DEF RequestsOK, HasLooked
    <3> HIDE DEF y
    <3>5. HasLooked(y)
      BY <3>1, <3>3, <3>4 DEF HasLooked
    <3> QED
      BY <3>2, <3>3, <3>5
  <2> QED
    BY <2>2, <2>3
<1>6. request' = [d \in Asker |-> request'[d]]
  BY <1>2 DEF Witness, r
<1>7. request'[c].pc = e.pc
  BY <1>2, <1>4 DEF RequestRow
<1> QED
  BY <1>5, <1>6, <1>7 DEF RequestsOK

\* A request that is answered is over.
LEMMA RequestMoves ==
    ASSUME RequestsOK, NEW c \in Asker, Answer(c)
    PROVE  RequestsOK' /\ request'[c].pc = "idle"
<1>1. NoRequest \in RequestRow /\ NoRequest.pc = "idle" /\ "idle" \notin PastBlocks \cup PastStatus
  BY ConversationsAssumption DEF NoRequest, RequestRow, ChatStep, PastBlocks, PastStatus
<1> QED
  BY <1>1, Moves DEF Answer

\* A request that goes on has looked, or looks in this step.
LEMMA GoesOn ==
    ASSUME RequestsOK, NEW c \in Asker, NEW pc \in ChatStep, Goes(c, pc), request[c].by \in Member,
           pc \in PastBlocks => request[c].clear \/ blocker' = {} \/ (pc = "unblock.restore" /\ blocker' \subseteq {By(c)}),
           pc \in PastStatus => request[c].live \/ match'.status \notin Ended
    PROVE  RequestsOK' /\ request'[c].pc = pc
<1>1. PICK x \in RequestRow : x = request[c]
  BY DEF RequestsOK
<1>2. PICK e \in RequestRow : e = [x EXCEPT !.pc = pc]
  BY <1>1 DEF RequestRow
<1>3. e.pc = pc /\ e.by = x.by /\ e.clear = x.clear /\ e.live = x.live
  BY <1>1, <1>2 DEF RequestRow
<1>4. request' = Witness([request EXCEPT ![c] = e])
  <2>1. [request EXCEPT ![c].pc = pc] = [request EXCEPT ![c] = e]
    BY <1>1, <1>2 DEF RequestsOK
  <2> QED
    BY <2>1 DEF Goes
<1>5. blocker' = {} \/ (pc = "unblock.restore" /\ blocker' \subseteq {x.by}) => blocker' \subseteq Lifted(e)
  BY <1>3 DEF Lifted
<1> QED
  BY <1>1, <1>3, <1>4, <1>5, Moves DEF By

\* There are two members.
LEMMA TheOther == ASSUME NEW u \in Member PROVE Other(u) \in Member /\ Member = {u, Other(u)}
<1>1. PICK v \in Member : v # u
  BY ConversationsAssumption
<1>2. Other(u) \in Member /\ Other(u) # u
  BY <1>1 DEF Other
<1> QED
  BY <1>2, ConversationsAssumption

\* The steps that only read: the request that has read goes on as one that has looked.
LEMMA Looks ==
    ASSUME ChatInv, NEW c \in Asker,
           \/ \E u \in Member, pc \in FirstStep : Begin(c, u, pc)
           \/ Refuse(c) \/ AskBlocks(c) \/ AskLook(c) \/ AcceptFind(c) \/ AcceptBlocks(c)
           \/ DeclineFind(c) \/ CloseFind(c) \/ UnmatchFind(c) \/ SendFind(c) \/ SendBlocks(c)
           \/ ReadNow(c) \/ LikeBlocks(c) \/ LikeClosed(c) \/ LikeOther(c) \/ UnblockRead(c)
    PROVE  ChatInv' /\ UNCHANGED rows
<1>1. UNCHANGED rows /\ asks' \in 0..MaxAsks
  <2> USE DEF rows
  <2>1. ASSUME NEW u \in Member, NEW pc \in FirstStep, Begin(c, u, pc)
        PROVE  UNCHANGED rows /\ asks' \in 0..MaxAsks
    <3>1. asks < MaxAsks /\ asks' = asks + 1 /\ asks \in 0..MaxAsks
      BY <2>1 DEF Begin, ChatInv, RowsOK
    <3> QED
      <4>1. asks' \in 0..MaxAsks
        BY <3>1, ConversationsAssumption
      <4>2. UNCHANGED rows
        BY <2>1 DEF Begin
      <4> QED
        BY <4>1, <4>2
  <2>2. ASSUME NEW from, NEW holds, NEW to, Check(c, from, holds, to)
        PROVE  UNCHANGED rows /\ UNCHANGED asks
    BY <2>2 DEF Check
  <2>3. CASE Refuse(c) \/ AskLook(c) \/ ReadNow(c) \/ UnblockRead(c)
    BY <2>3 DEF Refuse, AskLook, ReadNow, UnblockRead, ChatInv, RowsOK
  <2> QED
    BY <2>1, <2>2, <2>3 DEF AskBlocks, AcceptFind, AcceptBlocks, DeclineFind, CloseFind, UnmatchFind,
                            SendFind, SendBlocks, LikeBlocks, LikeClosed, LikeOther, ChatInv, RowsOK
<1>2. RowsOK'
  BY <1>1 DEF ChatInv, RowsOK, rows
<1> SUFFICES RequestsOK'
  BY <1>1, <1>2 DEF ChatInv
<1>3. RequestsOK /\ request[c] \in RequestRow /\ HasLooked(request[c]) /\ UNCHANGED <<match, blocker>>
  BY <1>1 DEF ChatInv, RequestsOK, rows
<1>4. ASSUME NEW u \in Member, NEW pc \in FirstStep, Begin(c, u, pc) PROVE RequestsOK'
  <2>1. PICK e \in RequestRow : e = [NoRequest EXCEPT !.pc = pc, !.by = u]
    <3>1. PICK x \in RequestRow : x = NoRequest
      BY NoRequestIsARow
    <3>2. pc \in ChatStep
      BY DEF ChatStep
    <3>3. [x EXCEPT !.pc = pc, !.by = u] \in RequestRow
      BY <3>1, <3>2 DEF RequestRow
    <3> QED
      BY <3>1, <3>3
  <2>2. e.pc = pc /\ e.by = u /\ pc \notin PastBlocks \cup PastStatus
    BY <2>1 DEF NoRequest, FirstStep, PastBlocks, PastStatus
  <2> QED
    BY <1>3, <1>4, <2>1, <2>2, Moves DEF Begin
<1>5. CASE Refuse(c)
  BY <1>3, <1>5, RequestMoves DEF Refuse
<1>6. ASSUME NEW from \in ChatStep, NEW holds \in BOOLEAN, NEW to \in ChatStep, Check(c, from, holds, to),
             from # "idle",
             holds /\ to \in PastBlocks => from \in PastBlocks \/ blocker = {},
             holds /\ to \in PastStatus => from \in PastStatus \/ match.status \notin Ended
      PROVE  RequestsOK'
  <2>1. request[c].pc = from /\ (IF holds THEN Goes(c, to) ELSE Answer(c))
    BY <1>6 DEF Check, Stands
  <2>2. CASE holds
    BY <1>3, <1>6, <2>1, <2>2, GoesOn DEF HasLooked
  <2> QED
    BY <1>3, <2>1, <2>2, RequestMoves
<1>7. CASE AskBlocks(c) \/ AcceptFind(c) \/ AcceptBlocks(c)
  <2>1. {"ask.blocks", "ask.look", "accept.find", "accept.blocks", "accept.write"} \subseteq ChatStep
    BY DEF ChatStep, FirstStep
  <2>2. Received(c) => match.status \notin Ended
    BY DEF Received, Ended
  <2> QED
    BY <1>6, <1>7, <2>1, <2>2 DEF AskBlocks, AcceptFind, AcceptBlocks, PastBlocks, PastStatus, Received
<1>8. CASE DeclineFind(c) \/ CloseFind(c) \/ UnmatchFind(c) \/ SendFind(c) \/ SendBlocks(c)
  <2>1. {"decline.find", "decline.write", "close.find", "close.write", "unmatch.find", "unmatch.write",
         "send.find", "send.blocks", "send.write"} \subseteq ChatStep
    BY DEF ChatStep, FirstStep
  <2> QED
    BY <1>6, <1>8, <2>1 DEF DeclineFind, CloseFind, UnmatchFind, SendFind, SendBlocks, PastBlocks, PastStatus, Received
<1>9. CASE LikeBlocks(c) \/ LikeClosed(c) \/ LikeOther(c)
  <2>1. {"like.blocks", "like.closed", "like.log", "like.other", "like.match"} \subseteq ChatStep
    BY DEF ChatStep, FirstStep
  <2> QED
    BY <1>6, <1>9, <2>1 DEF LikeBlocks, LikeClosed, LikeOther, PastBlocks, PastStatus
<1>10. CASE AskLook(c)
  <2>1. request[c].pc = "ask.look" /\ request[c].by \in Member /\ request[c].clear
    BY <1>3, <1>10 DEF AskLook, Stands, HasLooked, PastBlocks
  <2>2. {"ask.create", "send.find", "ask.reply"} \subseteq ChatStep
    BY DEF ChatStep, FirstStep
  <2>3. Answer(c) \/ Goes(c, "ask.create") \/ Goes(c, "send.find")
          \/ (match.status = "REQUESTED" /\ Goes(c, "ask.reply"))
    BY <1>10 DEF AskLook
  <2>4. "ask.create" \notin PastStatus /\ "send.find" \notin PastStatus /\ "REQUESTED" \notin Ended
    BY DEF PastStatus, Ended
  <2> QED
    BY <1>3, <2>1, <2>2, <2>3, <2>4, RequestMoves, GoesOn
<1>11. CASE ReadNow(c)
  <2>1. PICK x \in RequestRow : x = request[c]
    BY <1>3
  <2>2. x.pc = "read.now" /\ x.by \in Member
    BY <1>3, <1>11, <2>1 DEF ReadNow, Stands, HasLooked
  <2>3. Len(inbox) \in 0..MaxPosts
    BY ConversationsAssumption DEF ChatInv, RowsOK
  <2>4. PICK e \in RequestRow : e = [x EXCEPT !.pc = "mark", !.upTo = Len(inbox)]
    BY <2>3 DEF RequestRow, ChatStep
  <2>5. e.pc = "mark" /\ e.by = x.by /\ "mark" \notin PastBlocks \cup PastStatus
    BY <2>1, <2>4 DEF RequestRow, PastBlocks, PastStatus
  <2>6. [request EXCEPT ![c].pc = "mark", ![c].upTo = Len(inbox)] = [request EXCEPT ![c] = e]
    BY <1>3, <2>1, <2>4 DEF RequestsOK
  <2>7. Answer(c) \/ request' = Witness([request EXCEPT ![c] = e])
    BY <1>11, <2>6 DEF ReadNow
  <2> QED
    BY <1>3, <2>2, <2>5, <2>7, RequestMoves, Moves
<1>12. CASE UnblockRead(c)
  <2>1. request[c].pc = "unblock.read" /\ By(c) \in Member /\ request[c].by \in Member
    BY <1>3, <1>12 DEF UnblockRead, Stands, HasLooked, By
  <2>2. {"unblock.keep", "unblock.restore"} \subseteq ChatStep
    BY DEF ChatStep
  <2>3. {"unblock.keep", "unblock.restore"} \cap PastStatus = {} /\ "unblock.keep" \notin PastBlocks
    BY DEF PastStatus, PastBlocks
  <2>4. Answer(c) \/ Goes(c, "unblock.keep") \/ (Other(By(c)) \notin blocker /\ Goes(c, "unblock.restore"))
    BY <1>12 DEF UnblockRead
  <2>5. Other(By(c)) \notin blocker => blocker \subseteq {By(c)}
    BY <2>1, TheOther DEF ChatInv, RowsOK
  <2> QED
    BY <1>3, <2>1, <2>2, <2>3, <2>4, <2>5, RequestMoves, GoesOn
<1> QED
  BY <1>4, <1>5, <1>7, <1>8, <1>9, <1>10, <1>11, <1>12

\* A status the application writes keeps the row's shape.
LEMMA Statuses ==
    ASSUME ChatInv, NEW s \in MatchStatus, SetStatus(s)
    PROVE  match' \in MatchRow /\ match'.status = s
<1>1. PICK m \in MatchRow : m = match
  BY DEF ChatInv, RowsOK
<1>2. [m EXCEPT !.status = s] \in MatchRow /\ [m EXCEPT !.status = s].status = s
  BY <1>1 DEF MatchRow
<1> QED
  BY <1>1, <1>2 DEF SetStatus

\* A message more.
LEMMA Posts ==
    ASSUME ChatInv, NEW u \in Member, MayPost, Post(u)
    PROVE  inbox' \in Seq(Member) /\ Len(inbox') <= MaxPosts /\ Len(inbox) + 1 \in 0..MaxPosts
  BY ConversationsAssumption DEF ChatInv, RowsOK, MayPost, Post

\* What a step may do: a contact only by a request that has seen a moment without a
\* block, and a conversation opened again only by one that has seen it open.
Allowed ==
    /\ Contact => \E c \in Asker : Finishes(c) /\ request[c].clear
    /\ match.status \in Ended /\ match'.status \notin Ended =>
           \E c \in Asker : Finishes(c) /\ request[c].live

\* The writes that answer the request.
LEMMA Writes ==
    ASSUME ChatInv, NEW c \in Asker,
           \/ AskCreate(c) \/ AskReply(c) \/ AcceptWrite(c) \/ DeclineWrite(c) \/ CloseWrite(c)
           \/ UnmatchWrite(c) \/ Mark(c) \/ LikeMatch(c) \/ PassMatch(c) \/ BlockRequested(c)
           \/ UnblockCommit(c)
    PROVE  ChatInv' /\ Allowed
<1> USE DEF Stands, By
<1>1. Answer(c) /\ request[c].pc # "idle"
  BY DEF AskCreate, AskReply, AcceptWrite, DeclineWrite, CloseWrite, UnmatchWrite, Mark, LikeMatch,
         PassMatch, BlockRequested, UnblockCommit, Write
<1>2. RequestsOK' /\ Finishes(c) /\ HasLooked(request[c]) /\ request[c] \in RequestRow
  BY <1>1, RequestMoves DEF ChatInv, RequestsOK, Finishes
<1>3. request[c].by \in Member /\ asks' = asks
  BY <1>1, <1>2 DEF HasLooked, AskCreate, AskReply, AcceptWrite, DeclineWrite, CloseWrite, UnmatchWrite,
         Mark, LikeMatch, PassMatch, BlockRequested, UnblockCommit, Write
<1>4. CASE AskCreate(c)
  <2>1. inbox' \in Seq(Member) /\ Len(inbox') <= MaxPosts
    BY <1>3, <1>4, Posts DEF AskCreate, ChatInv, RowsOK
  <2>2. match' \in MatchRow
    BY <1>3, <1>4 DEF AskCreate, ChatInv, RowsOK, MatchRow, MatchStatus
  <2>3. request[c].clear /\ (match.status \in Ended => match' = match)
    BY <1>2, <1>4 DEF AskCreate, HasLooked, PastBlocks, Ended
  <2> QED
    BY <1>2, <1>3, <1>4, <2>1, <2>2, <2>3 DEF AskCreate, ChatInv, RowsOK, Allowed
<1>5. CASE AskReply(c)
  <2>1. inbox' \in Seq(Member) /\ Len(inbox') <= MaxPosts
    BY <1>3, <1>5, Posts DEF AskReply
  <2>2. match' \in MatchRow
    BY <1>5, Statuses DEF AskReply, MatchStatus
  <2>3. request[c].clear /\ request[c].live
    BY <1>2, <1>5 DEF AskReply, HasLooked, PastBlocks, PastStatus
  <2> QED
    BY <1>2, <1>3, <1>5, <2>1, <2>2, <2>3 DEF AskReply, ChatInv, RowsOK, Allowed
<1>6. CASE AcceptWrite(c) \/ LikeMatch(c)
  <2>1. match' \in MatchRow
    BY <1>6, Statuses DEF AcceptWrite, LikeMatch, Write, MatchStatus
  <2>2. request[c].clear /\ request[c].live
    BY <1>2, <1>6 DEF AcceptWrite, LikeMatch, Write, HasLooked, PastBlocks, PastStatus
  <2> QED
    BY <1>2, <1>3, <1>6, <2>1, <2>2 DEF AcceptWrite, LikeMatch, Write, ChatInv, RowsOK, Allowed
<1>7. CASE DeclineWrite(c) \/ CloseWrite(c) \/ UnmatchWrite(c) \/ PassMatch(c) \/ BlockRequested(c)
  <2>1. match' = match \/ \E s \in Ended : SetStatus(s)
    BY <1>7 DEF DeclineWrite, CloseWrite, UnmatchWrite, PassMatch, BlockRequested, Write, Ended
  <2>2. match' = match \/ (match' \in MatchRow /\ match'.status \in Ended)
    BY <2>1, Statuses DEF MatchStatus
  <2>3. liked' \in [Member -> Action] /\ UNCHANGED <<blocker, inbox, readUpTo>>
    BY <1>7 DEF DeclineWrite, CloseWrite, UnmatchWrite, PassMatch, BlockRequested, Write, Action, ChatInv, RowsOK
  <2>4. Len(inbox) \in Nat /\ "ACTIVE" \notin Ended
    BY DEF ChatInv, RowsOK, Ended
  <2> QED
    BY <1>2, <1>3, <2>2, <2>3, <2>4 DEF ChatInv, RowsOK, Allowed, Contact
<1>8. CASE Mark(c)
  <2>1. readUpTo' \in [Member -> 0..MaxPosts]
    BY <1>2, <1>8 DEF Mark, ChatInv, RowsOK, RequestRow
  <2> QED
    BY <1>2, <1>3, <1>8, <2>1 DEF Mark, ChatInv, RowsOK, Allowed, Contact
<1>9. CASE UnblockCommit(c)
  <2>1. match' \in MatchRow /\ (match' = match \/ (match.status = "BLOCKED" /\ request[c].pc = "unblock.restore"))
    BY <1>9, Statuses DEF UnblockCommit, MatchStatus, ChatInv, RowsOK
  <2>2. request[c].pc = "unblock.restore" => request[c].clear
    BY <1>2 DEF HasLooked, PastBlocks
  <2>3. "BLOCKED" \notin Ended
    BY DEF Ended
  <2> QED
    BY <1>2, <1>3, <1>9, <2>1, <2>2, <2>3 DEF UnblockCommit, ChatInv, RowsOK, Allowed, Contact
<1> QED
  BY <1>4, <1>5, <1>6, <1>7, <1>8, <1>9

\* The writes after which the request goes on.
LEMMA Passes ==
    ASSUME ChatInv, NEW c \in Asker,
           SendWrite(c) \/ LikeLog(c) \/ PassLog(c) \/ BlockRow(c) \/ BlockActive(c)
    PROVE  ChatInv' /\ Allowed
<1> USE DEF Stands, By
<1>1. PICK x \in RequestRow : x = request[c]
  BY DEF ChatInv, RequestsOK
<1>2. x.by \in Member /\ RequestsOK /\ HasLooked(x) /\ Len(inbox) \in Nat
  BY <1>1 DEF ChatInv, RowsOK, RequestsOK, HasLooked, SendWrite, LikeLog, PassLog, LogAction, BlockRow, BlockActive
<1>3. CASE SendWrite(c)
  <2>1. inbox' \in Seq(Member) /\ Len(inbox') <= MaxPosts /\ Len(inbox) + 1 \in 0..MaxPosts
    BY <1>1, <1>2, <1>3, Posts DEF SendWrite
  <2>2. PICK e \in RequestRow : e = [x EXCEPT !.pc = "mark", !.upTo = Len(inbox) + 1]
    BY <2>1 DEF RequestRow, ChatStep
  <2>3. e.pc = "mark" /\ e.by = x.by /\ "mark" \notin PastBlocks \cup PastStatus
    BY <1>1, <2>2 DEF RequestRow, PastBlocks, PastStatus
  <2>4. [request EXCEPT ![c].pc = "mark", ![c].upTo = Len(inbox) + 1] = [request EXCEPT ![c] = e]
    BY <1>1, <1>2, <2>2 DEF RequestsOK
  <2>5. RequestsOK' /\ request'[c].pc = "mark"
    BY <1>2, <1>3, <2>3, <2>4, Moves DEF SendWrite
  <2>6. x.clear /\ x.pc = "send.write"
    BY <1>1, <1>2, <1>3 DEF SendWrite, HasLooked, PastBlocks
  <2>7. Finishes(c) /\ request[c].clear
    BY <1>1, <2>5, <2>6 DEF Finishes
  <2> QED
    BY <1>3, <2>1, <2>5, <2>7 DEF SendWrite, ChatInv, RowsOK, Allowed, Contact
<1>4. CASE LikeLog(c) \/ PassLog(c)
  <2>1. RequestsOK'
    <3>1. {"like.other", "pass.match"} \subseteq ChatStep /\ "pass.match" \notin PastBlocks \cup PastStatus
      BY DEF ChatStep, PastBlocks, PastStatus
    <3>2. LikeLog(c) => x.clear /\ x.live
      BY <1>1, <1>2 DEF LikeLog, LogAction, HasLooked, PastBlocks, PastStatus
    <3> QED
      BY <1>1, <1>2, <1>4, <3>1, <3>2, GoesOn DEF LikeLog, PassLog, LogAction
  <2>2. liked' \in [Member -> Action] /\ UNCHANGED <<match, blocker, inbox, readUpTo, asks>>
    BY <1>1, <1>2, <1>4 DEF LikeLog, PassLog, LogAction, Action, ChatInv, RowsOK
  <2> QED
    BY <1>2, <2>1, <2>2 DEF ChatInv, RowsOK, Allowed, Contact
<1>5. CASE BlockRow(c) \/ BlockActive(c)
  <2>1. {"block.active", "block.requested"} \subseteq ChatStep
            /\ {"block.active", "block.requested"} \cap (PastBlocks \cup PastStatus) = {}
    BY DEF ChatStep, PastBlocks, PastStatus
  <2>2. RequestsOK'
    BY <1>1, <1>2, <1>5, <2>1, GoesOn DEF BlockRow, BlockActive
  <2>3. blocker' \subseteq Member /\ UNCHANGED <<liked, inbox, readUpTo, asks>>
    BY <1>1, <1>2, <1>5 DEF BlockRow, BlockActive, ChatInv, RowsOK
  <2>4. match' = match \/ (match.status = "ACTIVE" /\ match' \in MatchRow /\ match'.status = "BLOCKED")
    BY <1>5, Statuses DEF BlockRow, BlockActive, MatchStatus
  <2>5. "ACTIVE" \notin Ended
    BY DEF Ended
  <2> QED
    BY <1>2, <2>2, <2>3, <2>4, <2>5 DEF ChatInv, RowsOK, Allowed, Contact
<1> QED
  BY <1>3, <1>4, <1>5

\* Every step of the conversation keeps the invariant and is allowed.
LEMMA ChatSteps == ASSUME ChatInv, [ChatNext]_chatVars PROVE ChatInv' /\ Allowed
<1>1. ASSUME UNCHANGED rows PROVE Allowed
  BY <1>1 DEF rows, Allowed, Contact, ChatInv, RowsOK
<1>2. CASE UNCHANGED chatVars
  BY <1>1, <1>2 DEF chatVars, rows, ChatInv, RowsOK, RequestsOK
<1>3. CASE ChatNext
  BY <1>1, <1>3, Looks, Writes, Passes DEF ChatNext
<1> QED
  BY <1>2, <1>3

LEMMA ChatHolds == ChatSpec => []ChatInv
<1>1. ChatInv /\ [ChatNext]_chatVars => ChatInv'
  BY ChatSteps
<1> QED
  BY <1>1, ChatStarts, PTL DEF ChatSpec

\* The rows of a conversation and the requests about it keep their shapes.
THEOREM ConversationsAreWellTyped == ChatSpec => []ChatTypeOK
  BY ChatHolds, ChatShape, PTL

\* Whatever requests cross: a message reaches, or a conversation is opened with, a member
\* who has blocked the other only by a request that has seen a moment without the block.
THEOREM BlocksAreKept == ChatSpec => NoContactAcrossABlock
<1>1. ChatInv /\ [ChatNext]_chatVars => [Contact => \E c \in Asker : Finishes(c) /\ request[c].clear]_chatVars
  BY ChatSteps DEF Allowed
<1> QED
  BY <1>1, ChatHolds, PTL DEF ChatSpec, NoContactAcrossABlock

\* A conversation that has ended is opened again only by a request that has seen it open.
THEOREM EndingsAreKept == ChatSpec => EndedStaysEnded
<1>1. ChatInv /\ [ChatNext]_chatVars =>
          [(match.status \in Ended /\ match'.status \notin Ended) =>
               \E c \in Asker : Finishes(c) /\ request[c].live]_chatVars
  BY ChatSteps DEF Allowed
<1> QED
  BY <1>1, ChatHolds, PTL DEF ChatSpec, EndedStaysEnded

-----------------------------------------------------------------------------
(*************************************************************************)
(* Threads on screens. A message is stored before it is emitted and      *)
(* joins are served before a load is fresh: what a fresh load has not    *)
(* read is emitted to a room the page is in, and is shown, or on its     *)
(* way to it (NothingFallsThrough).                                      *)
(*************************************************************************)

\* A connection is to a process that runs and has not closed its clients; who has been
\* served is in the room.
Connected ==
    \A c \in Reader :
        /\ socket[c].at # Nowhere => replica[socket[c].at] # "gone" /\ bridge[socket[c].at] # "down"
        /\ socket[c].alive => socket[c].at # Nowhere
        /\ asked[c] \in {"served", "done"} => socket[c].at # Nowhere /\ socket[c].joined

\* A load is fresh, and the page complete, only under its present join.
FreshSinceJoin ==
    \A c \in Reader : asked[c] # "done" =>
        missing[c] # "nothing" /\ \A l \in loads[c] : ~l.fresh

\* What the page shows or is about to get.
Due(c) == shown[c] \cup UnderWay(c)

\* What a fresh load has read, and what the page is about to get, is everything.
NothingFallsThrough ==
    \A c \in Reader : Live(c) =>
        /\ missing[c] = "nothing" => Stored \subseteq Due(c)
        /\ \A l \in loads[c] : l.fresh /\ l.read => Stored \subseteq l.got \cup Due(c)

ServerOK ==
    /\ guest \subseteq Reader /\ posted \in 0..MaxMessages /\ faults \in 0..MaxFaults
    /\ handler \in [Message -> Replica \cup {Nowhere}]
    /\ unsent \subseteq Message /\ transit \subseteq Message \X Replica
    /\ replica \in [Replica -> ProcessState]
    /\ bridge \in [Replica -> BridgeState]
    /\ outbox \in [Replica -> SUBSET Message]
PageOK ==
    /\ socket \in [Reader -> SocketState]
    /\ asked \in [Reader -> JoinState]
    /\ loads \in [Reader -> SUBSET LoadState]
    /\ missing \in [Reader -> {"join", "load", "shared", "failed", "nothing"}]
    /\ shown \in [Reader -> SUBSET Message]

ThreadsInv == ServerOK /\ PageOK /\ Connected /\ FreshSinceJoin /\ NothingFallsThrough

LEMMA ThreadsShape == ServerOK /\ PageOK <=> ThreadsTypeOK
  BY DEF ServerOK, PageOK, ThreadsTypeOK

\* A message a page is to get, by where it is now.
IsDue(c, m) ==
    \/ m \in shown[c] \/ m \in unsent
    \/ m \in Stored /\ (handler[m] # Nowhere \/ <<m, socket[c].at>> \in transit)
    \/ \E r \in Replica : r # socket[c].at /\ m \in outbox[r]

LEMMA DueIs == ASSUME NEW c, NEW m PROVE (m \in Due(c) <=> IsDue(c, m)) /\ (m \in Due(c) <=> IsDue(c, m))'
  BY DEF Due, UnderWay, IsDue

\* A load that is too old for the next join.
LEMMA StaleLoads ==
    ASSUME NEW l \in LoadState
    PROVE  [l EXCEPT !.fresh = FALSE] \in LoadState /\ ~[l EXCEPT !.fresh = FALSE].fresh
  BY DEF LoadState

\* What the steps of the server do to a page that stays live: it loses nothing, and it
\* is about to get what is new.
Carried(c) ==
    Live(c)' => /\ Live(c)
                /\ Stored \cap Due(c) \subseteq Due(c)'
                /\ Stored' \subseteq Stored \cup Due(c)'

LEMMA ThreadsStart == ThreadsInit => ThreadsInv
<1> SUFFICES ASSUME ThreadsInit PROVE ThreadsInv
  OBVIOUS
<1> USE LiveThreadsAssumption DEF ThreadsInit
<1>1. ServerOK
  BY DEF ServerOK, ProcessState, BridgeState
<1>2. Asked(FALSE) \in LoadState /\ Off \in SocketState
  BY DEF Asked, LoadState, Off, SocketState
<1>3. PageOK
  BY <1>2 DEF PageOK, JoinState
<1>4. Connected
  BY DEF Connected, Off
<1>5. FreshSinceJoin
  BY DEF FreshSinceJoin, Asked
<1>6. NothingFallsThrough
  BY DEF NothingFallsThrough, Live
<1> QED
  BY <1>1, <1>3, <1>4, <1>5, <1>6 DEF ThreadsInv

\* A step of the server that leaves the pages alone, but for what they show.
LEMMA ServerKeeps ==
    ASSUME ThreadsInv, ServerOK', Connected', shown' \in [Reader -> SUBSET Message],
           UNCHANGED <<socket, asked, loads, missing>>, \A c \in Reader : Carried(c)
    PROVE  ThreadsInv'
<1>1. PageOK' /\ FreshSinceJoin'
  BY DEF ThreadsInv, PageOK, FreshSinceJoin
<1>2. ASSUME NEW c \in Reader, Live(c)'
      PROVE  /\ missing'[c] = "nothing" => Stored' \subseteq Due(c)'
             /\ \A l \in loads'[c] : l.fresh /\ l.read => Stored' \subseteq l.got \cup Due(c)'
  <2>1. Live(c) /\ Stored \cap Due(c) \subseteq Due(c)' /\ Stored' \subseteq Stored \cup Due(c)'
    BY <1>2 DEF Carried
  <2>2. /\ missing[c] = "nothing" => Stored \subseteq Due(c)
        /\ \A l \in loads[c] : l.fresh /\ l.read => Stored \subseteq l.got \cup Due(c)
    BY <2>1 DEF ThreadsInv, NothingFallsThrough
  <2> HIDE DEF ThreadsInv
  <2>3. missing'[c] = missing[c] /\ loads'[c] = loads[c]
    OBVIOUS
  <2> QED
    BY <2>1, <2>2, <2>3
<1>3. NothingFallsThrough'
  BY <1>2 DEF NothingFallsThrough
<1> QED
  BY <1>1, <1>3 DEF ThreadsInv

\* A step that ends the sockets of some pages: the others keep what they have.
LEMMA DropKeeps ==
    ASSUME ThreadsInv, ServerOK', NEW C, Drop(C),
           \A c \in Reader \ C : socket[c].at # Nowhere =>
               replica'[socket[c].at] # "gone" /\ bridge'[socket[c].at] # "down",
           \A c \in Reader \ C : Carried(c)
    PROVE  ThreadsInv'
<1> USE DEF Drop
<1>1. \A c \in Reader \ C : /\ socket'[c] = socket[c] /\ asked'[c] = asked[c]
                            /\ loads'[c] = loads[c] /\ missing'[c] = missing[c]
  OBVIOUS
<1>2. \A c \in C \cap Reader : socket'[c] = Off /\ asked'[c] = "none" /\ missing'[c] = "join"
                  /\ loads'[c] = {[l EXCEPT !.fresh = FALSE] : l \in loads[c]}
  OBVIOUS
<1>3. PageOK'
  <2>1. \A c \in Reader : loads[c] \in SUBSET LoadState
    BY DEF ThreadsInv, PageOK
  <2>2. \A c \in Reader : loads'[c] \in SUBSET LoadState
    BY <1>1, <1>2, <2>1, StaleLoads
  <2>3. Off \in SocketState
    BY DEF Off, SocketState
  <2>4. loads' \in [Reader -> SUBSET LoadState]
    BY <2>2
  <2> QED
    BY <2>3, <2>4 DEF ThreadsInv, PageOK, JoinState
<1>4. Connected'
  <2> SUFFICES ASSUME NEW c \in Reader
               PROVE  /\ socket'[c].at # Nowhere => replica'[socket'[c].at] # "gone" /\ bridge'[socket'[c].at] # "down"
                      /\ socket'[c].alive => socket'[c].at # Nowhere
                      /\ asked'[c] \in {"served", "done"} => socket'[c].at # Nowhere /\ socket'[c].joined
    BY DEF Connected
  <2>1. CASE c \in C
    BY <1>2, <2>1 DEF Off
  <2>2. CASE c \notin C
    BY <1>1, <2>2 DEF ThreadsInv, Connected
  <2> QED
    BY <2>1, <2>2
<1>5. FreshSinceJoin'
  <2>1. \A c \in C \cap Reader : missing'[c] # "nothing" /\ \A l \in loads'[c] : ~l.fresh
    <3>1. \A c \in Reader : loads[c] \in SUBSET LoadState
      BY DEF ThreadsInv, PageOK
    <3>2. ASSUME NEW c \in C \cap Reader, NEW l \in loads'[c] PROVE ~l.fresh
      <4>1. PICK k \in loads[c] : l = [k EXCEPT !.fresh = FALSE]
        BY <1>2
      <4> QED
        BY <3>1, <4>1, StaleLoads
    <3> QED
      BY <1>2, <3>2
  <2> QED
    BY <1>1, <2>1 DEF ThreadsInv, FreshSinceJoin
<1>6. ASSUME NEW c \in Reader, Live(c)'
      PROVE  /\ missing'[c] = "nothing" => Stored' \subseteq Due(c)'
             /\ \A l \in loads'[c] : l.fresh /\ l.read => Stored' \subseteq l.got \cup Due(c)'
  <2>1. c \notin C
    BY <1>2, <1>6 DEF Live, Off
  <2>2. Live(c) /\ Stored \cap Due(c) \subseteq Due(c)' /\ Stored' \subseteq Stored \cup Due(c)'
    BY <1>6, <2>1 DEF Carried
  <2>3. /\ missing[c] = "nothing" => Stored \subseteq Due(c)
        /\ \A l \in loads[c] : l.fresh /\ l.read => Stored \subseteq l.got \cup Due(c)
    BY <2>2 DEF ThreadsInv, NothingFallsThrough
  <2>4. missing'[c] = missing[c] /\ loads'[c] = loads[c]
    BY <1>1, <2>1
  <2> QED
    BY <2>2, <2>3, <2>4
<1>7. NothingFallsThrough'
  BY <1>6 DEF NothingFallsThrough
<1> QED
  BY <1>3, <1>4, <1>5, <1>7 DEF ThreadsInv

LEMMA LiveIsConnected ==
    ASSUME ThreadsInv, NEW c \in Reader, Live(c)
    PROVE  /\ socket[c].at \in Replica /\ replica[socket[c].at] # "gone"
           /\ bridge[socket[c].at] = "up" /\ c \in InRoom(socket[c].at)
<1>1. socket[c].alive /\ socket[c].at # Nowhere /\ socket[c].joined /\ replica[socket[c].at] # "gone"
  BY DEF ThreadsInv, Connected, Live
<1>2. socket[c].at \in Replica
  BY <1>1 DEF ThreadsInv, PageOK, SocketState
<1> QED
  BY <1>1, <1>2 DEF Live, InRoom, SocketsOf

\* A page that was live gets what is shown to its room.
LEMMA Shows ==
    ASSUME ThreadsInv, NEW C, NEW m \in Message, Show(C, m)
    PROVE  /\ shown' \in [Reader -> SUBSET Message]
           /\ \A c \in Reader : shown[c] \subseteq shown'[c]
           /\ \A c \in Reader \cap C : m \in shown'[c]
  BY DEF Show, ThreadsInv, PageOK

\* Posting, publishing and delivering: a message that leaves one place is at the next.
LEMMA PostSteps ==
    ASSUME ThreadsInv,
           \/ \E r \in Replica : PostStored(r) \/ \E m \in Message : Publish(r, m) \/ Deliver(m, r)
           \/ \E m \in Stored : PostEmitted(m) \/ PostFails(m)
    PROVE  ThreadsInv'
<1> USE LiveThreadsAssumption DEF Fault, page, server
<1>1. ASSUME NEW r \in Replica, PostStored(r) PROVE ThreadsInv'
  <2>1. posted + 1 \in Message /\ posted' = posted + 1 /\ posted' \in 0..MaxMessages
    BY <1>1 DEF PostStored, ThreadsInv, ServerOK, Message
  <2>2. ServerOK' /\ Connected' /\ UNCHANGED <<socket, asked, loads, missing, shown>>
    BY <1>1, <2>1 DEF PostStored, ThreadsInv, ServerOK, Connected
  <2>3. /\ handler'[posted + 1] # Nowhere /\ Stored' = Stored \cup {posted + 1} /\ posted + 1 \in Stored'
        /\ \A m \in Stored : handler'[m] = handler[m]
    BY <1>1, <2>1 DEF PostStored, ThreadsInv, ServerOK, Stored, Message
  <2>4. ASSUME NEW c \in Reader, NEW m \in Stored', IsDue(c, m) \/ m = posted + 1 PROVE IsDue(c, m)'
    BY <1>1, <2>2, <2>3, <2>4 DEF PostStored, IsDue
  <2>5. \A c \in Reader : Live(c)' => Live(c)
    BY <1>1, <2>2 DEF PostStored, Live
  <2>6. \A c \in Reader : Carried(c)
    BY <2>3, <2>4, <2>5, DueIs DEF Carried
  <2> QED
    BY <2>2, <2>6, ServerKeeps DEF ThreadsInv, PageOK
<1>2. ASSUME NEW r \in Replica, NEW m \in Message, Publish(r, m) PROVE ThreadsInv'
  <2>1. ServerOK' /\ Connected' /\ UNCHANGED <<socket, asked, loads, missing, shown>>
    <3>1. transit' \subseteq Message \X Replica
      BY <1>2 DEF Publish, Published, ThreadsInv, ServerOK
    <3> QED
      BY <1>2, <3>1 DEF Publish, ThreadsInv, ServerOK, Connected
  <2>2. \A c \in Reader : Live(c)' => Live(c)
    BY <1>2, <2>1 DEF Publish, Live
  <2>3. ASSUME NEW c \in Reader, Live(c), NEW x \in Stored, IsDue(c, x) PROVE IsDue(c, x)'
    <3>1. CASE \E q \in Replica : q # socket[c].at /\ x \in outbox[q]
      <4>1. PICK q \in Replica : q # socket[c].at /\ x \in outbox[q]
        BY <3>1
      <4>2. CASE q = r /\ x = m
        <5>1. <<m, socket[c].at>> \in transit'
          BY <1>2, <2>3, <4>1, <4>2, LiveIsConnected DEF Publish, Published
        <5>2. m \in Stored'
          BY <1>2, <4>2 DEF Publish, Stored
        <5> QED
          BY <4>2, <5>1, <5>2, <2>1 DEF IsDue
      <4>3. CASE ~(q = r /\ x = m)
        BY <1>2, <2>1, <4>1, <4>3 DEF Publish, IsDue, ThreadsInv, ServerOK
      <4> QED
        BY <4>2, <4>3
    <3>2. CASE ~\E q \in Replica : q # socket[c].at /\ x \in outbox[q]
      BY <1>2, <2>1, <2>3, <3>2 DEF Publish, Published, IsDue, Stored
    <3> QED
      BY <3>1, <3>2
  <2>4. \A c \in Reader : Carried(c)
    BY <1>2, <2>2, <2>3, DueIs DEF Carried, Publish, Stored
  <2> QED
    BY <2>1, <2>4, ServerKeeps DEF ThreadsInv, PageOK
<1>3. ASSUME NEW r \in Replica, NEW m \in Message, Deliver(m, r) PROVE ThreadsInv'
  <2>1. ServerOK' /\ Connected' /\ UNCHANGED <<socket, asked, loads, missing, bridge>>
    BY <1>3 DEF Deliver, ThreadsInv, ServerOK, Connected
  <2>2. \A c \in Reader : Live(c)' => Live(c)
    BY <2>1 DEF Live
  <2>3. ASSUME NEW c \in Reader, Live(c), NEW x \in Stored, IsDue(c, x) PROVE IsDue(c, x)'
    <3>1. shown[c] \subseteq shown'[c] /\ (socket[c].at = r => m \in shown'[c])
      BY <1>3, <2>3, Shows, LiveIsConnected DEF Deliver
    <3> QED
      BY <1>3, <2>1, <2>3, <3>1 DEF Deliver, IsDue, Stored
  <2>4. \A c \in Reader : Carried(c)
    BY <1>3, <2>2, <2>3, DueIs DEF Carried, Deliver, Stored
  <2>5. shown' \in [Reader -> SUBSET Message]
    BY <1>3, Shows DEF Deliver
  <2> QED
    BY <2>1, <2>4, <2>5, ServerKeeps
<1>4. ASSUME NEW m \in Stored, PostEmitted(m) PROVE ThreadsInv'
  <2>1. PICK r \in Replica : r = handler[m] /\ m \in Message
    BY <1>4 DEF PostEmitted, ThreadsInv, ServerOK, Stored, Message
  <2>2. /\ Show(InRoom(r), m)
        /\ outbox' = [outbox EXCEPT ![r] = outbox[r] \cup {m}]
        /\ handler' = [handler EXCEPT ![m] = Nowhere]
        /\ UNCHANGED <<guest, posted, unsent, replica, bridge, transit, socket, asked, loads, missing, faults>>
    BY <1>4, <2>1 DEF PostEmitted
  <2>3. ServerOK' /\ Connected'
    BY <2>1, <2>2 DEF ThreadsInv, ServerOK, Connected
  <2>4. \A c \in Reader : Live(c)' => Live(c)
    BY <2>2 DEF Live
  <2>5. ASSUME NEW c \in Reader, Live(c), NEW x \in Stored, IsDue(c, x) PROVE IsDue(c, x)'
    <3>1. shown[c] \subseteq shown'[c] /\ (socket[c].at = r => m \in shown'[c])
      BY <2>1, <2>2, <2>5, Shows, LiveIsConnected
    <3>2. \A q \in Replica : outbox[q] \subseteq outbox'[q]
      BY <2>1, <2>2 DEF ThreadsInv, ServerOK
    <3>3. CASE x = m
      <4>1. m \in outbox'[r]
        BY <2>1, <2>2 DEF ThreadsInv, ServerOK
      <4> QED
        BY <2>1, <2>2, <3>1, <3>3, <4>1 DEF IsDue
    <3>4. CASE x # m
      <4>1. x \in Stored' /\ handler'[x] = handler[x]
        BY <2>2, <3>4 DEF Stored, ThreadsInv, ServerOK, Message
      <4> QED
        BY <2>2, <2>5, <3>1, <3>2, <4>1 DEF IsDue
    <3> QED
      BY <3>3, <3>4
  <2>6. \A c \in Reader : Carried(c)
    BY <2>2, <2>4, <2>5, DueIs DEF Carried, Stored
  <2>7. shown' \in [Reader -> SUBSET Message]
    BY <2>1, <2>2, Shows
  <2> QED
    BY <2>2, <2>3, <2>6, <2>7, ServerKeeps
<1>5. ASSUME NEW m \in Stored, PostFails(m) PROVE ThreadsInv'
  <2>1. m \in Message
    BY DEF Stored, ThreadsInv, ServerOK, Message
  <2>2. ServerOK' /\ Connected' /\ UNCHANGED <<socket, asked, loads, missing, shown, bridge>>
    BY <1>5, <2>1 DEF PostFails, ThreadsInv, ServerOK, Connected
  <2>3. \A c \in Reader : Live(c)' => Live(c)
    BY <2>2 DEF Live
  <2>4. ASSUME NEW c \in Reader, NEW x \in Stored, IsDue(c, x) PROVE IsDue(c, x)'
    <3>1. x \in Stored' /\ (x # m => handler'[x] = handler[x]) /\ (x = m => x \in unsent')
      BY <1>5, <2>1 DEF PostFails, Stored, ThreadsInv, ServerOK, Message
    <3> QED
      BY <1>5, <2>2, <2>4, <3>1 DEF PostFails, IsDue
  <2>5. \A c \in Reader : Carried(c)
    BY <1>5, <2>3, <2>4, DueIs DEF Carried, PostFails, Stored
  <2> QED
    BY <2>2, <2>5, ServerKeeps DEF ThreadsInv, PageOK
<1> QED
  BY <1>1, <1>2, <1>3, <1>4, <1>5

\* The bridge and the process, while no client is closed: nobody is connected to a
\* bridge that comes back, and a broken one carries no page that is live.
LEMMA BridgeSteps ==
    ASSUME ThreadsInv, NEW r \in Replica, BridgeBreaks(r) \/ BridgeReady(r) \/ Drain(r) \/ Started(r)
    PROVE  ThreadsInv'
<1> USE LiveThreadsAssumption DEF Fault, page
<1>1. /\ UNCHANGED <<guest, posted, handler, unsent, outbox, socket, asked, loads, missing, shown>>
      /\ \A d \in transit : d[2] # r => d \in transit'
      /\ transit' \subseteq transit
  BY DEF BridgeBreaks, BridgeReady, Drain, Started, NotFor
<1>2. ServerOK'
  BY DEF BridgeBreaks, BridgeReady, Drain, Started, NotFor, ThreadsInv, ServerOK, BridgeState, ProcessState
<1>3. \A q \in Replica \ {r} : bridge'[q] = bridge[q] /\ replica'[q] = replica[q]
  BY DEF BridgeBreaks, BridgeReady, Drain, Started, ThreadsInv, ServerOK
<1>4. ASSUME NEW c \in Reader, socket[c].at = r
      PROVE  replica'[r] # "gone" /\ bridge'[r] # "down" /\ (bridge'[r] = "up" => bridge[r] = "up" /\ transit' = transit)
  <2>1. replica[r] # "gone" /\ bridge[r] # "down"
    BY <1>4, LiveThreadsAssumption DEF ThreadsInv, Connected
  <2> QED
    BY <2>1 DEF BridgeBreaks, BridgeReady, Drain, Started, ThreadsInv, ServerOK
<1>5. Connected'
  <2>1. \A c \in Reader : socket[c].at \in Replica \cup {Nowhere}
    BY DEF ThreadsInv, PageOK, SocketState
  <2> QED
    BY <1>1, <1>3, <1>4, <2>1 DEF ThreadsInv, Connected
<1>6. ASSUME NEW c \in Reader, Live(c)' PROVE Live(c) /\ \A x \in Stored : IsDue(c, x) => IsDue(c, x)'
  <2>1. socket[c].at \in Replica
    BY <1>1, <1>6 DEF Live, ThreadsInv, Connected, PageOK, SocketState
  <2>2. Live(c) /\ (socket[c].at = r => transit' = transit)
    BY <1>1, <1>3, <1>4, <1>6, <2>1 DEF Live
  <2>3. \A x : <<x, socket[c].at>> \in transit => <<x, socket[c].at>> \in transit'
    BY <1>1, <2>2
  <2> QED
    BY <1>1, <2>2, <2>3 DEF IsDue, Stored
<1>7. \A c \in Reader : Carried(c)
  BY <1>1, <1>6, DueIs DEF Carried, Stored
<1> QED
  BY <1>1, <1>2, <1>5, <1>7, ServerKeeps DEF ThreadsInv, PageOK

\* A process ends: what its handlers and its publisher had left is published or unsent.
LEMMA ProcessSteps ==
    ASSUME ThreadsInv, NEW r \in Replica, Close(r) \/ Killed(r)
    PROVE  ThreadsInv'
<1> USE LiveThreadsAssumption DEF Fault
<1>1. PICK flushed \in SUBSET Message :
          /\ ProcessEnds(r, flushed)
          /\ flushed \subseteq outbox[r]
          /\ unsent' = unsent \cup Running(r) \cup (outbox[r] \ flushed)
          /\ faults' \in 0..MaxFaults
  <2>1. outbox[r] \in SUBSET Message
    BY DEF ThreadsInv, ServerOK
  <2>2. CASE Close(r)
    BY <2>1, <2>2 DEF Close, ThreadsInv, ServerOK
  <2>3. CASE Killed(r)
    <3>1. faults' \in 0..MaxFaults
      BY <2>3 DEF Killed, ThreadsInv, ServerOK
    <3> QED
      BY <2>1, <2>3, <3>1 DEF Killed
  <2> QED
    BY <2>2, <2>3
<1>2. Drop(SocketsOf(r)) /\ UNCHANGED <<guest, posted>>
  BY <1>1 DEF ProcessEnds
<1>3. ServerOK'
  <2>1. transit' \subseteq Message \X Replica
    BY <1>1 DEF ProcessEnds, Published, ThreadsInv, ServerOK
  <2>2. unsent' \subseteq Message
    <3>1. Stored \subseteq Message /\ outbox[r] \subseteq Message /\ unsent \subseteq Message
      BY DEF Stored, ThreadsInv, ServerOK, Message
    <3> QED
      BY <1>1, <3>1 DEF Running
  <2>3. handler' \in [Message -> Replica \cup {Nowhere}]
    BY <1>1 DEF ProcessEnds, ThreadsInv, ServerOK
  <2> QED
    BY <1>1, <1>2, <2>1, <2>2, <2>3 DEF ProcessEnds, ThreadsInv, ServerOK, ProcessState, BridgeState
<1>4. \A q \in Replica \ {r} : /\ replica'[q] = replica[q] /\ bridge'[q] = bridge[q] /\ outbox'[q] = outbox[q]
  BY <1>1 DEF ProcessEnds, ThreadsInv, ServerOK
<1>5. \A c \in Reader \ SocketsOf(r) : /\ socket[c].at # r /\ socket'[c] = socket[c] /\ asked'[c] = asked[c]
                                       /\ shown'[c] = shown[c]
  BY <1>2 DEF Drop, SocketsOf
<1>6. \A c \in Reader \ SocketsOf(r) : socket[c].at # Nowhere =>
          replica'[socket[c].at] # "gone" /\ bridge'[socket[c].at] # "down"
  <2>1. \A c \in Reader : socket[c].at \in Replica \cup {Nowhere}
    BY DEF ThreadsInv, PageOK, SocketState
  <2> QED
    BY <1>4, <1>5, <2>1 DEF ThreadsInv, Connected
<1>7. ASSUME NEW c \in Reader \ SocketsOf(r), Live(c)' PROVE Live(c) /\ \A x \in Stored : IsDue(c, x) => IsDue(c, x)'
  <2>1. socket[c].at \in Replica \ {r}
    BY <1>5, <1>7 DEF Live, ThreadsInv, Connected, PageOK, SocketState
  <2>2. Live(c)
    BY <1>4, <1>5, <1>7, <2>1 DEF Live
  <2>3. transit' = {d \in Published(r, flushed) : d[2] # r}
    BY <1>1 DEF ProcessEnds
  <2>4. \A x : <<x, socket[c].at>> \in transit => <<x, socket[c].at>> \in transit'
    BY <2>1, <2>3 DEF Published
  <2>5. \A x \in flushed : <<x, socket[c].at>> \in transit'
    <3>1. replica[socket[c].at] # "gone" /\ bridge[socket[c].at] = "up"
      BY <2>2, LiveIsConnected
    <3> QED
      BY <2>1, <2>3, <3>1 DEF Published
  <2>6. \A x \in Stored : x \in Stored' /\ (handler[x] # Nowhere => x \in unsent' \/ handler'[x] # Nowhere)
    <3>1. Stored \subseteq Message /\ Stored' = Stored
      BY <1>2 DEF ThreadsInv, ServerOK, Stored, Message
    <3> QED
      BY <1>1, <3>1 DEF ProcessEnds, Running
  <2>7. \A x \in outbox[r] : x \in flushed \/ x \in unsent'
    BY <1>1
  <2>8. ASSUME NEW x \in Stored, IsDue(c, x) PROVE IsDue(c, x)'
    <3>1. CASE x \in shown[c] \/ x \in unsent
      BY <1>1, <1>5, <3>1 DEF IsDue
    <3>2. CASE handler[x] # Nowhere \/ <<x, socket[c].at>> \in transit
      BY <1>5, <2>4, <2>6, <3>2 DEF IsDue
    <3>3. CASE \E q \in Replica : q # socket[c].at /\ x \in outbox[q]
      <4>1. PICK q \in Replica : q # socket[c].at /\ x \in outbox[q]
        BY <3>3
      <4>2. CASE q = r
        BY <1>5, <2>5, <2>6, <2>7, <4>1, <4>2 DEF IsDue
      <4>3. CASE q # r
        BY <1>4, <1>5, <4>1, <4>3 DEF IsDue
      <4> QED
        BY <4>2, <4>3
    <3> QED
      BY <2>8, <3>1, <3>2, <3>3 DEF IsDue
  <2> QED
    BY <2>2, <2>8
<1>8. \A c \in Reader \ SocketsOf(r) : Carried(c)
  BY <1>2, <1>7, DueIs DEF Carried, Stored
<1> QED
  BY <1>2, <1>3, <1>6, <1>8, DropKeeps

\* The clients of a lost bridge are closed; a page notices that its connection is dead.
LEMMA DropSteps ==
    ASSUME ThreadsInv, (\E r \in Replica : BridgeLost(r)) \/ (\E c \in Reader : SocketEnds(c))
    PROVE  ThreadsInv'
<1> USE LiveThreadsAssumption DEF server
<1>1. PICK C : /\ Drop(C)
               /\ UNCHANGED <<guest, posted, handler, unsent, replica, outbox, transit, faults>>
               /\ \/ UNCHANGED bridge
                  \/ \E r \in Replica : C = SocketsOf(r) /\ bridge' = [bridge EXCEPT ![r] = "down"]
  BY DEF BridgeLost, SocketEnds
<1>2. ServerOK'
  BY <1>1 DEF ThreadsInv, ServerOK, BridgeState
<1>3. \A c \in Reader \ C : socket'[c] = socket[c] /\ asked'[c] = asked[c] /\ shown'[c] = shown[c]
  BY <1>1 DEF Drop
<1>4. \A c \in Reader \ C : socket[c].at # Nowhere => bridge'[socket[c].at] = bridge[socket[c].at]
  <2>1. \A c \in Reader : socket[c].at \in Replica \cup {Nowhere}
    BY DEF ThreadsInv, PageOK, SocketState
  <2> QED
    BY <1>1, <2>1 DEF SocketsOf, ThreadsInv, ServerOK
<1>5. \A c \in Reader \ C : socket[c].at # Nowhere => replica'[socket[c].at] # "gone" /\ bridge'[socket[c].at] # "down"
  BY <1>1, <1>4 DEF ThreadsInv, Connected
<1>6. ASSUME NEW c \in Reader \ C, Live(c)' PROVE Live(c) /\ \A x \in Stored : IsDue(c, x) => IsDue(c, x)'
  <2>1. Live(c)
    BY <1>3, <1>4, <1>6 DEF Live, ThreadsInv, Connected
  <2> QED
    BY <1>1, <1>3, <2>1 DEF IsDue, Stored
<1>7. \A c \in Reader \ C : Carried(c)
  BY <1>1, <1>6, DueIs DEF Carried, Stored
<1> QED
  BY <1>1, <1>2, <1>5, <1>7, DropKeeps

\* What each page has to keep, for itself.
PageWhole(c) ==
    /\ socket[c].at # Nowhere => replica[socket[c].at] # "gone" /\ bridge[socket[c].at] # "down"
    /\ socket[c].alive => socket[c].at # Nowhere
    /\ asked[c] \in {"served", "done"} => socket[c].at # Nowhere /\ socket[c].joined
    /\ asked[c] # "done" => missing[c] # "nothing" /\ \A l \in loads[c] : ~l.fresh
    /\ Live(c) => /\ missing[c] = "nothing" => Stored \subseteq Due(c)
                  /\ \A l \in loads[c] : l.fresh /\ l.read => Stored \subseteq l.got \cup Due(c)

\* A step of one page.
LEMMA PageKeeps ==
    ASSUME ThreadsInv, NEW c \in Reader, UNCHANGED <<guest, server>>, faults' \in 0..MaxFaults, PageOK',
           \A d \in Reader \ {c} : /\ socket'[d] = socket[d] /\ asked'[d] = asked[d] /\ loads'[d] = loads[d]
                                   /\ missing'[d] = missing[d] /\ shown'[d] = shown[d],
           PageWhole(c)'
    PROVE  ThreadsInv'
<1>1. ServerOK'
  BY DEF ThreadsInv, ServerOK, server
<1>2. \A d \in Reader : PageWhole(d)
  BY DEF ThreadsInv, PageWhole, Connected, FreshSinceJoin, NothingFallsThrough
<1>3. ASSUME NEW d \in Reader PROVE PageWhole(d)'
  <2>1. CASE d # c
    <3>1. Due(d)' = Due(d) /\ Stored' = Stored
      BY <2>1 DEF Due, UnderWay, server, Stored
    <3>2. Live(d)' <=> Live(d)
      BY <2>1 DEF Live, server
    <3>3. PageWhole(d)
      BY <1>2
    <3> QED
      BY <2>1, <3>1, <3>2, <3>3 DEF PageWhole, server
  <2> QED
    BY <2>1
<1>4. Connected' /\ FreshSinceJoin' /\ NothingFallsThrough'
  BY <1>3 DEF PageWhole, Connected, FreshSinceJoin, NothingFallsThrough
<1> QED
  BY <1>1, <1>4 DEF ThreadsInv

\* The connection and the join.  A load that is fresh begins only when the page has joined.
LEMMA JoinSteps ==
    ASSUME ThreadsInv, NEW c \in Reader,
           \/ \E r \in Replica : Connect(c, r)
           \/ JoinServed(c) \/ JoinRefused(c) \/ JoinTimesOut(c) \/ JoinAcknowledged(c) \/ SocketDies(c)
    PROVE  ThreadsInv'
<1> USE LiveThreadsAssumption DEF Fault
<1>1. UNCHANGED <<guest, server, shown>>
  BY DEF Connect, JoinServed, JoinRefused, JoinTimesOut, JoinAcknowledged, SocketDies
<1>2. faults' \in 0..MaxFaults
  <2>1. faults' = faults \/ (faults < MaxFaults /\ faults' = faults + 1)
    BY DEF Connect, JoinServed, JoinRefused, JoinTimesOut, JoinAcknowledged, SocketDies
  <2> QED
    BY <2>1 DEF ThreadsInv, ServerOK
<1>3. PageOK /\ PageWhole(c)
  BY DEF ThreadsInv, PageWhole, Connected, FreshSinceJoin, NothingFallsThrough
<1>4. PICK s \in SocketState : s = socket[c]
  BY <1>3 DEF PageOK
<1>5. ASSUME NEW t \in SocketState, NEW a \in JoinState, UNCHANGED <<loads, missing>>,
             socket' = [socket EXCEPT ![c] = t], asked' = [asked EXCEPT ![c] = a], PageWhole(c)'
      PROVE  ThreadsInv'
  <2>1. PageOK'
    BY <1>1, <1>3, <1>5 DEF PageOK
  <2> QED
    BY <1>1, <1>2, <1>3, <1>5, <2>1, PageKeeps DEF PageOK
<1>6. ASSUME NEW r \in Replica, Connect(c, r) PROVE ThreadsInv'
  <2>1. [at |-> r, alive |-> TRUE, joined |-> FALSE] \in SocketState /\ "asked" \in JoinState
    BY DEF SocketState, JoinState
  <2>2. asked'[c] = "asked" /\ socket'[c] = [at |-> r, alive |-> TRUE, joined |-> FALSE] /\ UNCHANGED <<loads, missing>>
    BY <1>3, <1>6 DEF Connect, PageOK
  <2>3. replica'[r] # "gone" /\ bridge'[r] # "down" /\ r # Nowhere
    BY <1>1, <1>6 DEF Connect, Serving, server
  <2>4. asked[c] # "done"
    BY <1>3, <1>6 DEF Connect, PageWhole
  <2>5. PageWhole(c)'
    BY <1>3, <2>2, <2>3, <2>4 DEF PageWhole, Live
  <2> QED
    BY <1>5, <1>6, <2>1, <2>2, <2>5 DEF Connect
<1>7. CASE JoinServed(c)
  <2>1. PICK t \in SocketState : t = [s EXCEPT !.joined = TRUE]
    BY DEF SocketState
  <2>2. t.at = s.at /\ t.alive = s.alive /\ t.joined
    BY <1>4, <2>1 DEF SocketState
  <2>3. socket' = [socket EXCEPT ![c] = t] /\ asked' = [asked EXCEPT ![c] = "served"] /\ UNCHANGED <<loads, missing>>
    BY <1>3, <1>4, <1>7, <2>1 DEF JoinServed, PageOK
  <2>4. asked[c] = "asked" /\ s.alive
    BY <1>4, <1>7 DEF JoinServed
  <2>5. PageWhole(c)'
    BY <1>1, <1>3, <1>4, <2>2, <2>3, <2>4 DEF PageWhole, Live, server, PageOK
  <2> QED
    BY <1>5, <2>3, <2>5 DEF JoinState
<1>8. CASE JoinRefused(c) \/ JoinTimesOut(c)
  <2>1. PICK a \in {"refused", "asked"} : asked' = [asked EXCEPT ![c] = a]
    BY <1>8 DEF JoinRefused, JoinTimesOut
  <2>2. asked[c] \in {"asked", "served"} /\ UNCHANGED <<socket, loads, missing>>
    BY <1>8 DEF JoinRefused, JoinTimesOut
  <2>3. PageWhole(c)'
    BY <1>1, <1>3, <2>1, <2>2 DEF PageWhole, Live, server, PageOK
  <2>4. socket' = [socket EXCEPT ![c] = s]
    BY <1>3, <1>4, <2>2 DEF PageOK
  <2> QED
    BY <1>5, <2>1, <2>2, <2>3, <2>4 DEF JoinState
<1>9. CASE SocketDies(c)
  <2>1. PICK t \in SocketState : t = [s EXCEPT !.alive = FALSE]
    BY DEF SocketState
  <2>2. t.at = s.at /\ ~t.alive /\ t.joined = s.joined
    BY <1>4, <2>1 DEF SocketState
  <2>3. socket' = [socket EXCEPT ![c] = t] /\ UNCHANGED <<asked, loads, missing>>
    BY <1>3, <1>4, <1>9, <2>1 DEF SocketDies, PageOK
  <2>4. PageWhole(c)'
    BY <1>1, <1>3, <1>4, <2>2, <2>3 DEF PageWhole, Live, server, PageOK
  <2>5. asked' = [asked EXCEPT ![c] = asked[c]] /\ asked[c] \in JoinState
    BY <1>3, <2>3 DEF PageOK
  <2> QED
    BY <1>5, <2>3, <2>4, <2>5
<1>10. CASE JoinAcknowledged(c)
  <2>1. asked[c] = "served" /\ s.alive /\ asked' = [asked EXCEPT ![c] = "done"] /\ UNCHANGED socket
    BY <1>4, <1>10 DEF JoinAcknowledged
  <2>2. PICK L \in SUBSET {Asked(TRUE)}, m \in {"load", "shared"} :
            loads' = [loads EXCEPT ![c] = loads[c] \cup L] /\ missing' = [missing EXCEPT ![c] = m]
    <3>1. loads = [loads EXCEPT ![c] = loads[c] \cup {}]
      BY <1>3 DEF PageOK
    <3> QED
      BY <1>10, <3>1 DEF JoinAcknowledged
  <2>3. Asked(TRUE) \in LoadState /\ ~Asked(TRUE).read
    BY DEF Asked, LoadState
  <2>4. PageOK'
    BY <1>1, <1>3, <2>1, <2>2, <2>3 DEF PageOK, JoinState
  <2>5. \A l \in loads'[c] : l.fresh => ~l.read
    BY <1>3, <2>1, <2>2, <2>3 DEF PageWhole, PageOK
  <2>6. asked'[c] = "done" /\ missing'[c] # "nothing"
    BY <1>3, <2>1, <2>2 DEF PageOK
  <2>7. PageWhole(c)'
    BY <1>1, <1>3, <2>1, <2>5, <2>6 DEF PageWhole, server
  <2> QED
    BY <1>1, <1>2, <1>3, <2>1, <2>2, <2>4, <2>7, PageKeeps DEF PageOK
<1> QED
  BY <1>6, <1>7, <1>8, <1>9, <1>10

\* The loads: what a load has read, with what is under way since, is everything.
LEMMA LoadSteps ==
    ASSUME ThreadsInv, NEW c \in Reader, NEW l \in loads[c], LoadRead(c, l) \/ LoadAnswered(c, l) \/ LoadFails(c, l)
    PROVE  ThreadsInv'
<1> USE LiveThreadsAssumption DEF Fault
<1>1. UNCHANGED <<guest, server, socket, asked>>
  BY DEF LoadRead, LoadAnswered, LoadFails
<1>2. faults' \in 0..MaxFaults
  BY DEF LoadRead, LoadAnswered, LoadFails, ThreadsInv, ServerOK
<1>3. PageOK /\ PageWhole(c) /\ loads[c] \subseteq LoadState
  BY DEF ThreadsInv, PageWhole, Connected, FreshSinceJoin, NothingFallsThrough, PageOK
<1>4. Stored \subseteq Message /\ Stored' = Stored /\ (Live(c)' <=> Live(c))
  BY <1>1 DEF ThreadsInv, ServerOK, Stored, Message, server, Live
<1>5. CASE LoadRead(c, l)
  <2>1. PICK x \in LoadState : x = l
    BY <1>3
  <2>2. PICK k \in LoadState : k = [x EXCEPT !.read = TRUE, !.got = Stored]
    BY <1>4 DEF LoadState
  <2>3. k.fresh = x.fresh /\ k.got = Stored
    BY <2>1, <2>2 DEF LoadState
  <2>4. loads' = [loads EXCEPT ![c] = (loads[c] \ {l}) \cup {k}] /\ UNCHANGED <<missing, shown>>
    BY <1>5, <2>1, <2>2 DEF LoadRead
  <2>5. PageOK'
    BY <1>1, <1>3, <2>4 DEF PageOK
  <2>6. Due(c)' = Due(c)
    BY <1>1, <2>4 DEF Due, UnderWay, server, Stored
  <2>7. loads'[c] = (loads[c] \ {l}) \cup {k}
    BY <1>3, <2>4 DEF PageOK
  <2>8. PageWhole(c)'
    BY <1>1, <1>3, <1>4, <2>1, <2>3, <2>4, <2>6, <2>7 DEF PageWhole, server
  <2> QED
    BY <1>1, <1>2, <1>3, <2>4, <2>5, <2>8, PageKeeps DEF PageOK
<1>6. CASE LoadAnswered(c, l) \/ LoadFails(c, l)
  <2>1. PICK m \in {"join", "load", "shared", "failed", "nothing"}, S \in SUBSET l.got :
            /\ loads' = [loads EXCEPT ![c] = loads[c] \ {l}]
            /\ missing' = [missing EXCEPT ![c] = m]
            /\ shown' = [shown EXCEPT ![c] = shown[c] \cup S]
            /\ m = "nothing" => missing[c] = "nothing" \/ (l.fresh /\ l.read /\ S = l.got)
    <3>1. shown = [shown EXCEPT ![c] = shown[c] \cup {}]
      BY <1>3 DEF PageOK
    <3>2. missing[c] \in {"join", "load", "shared", "failed", "nothing"}
      BY <1>3 DEF PageOK
    <3>3. CASE LoadAnswered(c, l)
      <4> DEFINE m == IF l.fresh THEN "nothing" ELSE missing[c]
      <4>1. /\ loads' = [loads EXCEPT ![c] = loads[c] \ {l}]
            /\ missing' = [missing EXCEPT ![c] = m]
            /\ shown' = [shown EXCEPT ![c] = shown[c] \cup l.got]
            /\ l.read
        BY <3>3 DEF LoadAnswered, Done
      <4>2. m = "nothing" => missing[c] = "nothing" \/ l.fresh
        OBVIOUS
      <4>3. m \in {"join", "load", "shared", "failed", "nothing"}
        BY <3>2
      <4> HIDE DEF m
      <4> QED
        BY <4>1, <4>2, <4>3
    <3>4. CASE LoadFails(c, l)
      <4> DEFINE m == IF l.fresh \/ missing[c] = "shared" THEN "failed" ELSE missing[c]
      <4>1. PICK S \in SUBSET l.got : S = {}
        OBVIOUS
      <4>2. /\ loads' = [loads EXCEPT ![c] = loads[c] \ {l}]
            /\ missing' = [missing EXCEPT ![c] = m]
            /\ shown' = [shown EXCEPT ![c] = shown[c] \cup S]
        BY <3>1, <3>4, <4>1 DEF LoadFails
      <4>3. m = "nothing" => missing[c] = "nothing"
        OBVIOUS
      <4>4. m \in {"join", "load", "shared", "failed", "nothing"}
        BY <3>2
      <4> HIDE DEF m
      <4> QED
        BY <4>2, <4>3, <4>4
    <3> QED
      BY <1>6, <3>3, <3>4
  <2>2. l.got \subseteq Message
    BY <1>3 DEF LoadState
  <2>3. PageOK'
    BY <1>1, <1>3, <2>1, <2>2 DEF PageOK
  <2>4. shown'[c] = shown[c] \cup S /\ missing'[c] = m /\ loads'[c] \subseteq loads[c]
    BY <1>3, <2>1 DEF PageOK
  <2>5. Due(c)' = Due(c) \cup S
    BY <1>1, <2>4 DEF Due, UnderWay, server, Stored
  <2>6. m = "nothing" => asked[c] = "done"
    BY <1>3, <2>1 DEF PageWhole
  <2>7. Live(c) /\ m = "nothing" => Stored \subseteq Due(c)'
    BY <1>3, <2>1, <2>5 DEF PageWhole
  <2>8. PageWhole(c)'
    BY <1>1, <1>3, <1>4, <2>4, <2>5, <2>6, <2>7 DEF PageWhole, server
  <2> QED
    BY <1>1, <1>2, <1>3, <2>1, <2>3, <2>8, PageKeeps DEF PageOK
<1> QED
  BY <1>5, <1>6

LEMMA ThreadsSteps == ASSUME ThreadsInv, [ThreadsNext]_threadVars PROVE ThreadsInv'
<1>1. CASE UNCHANGED threadVars
  BY <1>1 DEF threadVars, ThreadsInv, ServerOK, PageOK, Connected, FreshSinceJoin, NothingFallsThrough,
              Live, Stored, Due, UnderWay
<1>2. CASE ThreadsNext
  BY <1>2, PostSteps, BridgeSteps, ProcessSteps, DropSteps, JoinSteps, LoadSteps DEF ThreadsNext
<1> QED
  BY <1>1, <1>2

LEMMA ThreadsHold == ThreadsSpec => []ThreadsInv
<1>1. ThreadsInv /\ [ThreadsNext]_threadVars => ThreadsInv'
  BY ThreadsSteps
<1> QED
  BY <1>1, ThreadsStart, PTL DEF ThreadsSpec

\* The rows, processes, connections and pages of a chat keep their shapes.
THEOREM ThreadsAreWellTyped == ThreadsSpec => []ThreadsTypeOK
<1>1. ThreadsInv => ThreadsTypeOK
  BY ThreadsShape DEF ThreadsInv
<1> QED
  BY <1>1, ThreadsHold, PTL

\* Between a load that began after the join and the broadcasts no message falls through,
\* whatever connections, bridges and processes come and go.
THEOREM NoMessageFallsThrough == ThreadsSpec => []LoadedThreadIsWhole
<1>1. ThreadsInv => LoadedThreadIsWhole
  BY DEF ThreadsInv, NothingFallsThrough, LoadedThreadIsWhole, Due
<1> QED
  BY <1>1, ThreadsHold, PTL

-----------------------------------------------------------------------------
(***************************************************************************)
(* Proof that a support request leaves the open queue only with messages   *)
(* that an administrator has been shown, or is being answered with, for    *)
(* any number of administrators.                                           *)
(***************************************************************************)

\* The shape of the row, which its updates rely on.
InquiryOK ==
    /\ inquiry \in [status : RequestStatus \cup {NotSent}, count : 0..MaxLetters, theirs : SUBSET Nat]
    /\ \A m \in inquiry.theirs : m \in 1..inquiry.count

SInv == SupportTypeOK /\ InquiryOK /\ NoMessageIsBuried

\* Before the request exists.
LEMMA SupportStarts == SupportInit => SInv
<1> SUFFICES ASSUME SupportInit PROVE SInv
  OBVIOUS
<1> USE SupportAssumption DEF SupportInit
<1>1. SupportTypeOK
  <2>1. Resting \in Call
    BY DEF Resting, Call
  <2>2. call \in [Party -> Call] /\ screen \in [Party -> RequestStatus \cup {NotSent}]
    BY <2>1
  <2>3. inquiry.status = NotSent /\ inquiry.count = 0 /\ inquiry.theirs = {} /\ 0 \in 0..MaxLetters
    OBVIOUS
  <2>4. updates \in 0..MaxUpdates /\ lostAnswers \in 0..MaxLostAnswers
    OBVIOUS
  <2> QED
    BY <2>2, <2>3, <2>4 DEF SupportTypeOK
<1>2. InquiryOK /\ NoMessageIsBuried
  BY DEF InquiryOK, NoMessageIsBuried
<1> QED
  BY <1>1, <1>2 DEF SInv

\* What the pages do leaves the row alone; who begins a call had none that was answered.
LEMMA PageSteps ==
    ASSUME SInv, NEW p \in Party, LoadsRequest(p) \/ SendsReply(p) \/ (p \in Agent /\ SendsUpdate(p))
    PROVE  SInv'
<1>1. /\ UNCHANGED <<inquiry, isGuest, linkEnded, mails, screen, known, astray, lostAnswers>>
      /\ call[p].at = "idle" /\ updates' \in 0..MaxUpdates
      /\ \E c \in Call : call' = [call EXCEPT ![p] = c]
  <2>1. ASSUME LoadsRequest(p)
        PROVE  \E c \in Call : call' = [call EXCEPT ![p] = c]
    <3>1. [kind |-> "load", at |-> "answered", status |-> inquiry.status, count |-> inquiry.count] \in Call
      BY DEF SInv, InquiryOK, Call
    <3> QED
      BY <2>1, <3>1 DEF LoadsRequest
  <2>2. \A kind \in {"reply", "update"}, st \in RequestStatus :
            [kind |-> kind, at |-> "read", status |-> st, count |-> 0] \in Call
    BY SupportAssumption DEF Call
  <2>3. ASSUME SendsReply(p) PROVE \E c \in Call : call' = [call EXCEPT ![p] = c]
    BY <2>2, <2>3 DEF SendsReply, Calls, RequestStatus
  <2>4. ASSUME SendsUpdate(p) PROVE \E c \in Call : call' = [call EXCEPT ![p] = c]
    BY <2>2, <2>4 DEF SendsUpdate, Calls
  <2>5. /\ UNCHANGED <<inquiry, isGuest, linkEnded, mails, screen, known, astray, lostAnswers>>
        /\ call[p].at = "idle"
    BY DEF LoadsRequest, SendsReply, SendsUpdate, Calls
  <2>6. updates' \in 0..MaxUpdates
    BY SupportAssumption DEF LoadsRequest, SendsReply, SendsUpdate, SInv, SupportTypeOK
  <2> QED
    BY <2>1, <2>3, <2>4, <2>5, <2>6
<1>2. PICK c \in Call : call' = [call EXCEPT ![p] = c]
  BY <1>1
<1>3. SupportTypeOK'
  BY <1>1, <1>2 DEF SInv, SupportTypeOK
<1>4. InquiryOK'
  BY <1>1 DEF SInv, InquiryOK
<1>5. \A a \in Agent : call[a].at = "answered" => call'[a] = call[a]
  BY <1>1, <1>2 DEF SInv, SupportTypeOK, Party
<1>6. NoMessageIsBuried'
  BY <1>1, <1>5 DEF SInv, NoMessageIsBuried
<1> QED
  BY <1>3, <1>4, <1>6 DEF SInv

\* The requester writes: the request is open again, whatever it was.
LEMMA RequesterSteps == ASSUME SInv, CreatesRequest \/ RequesterReplies PROVE SInv'
<1>1. inquiry'.status = "OPEN"
  BY DEF CreatesRequest, RequesterReplies
<1>2. NoMessageIsBuried'
  BY <1>1 DEF NoMessageIsBuried
<1>3. CASE CreatesRequest
  <2>1. inquiry' = [status |-> "OPEN", count |-> 1, theirs |-> {1}]
    BY <1>3 DEF CreatesRequest
  <2>2. InquiryOK'
    BY <2>1, SupportAssumption DEF InquiryOK, RequestStatus
  <2>3. mails' \subseteq 0..MaxLetters
    BY <1>3, SupportAssumption DEF CreatesRequest, SInv, SupportTypeOK
  <2>4. SupportTypeOK'
    BY <1>3, <2>1, <2>3, SupportAssumption DEF CreatesRequest, SInv, SupportTypeOK, RequestStatus
  <2> QED
    BY <1>2, <2>2, <2>4 DEF SInv
<1>4. CASE RequesterReplies
  <2> DEFINE n == inquiry.count + 1
  <2>1. /\ n \in 1..MaxLetters /\ inquiry' = [status |-> "OPEN", count |-> n, theirs |-> inquiry.theirs \cup {n}]
        /\ \A m \in inquiry.theirs : m \in 1..inquiry.count
    BY <1>4, SupportAssumption DEF RequesterReplies, SInv, InquiryOK
  <2>2. call' \in [Party -> Call]
    BY <1>4, <2>1 DEF RequesterReplies, Answers, SInv, SupportTypeOK, Call, Party, RequestStatus
  <2>3. InquiryOK'
    BY <2>1, SupportAssumption DEF InquiryOK, RequestStatus, SInv
  <2>4. SupportTypeOK'
    BY <1>4, <2>2, <2>3 DEF RequesterReplies, SInv, SupportTypeOK, InquiryOK
  <2> QED
    BY <1>2, <2>3, <2>4 DEF SInv
<1> QED
  BY <1>3, <1>4

\* An administrator writes: the answer brings every message there is.
LEMMA AdminSteps == ASSUME SInv, NEW a \in Agent, AdminReplies(a) \/ AdminUpdates(a) PROVE SInv'
<1> DEFINE n == inquiry'.count
<1>1. /\ call[a].at = "read" /\ call[a] \in Call /\ a \in Party
      /\ inquiry \in [status : RequestStatus \cup {NotSent}, count : 0..MaxLetters, theirs : SUBSET Nat]
      /\ \A m \in inquiry.theirs : m \in 1..inquiry.count
  BY DEF AdminReplies, AdminUpdates, SInv, SupportTypeOK, InquiryOK, Party
<1>2. /\ n \in 0..MaxLetters /\ n >= inquiry.count
      /\ inquiry' = [inquiry EXCEPT !.status = call[a].status, !.count = n]
      /\ call' = [call EXCEPT ![a] = [kind |-> call[a].kind, at |-> "answered", status |-> call[a].status, count |-> n]]
      /\ UNCHANGED <<isGuest, linkEnded, screen, known, astray, updates, lostAnswers>>
  <2>1. CASE AdminReplies(a)
    BY <1>1, <2>1, SupportAssumption DEF AdminReplies, Answers, SInv, SupportTypeOK
  <2>2. CASE AdminUpdates(a)
    <3>1. inquiry' = [inquiry EXCEPT !.status = call[a].status] /\ inquiry'.count = inquiry.count
      BY <1>1, <2>2 DEF AdminUpdates
    <3>2. inquiry' = [inquiry EXCEPT !.status = call[a].status, !.count = n]
      BY <1>1, <3>1
    <3> QED
      BY <1>1, <2>2, <3>1, <3>2, SupportAssumption DEF AdminUpdates, Answers, SInv, SupportTypeOK
  <2> QED
    BY <2>1, <2>2
<1>3. mails' \subseteq 0..MaxLetters
  BY <1>1, SupportAssumption DEF AdminReplies, AdminUpdates, SInv, SupportTypeOK
<1> HIDE DEF n
<1>4. InquiryOK'
  <2>1. /\ inquiry'.status = call[a].status /\ inquiry'.count = n /\ inquiry'.theirs = inquiry.theirs
        /\ call[a].status \in RequestStatus \cup {NotSent}
    BY <1>1, <1>2 DEF Call
  <2>2. inquiry' \in [status : RequestStatus \cup {NotSent}, count : 0..MaxLetters, theirs : SUBSET Nat]
    BY <1>1, <1>2, <2>1
  <2>3. \A m \in inquiry.theirs : m \in 1..n
    BY <1>1, <1>2, SupportAssumption
  <2> QED
    BY <2>1, <2>2, <2>3 DEF InquiryOK
<1>5. call' \in [Party -> Call] /\ call'[a].at = "answered" /\ call'[a].count = n
  BY <1>1, <1>2 DEF SInv, SupportTypeOK, Call
<1>6. SupportTypeOK'
  BY <1>2, <1>3, <1>4, <1>5 DEF SInv, SupportTypeOK, InquiryOK
<1>7. NoMessageIsBuried'
  BY <1>1, <1>2, <1>5, SupportAssumption DEF NoMessageIsBuried
<1> QED
  BY <1>4, <1>6, <1>7 DEF SInv

\* An answer arrives or is lost; the history keeps what it carried.
LEMMA AnswerSteps == ASSUME SInv, NEW p \in Party, ShowsRequest(p) \/ AnswerIsLost(p) PROVE SInv'
<1>1. /\ UNCHANGED <<inquiry, isGuest, linkEnded, mails, updates>>
      /\ call' = [call EXCEPT ![p] = Resting] /\ call[p] \in Call /\ Resting \in Call
      /\ known' \cup astray' = IF p \in Agent THEN known \cup astray \cup 1..call[p].count ELSE known \cup astray
  <2>1. call[p] \in Call /\ Resting \in Call
    BY SupportAssumption DEF SInv, SupportTypeOK, Call, Resting
  <2>2. CASE ShowsRequest(p)
    BY <2>1, <2>2 DEF ShowsRequest
  <2>3. CASE AnswerIsLost(p)
    BY <2>1, <2>3 DEF AnswerIsLost
  <2> QED
    BY <2>1, <2>2, <2>3
<1>2. /\ screen' \in [Party -> RequestStatus \cup {NotSent}] /\ lostAnswers' \in 0..MaxLostAnswers
      /\ known' \subseteq 1..MaxLetters /\ astray' \subseteq 1..MaxLetters
  <2>1. call[p].status \in RequestStatus \cup {NotSent} /\ call[p].count \in 0..MaxLetters
    BY DEF SInv, SupportTypeOK, Call
  <2>2. 1..call[p].count \subseteq 1..MaxLetters
    BY <2>1, SupportAssumption
  <2>3. CASE ShowsRequest(p)
    BY <2>1, <2>2, <2>3 DEF ShowsRequest, SInv, SupportTypeOK
  <2>4. CASE AnswerIsLost(p)
    <3>1. UNCHANGED <<screen, known>> /\ lostAnswers' \in 0..MaxLostAnswers
      BY <2>4, SupportAssumption DEF AnswerIsLost, SInv, SupportTypeOK
    <3>2. astray' \subseteq astray \cup 1..call[p].count
      BY <2>4 DEF AnswerIsLost
    <3> QED
      BY <2>2, <3>1, <3>2 DEF SInv, SupportTypeOK
  <2> QED
    BY <2>3, <2>4
<1>3. SupportTypeOK' /\ InquiryOK'
  BY <1>1, <1>2 DEF SInv, SupportTypeOK, InquiryOK
<1>4. NoMessageIsBuried'
  <2> SUFFICES ASSUME inquiry.status # "OPEN", NEW m \in inquiry.theirs
               PROVE  m \in known' \cup astray' \/ \E a \in Agent : call'[a].at = "answered" /\ m <= call'[a].count
    BY <1>1 DEF NoMessageIsBuried
  <2>1. CASE m \in known \cup astray
    BY <1>1, <2>1
  <2>2. ASSUME NEW a \in Agent, call[a].at = "answered", m <= call[a].count
        PROVE  m \in known' \cup astray' \/ \E b \in Agent : call'[b].at = "answered" /\ m <= call'[b].count
    <3>1. m \in 1..inquiry.count /\ inquiry.count \in Nat /\ call[a].count \in 0..MaxLetters
      BY SupportAssumption DEF SInv, InquiryOK, SupportTypeOK, Call, Party
    <3>2. CASE a = p
      BY <1>1, <2>2, <3>1, <3>2, SupportAssumption
    <3>3. CASE a # p
      BY <1>1, <2>2, <3>3 DEF SInv, SupportTypeOK, Party
    <3> QED
      BY <3>2, <3>3
  <2> QED
    BY <2>1, <2>2 DEF SInv, NoMessageIsBuried
<1> QED
  BY <1>3, <1>4 DEF SInv

\* The invariant of a support request: its row, and who knows the messages of a request
\* that nobody has to look at any more.
THEOREM SupportInvariance == SupportSpec => []SInv
<1>1. SInv /\ [SupportNext]_supportVars => SInv'
  <2> SUFFICES ASSUME SInv, [SupportNext]_supportVars PROVE SInv'
    OBVIOUS
  <2>1. CASE CreatesRequest \/ RequesterReplies
    BY <2>1, RequesterSteps
  <2>2. CASE LinkEnds
    BY <2>2 DEF LinkEnds, SInv, SupportTypeOK, InquiryOK, NoMessageIsBuried
  <2>3. ASSUME NEW p \in Party, LoadsRequest(p) \/ SendsReply(p) PROVE SInv'
    BY <2>3, PageSteps
  <2>4. ASSUME NEW p \in Party, ShowsRequest(p) \/ AnswerIsLost(p) PROVE SInv'
    BY <2>4, AnswerSteps
  <2>5. ASSUME NEW a \in Agent, SendsUpdate(a) PROVE SInv'
    BY <2>5, PageSteps DEF Party
  <2>6. ASSUME NEW a \in Agent, AdminReplies(a) \/ AdminUpdates(a) PROVE SInv'
    BY <2>6, AdminSteps
  <2>7. CASE UNCHANGED supportVars
    BY <2>7 DEF supportVars, SInv, SupportTypeOK, InquiryOK, NoMessageIsBuried
  <2> QED
    BY <2>1, <2>2, <2>3, <2>4, <2>5, <2>6, <2>7 DEF SupportNext
<1> QED
  BY SupportStarts, <1>1, PTL DEF SupportSpec

\* A request that is no longer open hides no message of its requester.
THEOREM NothingIsBuried == SupportSpec => []NoMessageIsBuried
<1>1. SInv => NoMessageIsBuried
  BY DEF SInv
<1> QED
  BY SupportInvariance, <1>1, PTL
=============================================================================
