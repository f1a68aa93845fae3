---------------------------- MODULE Conversations ----------------------------
(***************************************************************************)
(* The conversation of two members: messages.service.ts, and the likes,    *)
(* passes and blocks of discovery.service.ts, which write the same rows.   *)
(*                                                                         *)
(* A request reads the block rows, the match row and the likes one query   *)
(* at a time and then writes by the match's id, whatever became of it.     *)
(* What a request may do with what it read is the subject of this module.  *)
(* A member who is suspended, has left the pool or has asked too often is  *)
(* refused at the checks (Refuse).                                         *)
(***************************************************************************)
EXTENDS Naturals, Sequences

CONSTANTS
    Member,         \* the two members
    Asker,         \* requests in progress at a time
    MaxPosts,    \* bound on the messages
    MaxAsks,    \* bound on the requests begun
    NoMember

ASSUME ConversationsAssumption ==
    /\ \E u, v \in Member : u # v /\ Member = {u, v}
    /\ MaxPosts \in Nat /\ MaxAsks \in Nat
    /\ NoMember \notin Member

VARIABLES
    match,      \* the Match row: status, requestedById
    blocker,    \* UserBlock rows: who blocks the other
    liked,      \* DiscoveryActionLog rows: the action of each member
    inbox,      \* DirectMessage rows in the order of createdAt: their senders
    readUpTo,   \* MatchReadState.lastReadAt of each member
    request,    \* progress of each request
    asks       \* requests begun so far

chatVars == <<match, blocker, liked, inbox, readUpTo, request, asks>>

Other(u) == CHOOSE v \in Member : v # u

Ended == {"CLOSED", "DECLINED", "UNMATCHED"}
MatchStatus == {"none", "REQUESTED", "ACTIVE", "BLOCKED"} \cup Ended
MatchRow == [status : MatchStatus, by : Member \cup {NoMember}]
Action == {"none", "LIKE", "PASS"}

\* pc: where the request stands.  clear, live: since it began there was a moment
\* without a block but the one it lifts itself, and one at which the conversation had
\* not ended (history).
NoRequest == [pc |-> "idle", by |-> NoMember, clear |-> FALSE, live |-> FALSE, upTo |-> 0]

ChatInit ==
    /\ match = [status |-> "none", by |-> NoMember]
    /\ blocker = {}
    /\ liked = [u \in Member |-> "none"]
    /\ inbox = <<>>
    /\ readUpTo = [u \in Member |-> 0]
    /\ request = [c \in Asker |-> NoRequest]
    /\ asks = 0

-----------------------------------------------------------------------------
(* The steps of a request. *)

Stands(c, pc) == request[c].pc = pc
By(c) == request[c].by

\* The block a request is about to lift.
Lifted(r) == IF r.pc \in {"unblock.read", "unblock.keep", "unblock.restore"} THEN {r.by} ELSE {}

\* What every step records for the requests in progress: the state it leaves.
Witness(r) ==
    [c \in Asker |->
        IF r[c].pc = "idle" THEN r[c]
        ELSE [r[c] EXCEPT !.clear = @ \/ blocker' \subseteq Lifted(r[c]),
                          !.live = @ \/ match'.status \notin Ended]]

Goes(c, pc) == request' = Witness([request EXCEPT ![c].pc = pc])
Answer(c) == request' = Witness([request EXCEPT ![c] = NoRequest])
rows == <<match, blocker, liked, inbox, readUpTo>>

FirstStep == {"ask.blocks", "accept.find", "decline.find", "send.find", "close.find",
              "unmatch.find", "like.blocks", "pass.log", "block.row", "unblock.read", "read.now"}

Begin(c, u, pc) ==
    /\ asks < MaxAsks
    /\ request[c] = NoRequest
    /\ asks' = asks + 1
    /\ UNCHANGED rows
    /\ request' = Witness([request EXCEPT ![c] = [NoRequest EXCEPT !.pc = pc, !.by = u]])

\* A failed check, a lost connection or a fault: the caller gets an error.
Refuse(c) ==
    /\ request[c] # NoRequest
    /\ UNCHANGED <<match, blocker, liked, inbox, readUpTo, asks>>
    /\ Answer(c)

\* A read that lets the request go on when it holds and refuses it otherwise.
Check(c, from, holds, to) ==
    /\ Stands(c, from)
    /\ UNCHANGED <<match, blocker, liked, inbox, readUpTo, asks>>
    /\ IF holds THEN Goes(c, to) ELSE Answer(c)

SetStatus(s) == match' = [match EXCEPT !.status = s]

\* directMessage.create
Post(u) == inbox' = Append(inbox, u)
MayPost == Len(inbox) < MaxPosts

-----------------------------------------------------------------------------
(* createConversationRequest *)

AskBlocks(c) == Check(c, "ask.blocks", blocker = {}, "ask.look")

\* An open conversation turns the request into a message, a request of the other
\* member into its answer; an own request stands, and an ended one refuses.
AskLook(c) ==
    /\ Stands(c, "ask.look")
    /\ UNCHANGED <<match, blocker, liked, inbox, readUpTo, asks>>
    /\ CASE match.status = "none" -> Goes(c, "ask.create")
         [] match.status = "ACTIVE" -> Goes(c, "send.find")
         [] match.status = "REQUESTED" /\ match.by # By(c) -> Goes(c, "ask.reply")
         [] OTHER -> Answer(c)

\* The match and its first message; the pair is unique, and a request that lost the
\* race (P2002) answers with the other's match and writes nothing.
AskCreate(c) ==
    /\ Stands(c, "ask.create")
    /\ IF match.status = "none"
       THEN /\ MayPost
            /\ match' = [status |-> "REQUESTED", by |-> By(c)]
            /\ Post(By(c))
       ELSE UNCHANGED <<match, inbox>>
    /\ UNCHANGED <<blocker, liked, readUpTo, asks>>
    /\ Answer(c)

\* The answer accepts by id, whatever the status is by now.
AskReply(c) ==
    /\ Stands(c, "ask.reply")
    /\ MayPost
    /\ SetStatus("ACTIVE")
    /\ Post(By(c))
    /\ UNCHANGED <<blocker, liked, readUpTo, asks>>
    /\ Answer(c)

(* acceptConversationRequest, declineConversationRequest *)

\* Mutant: a request that was answered is found again.
Received_AnyStatus(c) == match.by \notin {By(c), NoMember}
Received(c) == match.status = "REQUESTED" /\ match.by # By(c)

AcceptFind(c) == Check(c, "accept.find", Received(c), "accept.blocks")
\* Mutant: accepting does not look at the blocks.
AcceptBlocks_Unchecked(c) == Check(c, "accept.blocks", TRUE, "accept.write")
AcceptBlocks(c) == Check(c, "accept.blocks", blocker = {}, "accept.write")
DeclineFind(c) == Check(c, "decline.find", Received(c), "decline.write")

\* update by id
Write(c, at, status) ==
    /\ Stands(c, at)
    /\ SetStatus(status)
    /\ UNCHANGED <<blocker, liked, inbox, readUpTo, asks>>
    /\ Answer(c)

AcceptWrite(c) == Write(c, "accept.write", "ACTIVE")
DeclineWrite(c) == Write(c, "decline.write", "DECLINED")

(* closeConversation, unmatch *)

CloseFind(c) == Check(c, "close.find", match.status = "ACTIVE", "close.write")
CloseWrite(c) == Write(c, "close.write", "CLOSED")
UnmatchFind(c) == Check(c, "unmatch.find", match.status = "ACTIVE", "unmatch.write")

\* Both members' actions are forgotten with the match.
UnmatchWrite(c) ==
    /\ Stands(c, "unmatch.write")
    /\ SetStatus("UNMATCHED")
    /\ liked' = [u \in Member |-> "none"]
    /\ UNCHANGED <<blocker, inbox, readUpTo, asks>>
    /\ Answer(c)

-----------------------------------------------------------------------------
(* createMessage, getMessages, markMatchRead *)

SendFind(c) == Check(c, "send.find", match.status = "ACTIVE", "send.blocks")
SendBlocks(c) == Check(c, "send.blocks", blocker = {}, "send.write")

\* The message, and then lastReadAt with the time after it.
SendWrite(c) ==
    /\ Stands(c, "send.write")
    /\ MayPost
    /\ Post(By(c))
    /\ UNCHANGED <<match, blocker, liked, readUpTo, asks>>
    /\ request' = Witness([request EXCEPT ![c].pc = "mark", ![c].upTo = Len(inbox) + 1])

\* Mutant: the time of the reading counts a message that is still to come.
ReadNow_Ahead(c) ==
    /\ Stands(c, "read.now")
    /\ UNCHANGED <<match, blocker, liked, inbox, readUpTo, asks>>
    /\ IF match.status \in {"ACTIVE", "BLOCKED"}
       THEN request' = Witness([request EXCEPT ![c].pc = "mark", ![c].upTo = Len(inbox) + 1])
       ELSE Answer(c)

\* assertMatchParticipant, the page and the time of the reading.
ReadNow(c) ==
    /\ Stands(c, "read.now")
    /\ UNCHANGED <<match, blocker, liked, inbox, readUpTo, asks>>
    /\ IF match.status \in {"ACTIVE", "BLOCKED"}
       THEN request' = Witness([request EXCEPT ![c].pc = "mark", ![c].upTo = Len(inbox)])
       ELSE Answer(c)

\* markMatchReadAt: the time is written as it is, also over a later one.
Mark(c) ==
    /\ Stands(c, "mark")
    /\ readUpTo' = [readUpTo EXCEPT ![By(c)] = request[c].upTo]
    /\ UNCHANGED <<match, blocker, liked, inbox, asks>>
    /\ Answer(c)

-----------------------------------------------------------------------------
(* recordAction *)

LikeBlocks(c) == Check(c, "like.blocks", blocker = {}, "like.closed")
LikeClosed(c) == Check(c, "like.closed", match.status \notin Ended \cup {"BLOCKED"}, "like.log")

LogAction(c, at, action, to) ==
    /\ Stands(c, at)
    /\ liked' = [liked EXCEPT ![By(c)] = action]
    /\ UNCHANGED <<match, blocker, inbox, readUpTo, asks>>
    /\ Goes(c, to)

LikeLog(c) == LogAction(c, "like.log", "LIKE", "like.other")
LikeOther(c) == Check(c, "like.other", liked[Other(By(c))] = "LIKE", "like.match")

\* The upsert makes the pair's match active, whatever it was.
LikeMatch(c) == Write(c, "like.match", "ACTIVE")

PassLog(c) == LogAction(c, "pass.log", "PASS", "pass.match")

\* updateMany over the pair, in every status.
PassMatch(c) ==
    /\ Stands(c, "pass.match")
    /\ IF match.status = "none" THEN UNCHANGED match ELSE SetStatus("UNMATCHED")
    /\ UNCHANGED <<blocker, liked, inbox, readUpTo, asks>>
    /\ Answer(c)

(* blockUser, unblockUser *)

BlockRow(c) ==
    /\ Stands(c, "block.row")
    /\ blocker' = blocker \cup {By(c)}
    /\ UNCHANGED <<match, liked, inbox, readUpTo, asks>>
    /\ Goes(c, "block.active")

BlockActive(c) ==
    /\ Stands(c, "block.active")
    /\ IF match.status = "ACTIVE" THEN SetStatus("BLOCKED") ELSE UNCHANGED match
    /\ UNCHANGED <<blocker, liked, inbox, readUpTo, asks>>
    /\ Goes(c, "block.requested")

BlockRequested(c) ==
    /\ Stands(c, "block.requested")
    /\ IF match.status = "REQUESTED" THEN SetStatus("DECLINED") ELSE UNCHANGED match
    /\ UNCHANGED <<blocker, liked, inbox, readUpTo, asks>>
    /\ Answer(c)

\* One transaction: its delete is not seen by others until it commits, and the
\* other member's row is read as the last commit left it.
UnblockRead(c) ==
    /\ Stands(c, "unblock.read")
    /\ UNCHANGED <<match, blocker, liked, inbox, readUpTo, asks>>
    /\ IF By(c) \in blocker
       THEN Goes(c, IF Other(By(c)) \in blocker THEN "unblock.keep" ELSE "unblock.restore")
       ELSE Answer(c)

UnblockCommit(c) ==
    /\ request[c].pc \in {"unblock.keep", "unblock.restore"}
    /\ blocker' = blocker \ {By(c)}
    /\ IF Stands(c, "unblock.restore") /\ match.status = "BLOCKED" /\ By(c) \in blocker
       THEN SetStatus("ACTIVE")
       ELSE UNCHANGED match
    /\ UNCHANGED <<liked, inbox, readUpTo, asks>>
    /\ Answer(c)

ChatNext == \E c \in Asker :
    \/ \E u \in Member, pc \in FirstStep : Begin(c, u, pc)
    \/ Refuse(c)
    \/ AskBlocks(c) \/ AskLook(c) \/ AskCreate(c) \/ AskReply(c)
    \/ AcceptFind(c) \/ AcceptBlocks(c) \/ AcceptWrite(c)
    \/ DeclineFind(c) \/ DeclineWrite(c)
    \/ CloseFind(c) \/ CloseWrite(c) \/ UnmatchFind(c) \/ UnmatchWrite(c)
    \/ SendFind(c) \/ SendBlocks(c) \/ SendWrite(c) \/ ReadNow(c) \/ Mark(c)
    \/ LikeBlocks(c) \/ LikeClosed(c) \/ LikeLog(c) \/ LikeOther(c) \/ LikeMatch(c)
    \/ PassLog(c) \/ PassMatch(c)
    \/ BlockRow(c) \/ BlockActive(c) \/ BlockRequested(c)
    \/ UnblockRead(c) \/ UnblockCommit(c)

ChatSpec == ChatInit /\ [][ChatNext]_chatVars

-----------------------------------------------------------------------------
(* Properties. *)

ChatStep == {"idle", "ask.look", "ask.create", "ask.reply", "accept.blocks", "accept.write",
         "decline.write", "close.write", "unmatch.write", "send.blocks", "send.write", "mark",
         "like.closed", "like.log", "like.other", "like.match", "pass.match", "block.active",
         "block.requested", "unblock.keep", "unblock.restore"} \cup FirstStep

ChatTypeOK ==
    /\ match \in MatchRow
    /\ blocker \subseteq Member
    /\ liked \in [Member -> Action]
    /\ inbox \in Seq(Member) /\ Len(inbox) <= MaxPosts
    /\ readUpTo \in [Member -> 0..MaxPosts]
    /\ request \in [Asker -> [pc : ChatStep, by : Member \cup {NoMember}, clear : BOOLEAN,
                               live : BOOLEAN, upTo : 0..MaxPosts]]
    /\ asks \in 0..MaxAsks

Finishes(c) == request[c].pc # "idle" /\ (request'[c].pc = "idle" \/ request'[c].pc # request[c].pc)
Contact == Len(inbox') > Len(inbox) \/ (match.status # "ACTIVE" /\ match'.status = "ACTIVE")

\* A member who has blocked the other hears nothing from them and gets no
\* conversation with them by any request that ran under the block, however the
\* requests interleave: only a request that has seen a moment without a block writes a
\* message or opens the conversation.  An unblocking counts the other member's block
\* alone: it still restores a conversation that the other blocks after it looked.
NoContactAcrossABlock ==
    [][Contact => \E c \in Asker : Finishes(c) /\ request[c].clear]_chatVars

\* A conversation that was closed, declined or unmatched is opened again by no
\* request that began after it had ended, and by no unblocking.
EndedStaysEnded ==
    [][(match.status \in Ended /\ match'.status \notin Ended) =>
        \E c \in Asker : Finishes(c) /\ request[c].live]_chatVars
=============================================================================
