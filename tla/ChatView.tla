------------------------------ MODULE ChatView ------------------------------
(***************************************************************************)
(* What one web client shows of a conversation: the pure functions of      *)
(* web/src/stores/chatStore.ts and of the history loader of useChat.ts, on *)
(* a view, the sequence of its bubbles.  A bubble is                       *)
(*    msg       which message its author wrote                             *)
(*    id        the MsgId it carries, the message it was given to, or      *)
(*              Unassigned while it carries '0'                            *)
(*    seq       the client's sequence number, 0 in what others sent        *)
(*    at        its timestamp                                              *)
(*    status    "sending", "sent" or "read"                                *)
(*    recalled  whether it is shown as recalled                            *)
(*    text      "first", the text as sent, "edited", or "gone", the text   *)
(*              of a row whose message was recalled                        *)
(***************************************************************************)
EXTENDS Sequences, FiniteSetsExt

CONSTANT Unassigned      \* MsgId '0'

IdsOf(view) == {view[i].id : i \in DOMAIN view}

\* Mutant: a message that is shown already is added again.
AddAgain(view, b) == Append(view, b)

\* addMessage: a message whose id is shown already is not added.
addMessage(view, b) ==
    IF b.id # Unassigned /\ b.id \in IdsOf(view) THEN view ELSE Append(view, b)

MapBubbles(view, Picks(_), F(_)) ==
    [i \in DOMAIN view |-> IF Picks(view[i]) THEN F(view[i]) ELSE view[i]]

\* confirmMessage: the ACK gives the waiting bubble its id and timestamp.
confirmMessage(view, seq, id, at) ==
    LET Picks(b) == b.seq = seq /\ b.status = "sending"
        F(b) == [b EXCEPT !.id = id, !.at = at, !.status = "sent"]
    IN  MapBubbles(view, Picks, F)

markRecalled(view, id) ==
    LET Picks(b) == b.id = id
        F(b) == [b EXCEPT !.recalled = "yes"]
    IN  MapBubbles(view, Picks, F)

\* The Edit branch of handleMessage.
applyEdit(view, id) ==
    LET Picks(b) == b.id = id
        F(b) == [b EXCEPT !.text = "edited"]
    IN  MapBubbles(view, Picks, F)

\* markMessagesRead in the view of the author, where nothing is the reader's: every
\* message that has its ACK and is not recalled.
markMessagesRead(view) ==
    LET Picks(b) == b.recalled = "no" /\ b.status = "sent"
        F(b) == [b EXCEPT !.status = "read"]
    IN  MapBubbles(view, Picks, F)

\* filter: the entries of s at the positions P, in their order.
Filter(s, P) ==
    [k \in 1..Cardinality(P) |-> s[CHOOSE i \in P : Cardinality({j \in P : j <= i}) = k]]

\* newMessages.reverse().  The operator of SequencesExt comes with Bags and TLC, whose
\* definitions would be carried through every step of the proofs.
Reverse(s) == [i \in DOMAIN s |-> s[Len(s) + 1 - i]]

\* The Cmd.History callback of loadHistory: what came since the request, newest
\* first, is put in order of time above what was there.
rebuild(view, existing) ==
    LET new == {i \in DOMAIN view : view[i].id \notin existing}
    IN  Reverse(Filter(view, new)) \o Filter(view, DOMAIN view \ new)

\* The timestamp loadHistory asks from: that of the topmost bubble, or the time.
BeforeTs(view, now) == IF view = <<>> THEN now ELSE view[1].at
=============================================================================
