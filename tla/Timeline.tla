------------------------------ MODULE Timeline ------------------------------
(***************************************************************************)
(* How messages get their place in the table messages: handleChat asks the *)
(* rate limiter, takes an id from the generator, then reads the clock once *)
(* more for the timestamp, and the row is inserted some time later.  The   *)
(* handlers of several messages interleave at each of these steps.         *)
(***************************************************************************)
EXTENDS Snowflake, RateLimiter

CONSTANTS
    From,      \* From[m]: the sender of message m; a message is a caller of Next
    ToGroup    \* messages to the group; the others belong to the conversation

VARIABLES
    step,      \* step[m]: the next step of the handler of m
    ts,        \* ts[m]: Timestamp
    rows       \* table messages: the messages that have a row

timelineVars == <<step, ts, rows>>

Message == Caller

TimelineInit ==
    /\ SnowInit
    /\ LimiterInit
    /\ step = [m \in Message |-> "limit"]
    /\ ts = [m \in Message |-> 0]
    /\ rows = {}

\* MsgId, once the message has it.
MsgId(m) == CHOOSE i \in issued[m] : TRUE

Goes(m, next) == step' = [step EXCEPT ![m] = next]

\* checkRateLimit: a message over the limit is dropped without an answer.
Admit(m) ==
    /\ step[m] = "limit"
    /\ \/ Allow(From[m]) /\ Goes(m, "id")
       \/ Reject(From[m]) /\ Goes(m, "dropped")
    /\ UNCHANGED <<snowVars, ts, rows>>

\* msg.MsgId = r.snow.Next(), used as it comes, 0 included.
TakeId(m) ==
    /\ step[m] = "id"
    /\ NextId(m)
    /\ Goes(m, IF issued'[m] = {} THEN "id" ELSE "stamp")
    /\ UNCHANGED <<limiterVars, ts, rows>>

\* msg.Timestamp = time.Now().UnixMilli()
Stamp(m) ==
    /\ step[m] = "stamp"
    /\ ts' = [ts EXCEPT ![m] = wall]
    /\ Goes(m, "save")
    /\ UNCHANGED <<snowVars, limiterVars, rows>>

\* Save: INSERT IGNORE drops the message when its id has a row.
Save(m) ==
    /\ step[m] = "save"
    /\ rows' = IF \E r \in rows : MsgId(r) = MsgId(m) THEN rows ELSE rows \cup {m}
    /\ Goes(m, "saved")
    /\ UNCHANGED <<snowVars, limiterVars, ts>>

\* Time passes on both clocks.
Elapse == Tick /\ Pass /\ UNCHANGED timelineVars

SetBack == StepBack /\ UNCHANGED <<limiterVars, timelineVars>>

Forget == Cleanup /\ UNCHANGED <<snowVars, timelineVars>>
=============================================================================
