---------------------------- MODULE Persistence ----------------------------
(***************************************************************************)
(* What becomes of a message after handleChat has handed it to             *)
(* persistAsync: the gateway's bounded queue and its workers (router.go),  *)
(* the Kafka topic (mq/producer.go), the batching consumer of the Logic    *)
(* service (mq/consumer.go), and the row in MySQL with recall, edit and    *)
(* deletion (router.go, repo/mysql.go).                                    *)
(*                                                                         *)
(* The topic has one partition; offsets count from 0.  A flush can start   *)
(* at any time: the ticker fires every second and flushCh only makes it    *)
(* sooner.                                                                 *)
(***************************************************************************)
EXTENDS Integers, Sequences, FiniteSets, FiniteSetsExt

CONSTANTS
    Msg,          \* messages, each handed to persistAsync at most once
    Worker,       \* persistWorker goroutines
    QueueSize,    \* capacity of persistTasks
    MaxBuffer,    \* maxBufferSize of the consumer
    SaveMayFail,  \* MySQL may refuse an INSERT
    MaxLog,       \* bound: records in the topic
    MaxCrashes    \* bound: crashes of the Logic service

ASSUME PersistenceAssumption ==
    /\ Msg \cap {"junk", "none"} = {}
    /\ SaveMayFail \in BOOLEAN
    /\ QueueSize \in Nat \ {0}
    /\ MaxBuffer \in Nat \ {0}
    /\ MaxLog \in Nat
    /\ MaxCrashes \in Nat

VARIABLES
    given,      \* messages handed to persistAsync so far
    queue,      \* Router.persistTasks
    worker,     \* worker[w]: what the worker is doing
    gateway,    \* up, stopping (persistDone is closed)
    log,        \* the topic: the message at each offset is log[offset + 1]
    committed,  \* the group's committed offset: where a restart reads on
    run,        \* the goroutine of Consumer.Run: on, cancelled, done
    loop,       \* flushLoop: on, returned
    pos,        \* the offset FetchMessage returns next
    buffer,     \* Consumer.buffer: offsets
    flush,      \* flush[f]: the flushAll call of "run" or of "loop"
    discard,    \* offsets cut off the full buffer, their commit still pending
    rows,       \* the messages table
    saved,      \* history: offsets the consumer has saved
    failed,     \* history: offsets whose Save failed
    dropped,    \* history: offsets cut off the full buffer
    recalls,    \* history: messages recalled with success
    deleted,    \* history: messages an administrator deleted
    crashes     \* crashes of the Logic service so far

gatewayVars == <<given, queue, worker, gateway>>
consumerVars == <<run, loop, pos, buffer, flush, discard>>
histories == <<saved, failed, dropped>>
vars == <<gatewayVars, log, committed, consumerVars, rows, histories, recalls,
          deleted, crashes>>

NoRow == [content |-> "none", recalled |-> FALSE]
Free == [at |-> "idle", msg |-> "none"]
NoFlush == [at |-> "idle", batch |-> <<>>, ok |-> {}]

Init ==
    /\ given = {}
    /\ queue = <<>>
    /\ worker = [w \in Worker |-> Free]
    /\ gateway = "up"
    /\ log = <<>>
    /\ committed = 0
    /\ run = "on"
    /\ loop = "on"
    /\ pos = 0
    /\ buffer = <<>>
    /\ flush = [f \in {"run", "loop"} |-> NoFlush]
    /\ discard = {}
    /\ rows = [m \in Msg |-> NoRow]
    /\ saved = {}
    /\ failed = {}
    /\ dropped = {}
    /\ recalls = {}
    /\ deleted = {}
    /\ crashes = 0

-----------------------------------------------------------------------------
(* MySQL                                                                   *)

\* Mutant: INSERT ... ON DUPLICATE KEY UPDATE.
SaveOverwrites(m) ==
    rows' = [rows EXCEPT ![m] = [content |-> "text", recalled |-> FALSE]]

\* INSERT IGNORE: a row that is there stays as it is.
Save(m) ==
    rows' = [rows EXCEPT ![m] = IF @ = NoRow
                                THEN [content |-> "text", recalled |-> FALSE]
                                ELSE @]

-----------------------------------------------------------------------------
(* The gateway                                                             *)

\* persistAsync: a full queue drops the message.
PersistAsync(m) ==
    /\ m \notin given
    /\ given' = given \cup {m}
    /\ queue' = IF Len(queue) < QueueSize THEN Append(queue, m) ELSE queue
    /\ UNCHANGED <<worker, gateway, log, committed, consumerVars, rows, histories,
                   recalls, deleted, crashes>>

\* persistWorker takes a task; it may do so after Stop too.
TakeTask(w) ==
    /\ worker[w].at = "idle"
    /\ queue # <<>>
    /\ worker' = [worker EXCEPT ![w] = [at |-> "publish", msg |-> Head(queue)]]
    /\ queue' = Tail(queue)
    /\ UNCHANGED <<given, gateway, log, committed, consumerVars, rows, histories,
                   recalls, deleted, crashes>>

\* kafka.Publish: the writer may fail, and a retry inside it may write twice.
Publish(w) ==
    /\ worker[w].at = "publish"
    /\ \E n \in 0..2 :
          /\ Len(log) + n <= MaxLog
          /\ log' = log \o [i \in 1..n |-> worker[w].msg]
    /\ worker' = [worker EXCEPT ![w].at = "save"]
    /\ UNCHANGED <<given, queue, gateway, committed, consumerVars, rows, histories,
                   recalls, deleted, crashes>>

\* msgStore.Save of the gateway itself; an error is counted and logged.
SaveDirect(w) ==
    /\ worker[w].at = "save"
    /\ Save(worker[w].msg) \/ (SaveMayFail /\ UNCHANGED rows)
    /\ worker' = [worker EXCEPT ![w] = Free]
    /\ UNCHANGED <<given, queue, gateway, log, committed, consumerVars, histories,
                   recalls, deleted, crashes>>

\* Router.Stop closes persistDone; an idle worker that sees it returns.
Stop ==
    /\ gateway = "up"
    /\ gateway' = "stopping"
    /\ UNCHANGED <<given, queue, worker, log, committed, consumerVars, rows,
                   histories, recalls, deleted, crashes>>

WorkerReturns(w) ==
    /\ gateway = "stopping"
    /\ worker[w].at = "idle"
    /\ worker' = [worker EXCEPT ![w].at = "returned"]
    /\ UNCHANGED <<given, queue, gateway, log, committed, consumerVars, rows,
                   histories, recalls, deleted, crashes>>

\* handleRecall: RecallMessage changes the row of its author's message inside
\* the recall window; otherwise the author is told and nothing happens.
Recall(m) ==
    LET new == [content |-> "mark", recalled |-> TRUE] IN
    /\ rows[m] \notin {NoRow, new}
    /\ rows' = [rows EXCEPT ![m] = new]
    /\ recalls' = recalls \cup {m}
    /\ UNCHANGED <<gatewayVars, log, committed, consumerVars, histories, deleted,
                   crashes>>

\* handleEdit: UpdateMessageContent leaves the recalled flag alone.
Edit(m) ==
    /\ rows[m] # NoRow
    /\ rows' = [rows EXCEPT ![m].content = "edit"]
    /\ UNCHANGED <<gatewayVars, log, committed, consumerVars, histories, recalls,
                   deleted, crashes>>

\* DeleteMessage of the administration interface.
Delete(m) ==
    /\ rows[m] # NoRow
    /\ rows' = [rows EXCEPT ![m] = NoRow]
    /\ deleted' = deleted \cup {m}
    /\ UNCHANGED <<gatewayVars, log, committed, consumerVars, histories, recalls,
                   crashes>>

-----------------------------------------------------------------------------
(* The topic, and Consumer.Run                                             *)

\* Another producer writes a record that is no message.
PublishJunk ==
    /\ Len(log) < MaxLog
    /\ log' = Append(log, "junk")
    /\ UNCHANGED <<gatewayVars, committed, consumerVars, rows, histories, recalls,
                   deleted, crashes>>

\* CommitMessages moves the committed offset behind o, whatever lies below it;
\* when it fails the offset stays.
CommitUpTo(o) == committed' \in {committed, o + 1}

\* FetchMessage may still return a record after the context was cancelled.
MayFetch == run \in {"on", "cancelled"} /\ pos < Len(log)

\* A record that cannot be unmarshalled is committed and skipped.
FetchJunk ==
    /\ MayFetch
    /\ log[pos + 1] = "junk"
    /\ CommitUpTo(pos)
    /\ pos' = pos + 1
    /\ UNCHANGED <<gatewayVars, log, run, loop, buffer, flush, discard, rows,
                   histories, recalls, deleted, crashes>>

\* Append to the buffer; a full buffer loses its oldest message, which another
\* goroutine commits.
Fetch ==
    LET full == Len(buffer) >= MaxBuffer IN
    /\ MayFetch
    /\ log[pos + 1] # "junk"
    /\ buffer' = Append(IF full THEN Tail(buffer) ELSE buffer, pos)
    /\ discard' = IF full THEN discard \cup {Head(buffer)} ELSE discard
    /\ dropped' = IF full THEN dropped \cup {Head(buffer)} ELSE dropped
    /\ pos' = pos + 1
    /\ UNCHANGED <<gatewayVars, log, committed, run, loop, flush, rows, saved, failed,
                   recalls, deleted, crashes>>

CommitDiscarded(o) ==
    /\ o \in discard
    /\ CommitUpTo(o)
    /\ discard' = discard \ {o}
    /\ UNCHANGED <<gatewayVars, log, run, loop, pos, buffer, flush, rows, histories,
                   recalls, deleted, crashes>>

-----------------------------------------------------------------------------
(* flushAll, called by flushLoop and, once, by Run when it ends            *)

TakeBatch(f) ==
    /\ flush[f].at = "idle"
    /\ buffer # <<>>
    /\ flush' = [flush EXCEPT ![f] = [at |-> "save", batch |-> buffer, ok |-> {}]]
    /\ buffer' = <<>>

LoopFlush ==
    /\ loop = "on"
    /\ TakeBatch("loop")
    /\ UNCHANGED <<gatewayVars, log, committed, run, loop, pos, discard, rows,
                   histories, recalls, deleted, crashes>>

\* Mutant: Run returns without the last flush.
RunEndsAtOnce ==
    /\ run = "cancelled"
    /\ run' = "done"
    /\ UNCHANGED <<gatewayVars, log, committed, loop, pos, buffer, flush, discard,
                   rows, histories, recalls, deleted, crashes>>

\* Run sees that the context is cancelled and flushes what is left.
RunEnds ==
    /\ run = "cancelled"
    /\ IF buffer = <<>> THEN run' = "done" /\ UNCHANGED <<buffer, flush>>
       ELSE run' = "flushing" /\ TakeBatch("run")
    /\ UNCHANGED <<gatewayVars, log, committed, loop, pos, discard, rows, histories,
                   recalls, deleted, crashes>>

\* The flush of f ends: Run closes done.
EndFlush(f) ==
    /\ flush' = [flush EXCEPT ![f] = NoFlush]
    /\ run' = IF f = "run" THEN "done" ELSE run

\* After one message of the batch, with ok the offsets saved so far.
AfterSave(f, ok) ==
    LET rest == Tail(flush[f].batch) IN
    IF rest = <<>> /\ ok = {} THEN EndFlush(f)
    ELSE /\ flush' = [flush EXCEPT ![f] =
                         [at |-> IF rest = <<>> THEN "commit" ELSE "save",
                          batch |-> rest, ok |-> ok]]
         /\ UNCHANGED run

SaveNext(f) ==
    LET o == Head(flush[f].batch) IN
    /\ flush[f].at = "save"
    /\ \/ /\ Save(log[o + 1])
          /\ saved' = saved \cup {o}
          /\ AfterSave(f, flush[f].ok \cup {o})
          /\ UNCHANGED failed
       \/ /\ SaveMayFail
          /\ failed' = failed \cup {o}
          /\ AfterSave(f, flush[f].ok)
          /\ UNCHANGED <<rows, saved>>
    /\ UNCHANGED <<gatewayVars, log, committed, loop, pos, buffer, discard, dropped,
                   recalls, deleted, crashes>>

\* Mutant: the offset the reader has come to is committed.
CommitFetched(f) ==
    /\ flush[f].at = "commit"
    /\ CommitUpTo(pos - 1)
    /\ EndFlush(f)
    /\ UNCHANGED <<gatewayVars, log, loop, pos, buffer, discard, rows, histories,
                   recalls, deleted, crashes>>

\* The messages that were saved are committed: the highest offset counts.
Commit(f) ==
    /\ flush[f].at = "commit"
    /\ CommitUpTo(Max(flush[f].ok))
    /\ EndFlush(f)
    /\ UNCHANGED <<gatewayVars, log, loop, pos, buffer, discard, rows, histories,
                   recalls, deleted, crashes>>

-----------------------------------------------------------------------------
(* Shutdown and crash of the Logic service                                 *)

Cancel ==
    /\ run = "on"
    /\ run' = "cancelled"
    /\ UNCHANGED <<gatewayVars, log, committed, loop, pos, buffer, flush, discard,
                   rows, histories, recalls, deleted, crashes>>

LoopReturns ==
    /\ run # "on"
    /\ loop = "on"
    /\ flush["loop"].at = "idle"
    /\ loop' = "returned"
    /\ UNCHANGED <<gatewayVars, log, committed, run, pos, buffer, flush, discard, rows,
                   histories, recalls, deleted, crashes>>

\* The process dies, or has stopped, and a new one reads on from the committed
\* offset.
Restart ==
    /\ crashes < MaxCrashes
    /\ crashes' = crashes + 1
    /\ run' = "on"
    /\ loop' = "on"
    /\ pos' = committed
    /\ buffer' = <<>>
    /\ flush' = [f \in {"run", "loop"} |-> NoFlush]
    /\ discard' = {}
    /\ UNCHANGED <<gatewayVars, log, committed, rows, histories, recalls, deleted>>

-----------------------------------------------------------------------------
ConsumerStep ==
    \/ LoopFlush
    \/ RunEnds
    \/ \E f \in {"run", "loop"} : SaveNext(f) \/ Commit(f)
    \/ LoopReturns

Next ==
    \/ \E m \in Msg : PersistAsync(m) \/ Recall(m) \/ Edit(m) \/ Delete(m)
    \/ \E w \in Worker : TakeTask(w) \/ Publish(w) \/ SaveDirect(w) \/ WorkerReturns(w)
    \/ Stop
    \/ PublishJunk
    \/ FetchJunk
    \/ Fetch
    \/ \E o \in discard : CommitDiscarded(o)
    \/ ConsumerStep
    \/ Cancel
    \/ Restart

\* Saves and commits end within their timeouts, and goroutines run.
Spec == Init /\ [][Next]_vars /\ WF_vars(ConsumerStep)

-----------------------------------------------------------------------------
(* Properties                                                              *)

Offset == 0..(Len(log) - 1)
Row == [content : {"text", "edit", "mark"}, recalled : BOOLEAN] \cup {NoRow}
Flush == [at : {"idle", "save", "commit"}, batch : Seq(Offset), ok : SUBSET Offset]

TypeOK ==
    /\ given \subseteq Msg
    /\ queue \in Seq(Msg) /\ Len(queue) <= QueueSize
    /\ worker \in [Worker -> [at : {"idle", "publish", "save", "returned"},
                              msg : Msg \cup {"none"}]]
    /\ gateway \in {"up", "stopping"}
    /\ log \in Seq(Msg \cup {"junk"})
    /\ committed \in 0..Len(log)
    /\ run \in {"on", "cancelled", "flushing", "done"}
    /\ loop \in {"on", "returned"}
    /\ pos \in 0..Len(log)
    /\ buffer \in Seq(Offset) /\ Len(buffer) <= MaxBuffer
    /\ flush \in [{"run", "loop"} -> Flush]
    /\ rows \in [Msg -> Row]
    /\ discard \cup saved \cup failed \cup dropped \subseteq Offset
    /\ recalls \cup deleted \subseteq given

\* What the consumer has not tried to save yet, in its buffer or still unread, lies
\* at or above the committed offset, so that a crash redelivers it (consumer.go:
\* 22-24); only the commit of a malformed record skips over buffered messages.
UntriedIsRedelivered ==
    \A o \in Offset :
        o >= pos \/ (\E i \in DOMAIN buffer : buffer[i] = o)
            => \/ o >= committed
               \/ \E j \in o..(committed - 1) : log[j + 1] = "junk"

\* A message whose recall succeeded stays recalled: neither the second copy that
\* comes over Kafka, nor a redelivery, nor an edit brings its text back.  Only
\* after an administrator deleted the row may a late copy insert it again.
RecallSticks == \A m \in recalls \ deleted : rows[m].recalled

\* A shutdown of the Logic service completes: Consumer.Wait returns, and then
\* nothing is left in the buffer or in a flush (cmd/logic/main.go: all buffered
\* messages are flushed before the reader closes).
ShutdownCompletes ==
    run = "cancelled" ~>
        \/ /\ run = "done" /\ loop = "returned"
           /\ buffer = <<>> /\ \A f \in {"run", "loop"} : flush[f] = NoFlush
        \/ run = "on"

\* consumer.go:22-24 and 211: an offset is committed only after its message was
\* saved, so no crash loses one.
CommittedIsSaved ==
    \A o \in Offset :
        o < committed /\ log[o + 1] # "junk" => o \in saved \cup dropped
=============================================================================
