---------------------------- MODULE MemTransfer -----------------------------
(***************************************************************************)
(* Precopy memory transfer over several connections                        *)
(* (vmm/src/migration/transport.rs: SendAdditionalConnections,             *)
(* ReceiveAdditionalConnections, send_memory_ranges,                       *)
(* receive_memory_ranges; vmm/src/sync_utils.rs: Gate; its caller          *)
(* do_memory_migration in vmm/src/lib.rs).                                 *)
(*                                                                         *)
(* The migration worker reads the dirty log, cuts the table into chunks    *)
(* and puts them in a bounded channel that all send workers share.  Each   *)
(* worker has a connection of its own and waits for the acknowledgement of *)
(* a chunk before it takes the next.  A gate ends an iteration: every      *)
(* worker must arrive at it before the next chunk may be sent, because two *)
(* connections have no order between them.  On the other side an accept    *)
(* thread starts a receive worker per connection.                          *)
(*                                                                         *)
(* A page's content is a version number, a chunk is one page.  The main    *)
(* connection's protocol is in module Migration; here it only carries the  *)
(* last pages and the State command.  Left out: TLS, protocol version 52.  *)
(***************************************************************************)
EXTENDS Naturals, Sequences, FiniteSets, FiniteSetsExt, Functions

CONSTANTS NPages,      \* pages of guest memory
          Connections, \* the connections of a migration that uses several
          Slots,       \* BUFFERED_REQUESTS_PER_THREAD
          MaxRounds,   \* bound on iterations before the downtime phase
          MaxWrites,   \* bound on the guest's writes to its memory
          MaxFaults    \* bound on connections that fail

ASSUME TransferAssumption ==
    /\ Connections \in Nat /\ Connections > 1
    /\ {NPages, MaxWrites, MaxFaults} \subseteq Nat
    /\ {Slots, MaxRounds} \subseteq Nat \ {0}

Pages == 1..NPages
Workers == 1..Connections
Ended == {"ok", "err"}
None == 0

VARIABLES
    mem,     \* the source's memory
    dst,     \* the destination's memory
    dirty,   \* the dirty log
    own,     \* the migration worker, in SendAdditionalConnections or its caller
    threads, \* the send workers that are spawned and not joined
    chan,    \* message_tx and message_rx
    tx,      \* message_tx exists
    opened,  \* the gates that are open, by iteration
    notes,   \* notify_rx
    worker_error,
    snd,     \* snd[w]: the send worker of connection w
    cancel,  \* cancel_migration
    wire,    \* wire[w]: what is written to connection w and not read
    ack,     \* ack[w]: an OK response is on connection w
    rcv,     \* rcv[w]: the receive worker of connection w
    acc,     \* the accept thread
    main,    \* the receiver's main thread
    kill,    \* kill_evt
    faults   \* connections that failed, up to now

guest    == <<mem, dirty>>
sender   == <<own, threads, tx, opened, cancel>>
channels == <<chan, notes, worker_error>>
network  == <<wire, ack>>
receiver == <<rcv, acc, main, kill>>
vars == <<guest, dst, sender, channels, snd, network, receiver, faults>>

Memory(p)  == [kind |-> "memory", page |-> p, gate |-> None]
GateMsg(g) == [kind |-> "gate", page |-> None, gate |-> g]
Disconnect == [kind |-> "disconnect", page |-> None, gate |-> None]
NoWorker   == [pc |-> "none", page |-> None, gate |-> None]
NoData     == [at |-> "none", page |-> None, version |-> 0]

\* SendAdditionalConnections::new creates threads only for several connections.
Init ==
    /\ mem = [p \in Pages |-> 1] /\ dst = [p \in Pages |-> 0] /\ dirty = {}
    /\ own \in [at : {"connect", "iterate"}, n : {0}, table : {{}}, round : {0},
                final : {FALSE}, then : {"iterate"}, res : {"ok"}]
    /\ threads = {} /\ chan = <<>> /\ tx = TRUE /\ opened = {} /\ notes = <<>>
    /\ worker_error = FALSE /\ cancel = FALSE
    /\ snd = [w \in Workers |-> NoWorker]
    /\ wire = [w \in Workers |-> NoData] /\ ack = [w \in Workers |-> FALSE]
    /\ rcv = [w \in Workers |-> "none"]
    /\ acc = "accepting" /\ main = "configured" /\ kill = FALSE /\ faults = 0
-----------------------------------------------------------------------------
(***************************************************************************)
(* The guest writes to its memory until it is paused.                      *)
(***************************************************************************)
GuestWrite(p) ==
    /\ ~own.final /\ FoldFunction(+, 0, mem) < NPages + MaxWrites
    /\ mem' = [mem EXCEPT ![p] = @ + 1]
    /\ dirty' = dirty \cup {p}
    /\ UNCHANGED <<dst, sender, channels, snd, network, receiver, faults>>

\* vm.migration-cancel sets the flag.
Cancel ==
    /\ ~cancel /\ own.at # "ended" /\ cancel' = TRUE
    /\ UNCHANGED <<guest, dst, own, threads, tx, opened, channels, snd, network,
                   receiver, faults>>
-----------------------------------------------------------------------------
(***************************************************************************)
(* The send workers.                                                       *)
(***************************************************************************)
Finished(w) == snd[w].pc \in Ended
AllFinished == \A w \in threads : Finished(w)
Full == Len(chan) >= Slots * Connections

\* worker_send_memory receives a message.  A chunk is dropped once a worker
\* failed; otherwise its Request and its table are written to the connection.
\* A Gate is reported to the migration worker before the wait.
Take(w) ==
    /\ snd[w].pc = "recv" /\ chan # <<>>
    /\ LET m == Head(chan)
       IN /\ chan' = Tail(chan)
          /\ snd' = [snd EXCEPT ![w] =
                [pc |-> CASE m.kind = "memory" -> IF worker_error THEN "recv" ELSE "send"
                          [] m.kind = "gate" -> "gate"
                          [] OTHER -> "ok",
                 page |-> m.page, gate |-> m.gate]]
          /\ wire' = [wire EXCEPT ![w] =
                IF m.kind = "memory" /\ ~worker_error
                THEN [at |-> "table", page |-> m.page, version |-> 0] ELSE @]
          /\ notes' = IF m.kind = "gate" THEN Append(notes, "gate") ELSE notes
    /\ UNCHANGED <<guest, dst, sender, worker_error, ack, receiver, faults>>

\* send_memory_ranges reads guest memory, unless the migration is cancelled.
SendData(w) ==
    /\ snd[w].pc = "send" /\ ~cancel
    /\ snd' = [snd EXCEPT ![w].pc = "ack"]
    /\ wire' = [wire EXCEPT ![w].at = "data", ![w].version = mem[snd[w].page]]
    /\ UNCHANGED <<guest, dst, sender, channels, ack, receiver, faults>>

\* expect_ok_response
Acknowledged(w) ==
    /\ snd[w].pc = "ack" /\ ack[w]
    /\ ack' = [ack EXCEPT ![w] = FALSE]
    /\ snd' = [snd EXCEPT ![w].pc = "recv"]
    /\ UNCHANGED <<guest, dst, sender, channels, wire, receiver, faults>>

\* The peer of w closed the connection; one that was never accepted is closed
\* with the last listener, which the receiver's main thread keeps.
PeerClosed(w) ==
    \/ rcv[w] \in Ended /\ ~ack[w]
    \/ rcv[w] = "backlog" /\ main \in {"received", "failed"}

\* send_memory_ranges fails: worker_error is stored before anyone is told.
Failing(w) ==
    /\ worker_error' = TRUE
    /\ snd' = [snd EXCEPT ![w].pc = "failing"]
    /\ UNCHANGED <<guest, dst, sender, chan, notes, network, receiver>>

SendFails(w) ==
    /\ \/ snd[w].pc = "send" /\ cancel
       \/ snd[w].pc \in {"send", "ack"} /\ PeerClosed(w)
    /\ Failing(w) /\ UNCHANGED faults

\* The connection breaks.
SendBreaks(w) ==
    /\ snd[w].pc \in {"send", "ack"} /\ faults < MaxFaults
    /\ faults' = faults + 1
    /\ Failing(w)

\* The thread reports the error and returns it, which closes its connection.
Fail(w) ==
    /\ snd[w].pc = "failing"
    /\ notes' = Append(notes, "error")
    /\ snd' = [snd EXCEPT ![w].pc = "err"]
    /\ UNCHANGED <<guest, dst, sender, chan, worker_error, network, receiver, faults>>

\* recv fails: the migration worker dropped message_tx.
RecvFails(w) ==
    /\ snd[w].pc = "recv" /\ chan = <<>> /\ ~tx
    /\ Failing(w) /\ UNCHANGED faults

\* Gate::wait returns.
PassesAnyway(w) == TRUE  \* mutant of MayPass
MayPass(w) == snd[w].gate \in opened

PassGate(w) ==
    /\ snd[w].pc = "gate" /\ MayPass(w)
    /\ snd' = [snd EXCEPT ![w].pc = "recv"]
    /\ UNCHANGED <<guest, dst, sender, channels, network, receiver, faults>>
-----------------------------------------------------------------------------
(***************************************************************************)
(* The migration worker: SendAdditionalConnections::new.                   *)
(***************************************************************************)
OwnerOnly == UNCHANGED <<guest, dst, notes, worker_error, snd, network, receiver, faults>>

Connect(w) ==
    /\ own.at = "connect" /\ w = Cardinality(threads) + 1
    /\ threads' = threads \cup {w}
    /\ snd' = [snd EXCEPT ![w].pc = "recv"]
    /\ rcv' = [rcv EXCEPT ![w] = "backlog"]
    /\ own' = [own EXCEPT !.at = IF threads' = Workers THEN "iterate" ELSE "connect"]
    /\ UNCHANGED <<guest, dst, tx, opened, cancel, channels, network, acc, main, kill, faults>>

\* A connection fails: new returns without cleanup, and drops message_tx.  The
\* threads spawned so far are not joined.
ConnectFails ==
    /\ own.at = "connect" /\ faults < MaxFaults
    /\ faults' = faults + 1
    /\ tx' = FALSE
    /\ own' = [own EXCEPT !.at = "ended", !.res = "err"]
    /\ UNCHANGED <<guest, dst, threads, opened, cancel, channels, snd, network, receiver>>

\* A thread cannot be spawned: new cleans up.
SpawnFails ==
    /\ own.at = "connect" /\ faults < MaxFaults
    /\ faults' = faults + 1
    /\ own' = [own EXCEPT !.at = "disconnect", !.n = 0, !.res = "err"]
    /\ UNCHANGED <<guest, dst, threads, tx, opened, cancel, channels, snd, network, receiver>>
-----------------------------------------------------------------------------
(***************************************************************************)
(* The migration worker: do_memory_iterations and do_memory_migration.     *)
(***************************************************************************)
\* send_memory returns Ok.
Returned(o) == [o EXCEPT !.at = IF o.final THEN "sent" ELSE "iterate", !.round = @ + 1]

\* send_memory starts; an empty table is not sent.
Send(o) == IF o.table = {} THEN Returned(o) ELSE [o EXCEPT !.at = "enqueue"]

\* The table of an iteration: all memory first, then the dirty log, which is
\* cleared by the read.
Table == IF own.round = 0 THEN Pages ELSE dirty
DirtyAfter == IF own.round = 0 THEN dirty ELSE {}

Iterate ==
    /\ own.at = "iterate" /\ own.round < MaxRounds
    /\ dirty' = DirtyAfter
    /\ own' = Send([own EXCEPT !.table = Table])
    /\ UNCHANGED <<mem, dst, threads, tx, opened, cancel, channels, snd, network,
                   receiver, faults>>

\* Precopy converged: the table that was read is left for the final iteration.
Converged ==
    /\ own.at = "iterate"
    /\ dirty' = DirtyAfter
    /\ own' = [own EXCEPT !.at = "pause", !.table = Table]
    /\ UNCHANGED <<mem, dst, threads, tx, opened, cancel, channels, snd, network,
                   receiver, faults>>

\* A lifecycle event was postponed during the iteration: nothing remains of it.
SwitchEarly ==
    /\ own.at = "iterate" /\ own.round > 0
    /\ own' = [own EXCEPT !.at = "pause", !.table = {}]
    /\ UNCHANGED <<threads, tx, opened, cancel, chan>> /\ OwnerOnly

\* is_converged or vm.pause returns an error.
GiveUp ==
    /\ own.at \in {"iterate", "pause"}
    /\ own' = [own EXCEPT !.at = "disconnect", !.n = 0, !.res = "err"]
    /\ UNCHANGED <<threads, tx, opened, cancel, chan>> /\ OwnerOnly

\* vm.pause, dirty_log, remaining.merge, and the final send_memory.
NothingRemained == dirty  \* mutant of FinalTable
FinalTable == own.table \cup dirty

Downtime ==
    /\ own.at = "pause"
    /\ dirty' = {}
    /\ own' = Send([own EXCEPT !.table = FinalTable, !.final = TRUE])
    /\ UNCHANGED <<mem, dst, threads, tx, opened, cancel, channels, snd, network,
                   receiver, faults>>
-----------------------------------------------------------------------------
(***************************************************************************)
(* The migration worker: send_memory.                                      *)
(***************************************************************************)
Chunk == Min(own.table)

\* One connection: the chunk is sent over the main connection.
SendDirectly ==
    /\ own.at = "enqueue" /\ threads = {} /\ own.table # {} /\ ~cancel
    /\ dst' = [dst EXCEPT ![Chunk] = mem[Chunk]]
    /\ own' = [own EXCEPT !.table = @ \ {Chunk}]
    /\ UNCHANGED <<guest, threads, tx, opened, cancel, channels, snd, network,
                   receiver, faults>>

SendDirectlyCancelled ==
    /\ own.at = "enqueue" /\ threads = {} /\ own.table # {} /\ cancel
    /\ own' = [own EXCEPT !.at = "disconnect", !.n = 0, !.res = "err"]
    /\ UNCHANGED <<threads, tx, opened, cancel, chan>> /\ OwnerOnly

\* enqueue_chunk: with an error, the result is that of cleanup_workers; after
\* an Ok of it the next chunk would be sent.
EnqueueChunk ==
    /\ own.at = "enqueue" /\ threads # {} /\ own.table # {}
    /\ own' = IF worker_error
              THEN [own EXCEPT !.at = "disconnect", !.n = 0, !.table = @ \ {Chunk},
                               !.then = "enqueue"]
              ELSE [own EXCEPT !.table = @ \ {Chunk}]
    /\ worker_error \/ ~Full
    /\ chan' = IF worker_error THEN chan ELSE Append(chan, Memory(Chunk))
    /\ UNCHANGED <<threads, tx, opened, cancel>> /\ OwnerOnly

\* All chunks are sent or in the channel.
Enqueued ==
    /\ own.at = "enqueue" /\ own.table = {}
    /\ own' = IF threads = {} THEN Returned(own) ELSE [own EXCEPT !.at = "gates", !.n = 0]
    /\ UNCHANGED <<threads, tx, opened, cancel, chan>> /\ OwnerOnly

\* wait_for_pending_data: a Gate for each worker; send fails when all of them
\* are gone, and blocks while the channel is full.
SendGate ==
    /\ own.at = "gates"
    /\ IF AllFinished
       THEN /\ own' = [own EXCEPT !.at = "disconnect", !.n = 0, !.res = "err"]
            /\ UNCHANGED chan
       ELSE /\ ~Full
            /\ chan' = Append(chan, GateMsg(own.round))
            /\ own' = IF own.n + 1 = Cardinality(threads)
                      THEN [own EXCEPT !.at = "wait", !.n = 0]
                      ELSE [own EXCEPT !.n = @ + 1]
    /\ UNCHANGED <<threads, tx, opened, cancel>> /\ OwnerOnly

\* wait_for_pending_data: a worker arrived at the gate.  The last one opens it.
GateSeen ==
    /\ own.at = "wait" /\ notes # <<>> /\ Head(notes) = "gate"
    /\ notes' = Tail(notes)
    /\ IF own.n + 1 = Cardinality(threads)
       THEN opened' = opened \cup {own.round} /\ own' = Returned(own)
       ELSE UNCHANGED opened /\ own' = [own EXCEPT !.n = @ + 1]
    /\ UNCHANGED <<guest, dst, threads, tx, cancel, chan, worker_error, snd, network,
                   receiver, faults>>

\* wait_for_pending_data: a worker failed.  The gate is opened before cleanup.
KeepsGateShut == opened  \* mutant of OnError
OnError == opened \cup {own.round}

ErrorSeen ==
    /\ own.at = "wait" /\ notes # <<>> /\ Head(notes) = "error"
    /\ notes' = Tail(notes)
    /\ opened' = OnError
    /\ own' = [own EXCEPT !.at = "disconnect", !.n = 0, !.then = Returned(own).at]
    /\ UNCHANGED <<guest, dst, threads, tx, cancel, chan, worker_error, snd, network,
                   receiver, faults>>
-----------------------------------------------------------------------------
(***************************************************************************)
(* The migration worker: cleanup_workers and the end of the transfer.      *)
(***************************************************************************)
\* All memory was sent: mem_send.cleanup_workers().
Sent ==
    /\ own.at = "sent"
    /\ own' = [own EXCEPT !.at = "disconnect", !.n = 0, !.then = "snapshot"]
    /\ UNCHANGED <<threads, tx, opened, cancel, chan>> /\ OwnerOnly

\* cleanup_workers_internal: a Disconnect for each worker; an error of send is
\* ignored.
SendDisconnect ==
    /\ own.at = "disconnect" /\ own.n < Cardinality(threads)
    /\ AllFinished \/ ~Full
    /\ chan' = IF AllFinished THEN chan ELSE Append(chan, Disconnect)
    /\ own' = [own EXCEPT !.n = @ + 1]
    /\ UNCHANGED <<threads, tx, opened, cancel>> /\ OwnerOnly

\* cleanup_workers_internal: the threads are joined; the first error is returned.
Join ==
    /\ own.at = "disconnect" /\ own.n >= Cardinality(threads) /\ AllFinished
    /\ LET res == IF \E w \in threads : snd[w].pc = "err" THEN "err" ELSE own.res
       IN own' = [own EXCEPT !.at = IF res = "ok" THEN own.then ELSE "ended",
                             !.n = 0, !.res = res]
    /\ threads' = {}
    /\ UNCHANGED <<tx, opened, cancel, chan>> /\ OwnerOnly

\* The last check of the flag, and an error of release_disk_locks or snapshot.
Abandon ==
    /\ own.at = "snapshot"
    /\ own' = [own EXCEPT !.at = "ended", !.res = "err"]
    /\ UNCHANGED <<threads, tx, opened, cancel, chan>> /\ OwnerOnly

\* vm.snapshot may write to guest memory (a vhost-user backend drains); the
\* pages it dirtied and the State command go over the main connection.  The
\* receiver stops its accept thread before it restores the VM.
SendState ==
    /\ own.at = "snapshot" /\ ~cancel
    /\ \E S \in SUBSET Pages :
          /\ mem' = [p \in Pages |-> IF p \in S THEN mem[p] + 1 ELSE mem[p]]
          /\ dst' = [p \in Pages |-> IF p \in dirty \cup S THEN mem'[p] ELSE dst[p]]
    /\ dirty' = {}
    /\ own' = [own EXCEPT !.at = "state"]
    /\ main' = "cleanup" /\ kill' = TRUE
    /\ UNCHANGED <<threads, tx, opened, cancel, channels, snd, network, rcv, acc, faults>>

\* The response to State.
StateAnswered ==
    /\ own.at = "state" /\ main \in {"received", "failed"}
    /\ own' = [own EXCEPT !.at = "ended", !.res = IF main = "received" THEN @ ELSE "err"]
    /\ UNCHANGED <<threads, tx, opened, cancel, chan>> /\ OwnerOnly
-----------------------------------------------------------------------------
(***************************************************************************)
(* The receiver.  Every wait looks at kill_evt first.                      *)
(***************************************************************************)
ReceiverOnly == UNCHANGED <<guest, sender, channels, snd>>

\* accept_connections_loop and spawn_memory_worker.
Accept(w) ==
    /\ acc = "accepting" /\ ~kill /\ rcv[w] = "backlog"
    /\ rcv' = [rcv EXCEPT ![w] = "header"]
    /\ ReceiverOnly /\ UNCHANGED <<dst, network, acc, main, kill, faults>>

\* accept or spawn fails; accept_connections signals termination to the workers.
AcceptFails ==
    /\ acc = "accepting" /\ faults < MaxFaults
    /\ faults' = faults + 1
    /\ acc' = "failing" /\ kill' = TRUE
    /\ ReceiverOnly /\ UNCHANGED <<dst, network, rcv, main>>

\* join_memory_threads; the connections in the backlog are not accepted.
AcceptEnds ==
    /\ acc \in {"accepting", "failing"} /\ kill
    /\ \A w \in Workers : rcv[w] \in {"none", "backlog"} \cup Ended
    /\ acc' = IF acc = "failing" \/ \E w \in Workers : rcv[w] = "err" THEN "err" ELSE "ok"
    /\ ReceiverOnly /\ UNCHANGED <<dst, network, rcv, main, kill, faults>>

\* handle_accepted_connection: the role was written when w connected.
ReadRole(w) ==
    /\ rcv[w] = "header"
    /\ rcv' = [rcv EXCEPT ![w] = IF kill THEN "ok" ELSE "idle"]
    /\ ReceiverOnly /\ UNCHANGED <<dst, network, acc, main, kill, faults>>

\* worker_receive_memory waits for a request: the kill event, the sender's end
\* of the connection, or a Memory request.
ReadRequest(w) ==
    /\ rcv[w] = "idle"
    /\ \/ kill /\ rcv' = [rcv EXCEPT ![w] = "ok"]
       \/ ~kill /\ wire[w].at = "none" /\ Finished(w) /\ rcv' = [rcv EXCEPT ![w] = "ok"]
       \/ ~kill /\ wire[w].at # "none" /\ rcv' = [rcv EXCEPT ![w] = "data"]
    /\ ReceiverOnly /\ UNCHANGED <<dst, network, acc, main, kill, faults>>

\* receive_memory_ranges, and the OK response.
ReceiveData(w) ==
    /\ rcv[w] = "data" /\ wire[w].at = "data"
    /\ dst' = [dst EXCEPT ![wire[w].page] = wire[w].version]
    /\ wire' = [wire EXCEPT ![w] = NoData]
    /\ ack' = [ack EXCEPT ![w] = TRUE]
    /\ rcv' = [rcv EXCEPT ![w] = "idle"]
    /\ ReceiverOnly /\ UNCHANGED <<acc, main, kill, faults>>

\* receive_memory_ranges: the connection is closed within a request, or breaks.
ReceiveFails(w) ==
    /\ rcv[w] = "data" /\ wire[w].at = "table" /\ Finished(w)
    /\ rcv' = [rcv EXCEPT ![w] = "err"]
    /\ ReceiverOnly /\ UNCHANGED <<dst, network, acc, main, kill, faults>>

ReceiveBreaks(w) ==
    /\ rcv[w] = "data" /\ faults < MaxFaults
    /\ faults' = faults + 1
    /\ rcv' = [rcv EXCEPT ![w] = "err"]
    /\ ReceiverOnly /\ UNCHANGED <<dst, network, acc, main, kill>>

\* The main connection is closed: the protocol ends with an error, and Drop
\* signals kill_evt.
MainClosed ==
    /\ main = "configured" /\ own.at = "ended"
    /\ main' = "failed" /\ kill' = TRUE
    /\ ReceiverOnly /\ UNCHANGED <<dst, network, rcv, acc, faults>>

\* vm_receive_state_command: connections.cleanup() joined the accept thread.
CleanedUp ==
    /\ main = "cleanup" /\ acc \in Ended
    /\ main' = IF acc = "ok" THEN "received" ELSE "failed"
    /\ ReceiverOnly /\ UNCHANGED <<dst, network, rcv, acc, kill, faults>>
-----------------------------------------------------------------------------
\* The steps the two programs take on their own.
Step ==
    \/ \E w \in Workers :
          \/ Take(w) \/ SendData(w) \/ Acknowledged(w) \/ SendFails(w) \/ Fail(w)
          \/ RecvFails(w) \/ PassGate(w) \/ Connect(w) \/ Accept(w) \/ ReadRole(w)
          \/ ReadRequest(w) \/ ReceiveData(w) \/ ReceiveFails(w)
    \/ Iterate \/ Converged \/ SwitchEarly \/ Downtime \/ SendDirectly
    \/ SendDirectlyCancelled \/ EnqueueChunk \/ Enqueued \/ SendGate \/ GateSeen
    \/ ErrorSeen \/ Sent \/ SendDisconnect \/ Join \/ Abandon \/ SendState
    \/ StateAnswered \/ AcceptEnds \/ MainClosed \/ CleanedUp

Fault ==
    \/ ConnectFails \/ SpawnFails \/ GiveUp \/ AcceptFails
    \/ \E w \in Workers : SendBreaks(w) \/ ReceiveBreaks(w)

Next == Step \/ Fault \/ Cancel \/ \E p \in Pages : GuestWrite(p)

Spec == Init /\ [][Next]_vars

\* The guest may write or not; the threads of the two programs run.
FairSpec == Spec /\ WF_vars(Step)
-----------------------------------------------------------------------------
(***************************************************************************)
(* Properties.                                                             *)
(***************************************************************************)
TypeOK ==
    /\ mem \in [Pages -> 1..(MaxWrites + 2)] /\ dst \in [Pages -> 0..(MaxWrites + 2)]
    /\ dirty \subseteq Pages /\ threads \subseteq Workers
    /\ own \in [at : {"connect", "iterate", "pause", "enqueue", "gates", "wait", "sent",
                      "disconnect", "snapshot", "state", "ended"},
                n : 0..Connections, table : SUBSET Pages,
                round : 0..(MaxRounds + 1), final : BOOLEAN,
                then : {"iterate", "sent", "enqueue", "snapshot"}, res : Ended]
    /\ Len(chan) <= Slots * Connections
    /\ tx \in BOOLEAN /\ worker_error \in BOOLEAN /\ cancel \in BOOLEAN /\ kill \in BOOLEAN
    /\ opened \subseteq 0..(MaxRounds + 1) /\ \A i \in 1..Len(notes) : notes[i] \in {"gate", "error"}
    /\ \A w \in Workers : snd[w].pc \in
          {"none", "recv", "send", "ack", "gate", "failing"} \cup Ended
    /\ rcv \in [Workers -> {"none", "backlog", "header", "idle", "data"} \cup Ended]
    /\ ack \in [Workers -> BOOLEAN]
    /\ acc \in {"accepting", "failing"} \cup Ended
    /\ main \in {"configured", "cleanup", "received", "failed"} /\ faults \in 0..MaxFaults

\* Between two calls of send_memory the destination has every page that the
\* dirty log does not name: all chunks were applied, and none is still on a
\* connection where it could overwrite the page's next version.
IterationIsComplete ==
    own.at = "iterate" /\ own.round > 0 =>
        \A p \in Pages \ dirty : dst[p] = mem[p]

\* When the receiver accepts the State command, its memory is the source's.
DestinationIsEqual == main = "received" => dst = mem

\* A connection that the accept thread will not take any more, while the
\* receiver's main thread keeps the listener and so the connection open.
Stranded == acc \in {"failing", "err"} /\ \E w \in Workers : rcv[w] = "backlog"

\* The migration ends at both sides and so does every thread it started, with
\* one exception: a worker whose connection was never accepted because the
\* accept thread failed waits for an acknowledgement that never comes.
TransferEnds ==
    <>( \/ Stranded
        \/ /\ own.at = "ended" /\ main \in {"received", "failed"} /\ acc \in Ended
           /\ \A w \in Workers : /\ snd[w].pc \in {"none"} \cup Ended
                                 /\ rcv[w] \in {"none", "backlog"} \cup Ended )
=============================================================================
