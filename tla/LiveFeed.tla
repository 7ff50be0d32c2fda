------------------------------ MODULE LiveFeed ------------------------------
(***************************************************************************)
(* The live WebSocket feed of one network and topic "blocks": the watcher  *)
(* tasks that emit a block when it is best and again when it is final, the *)
(* EncoderHub that shares one encoder task among the sessions, and the     *)
(* sessions with their receiver, forwarders, heartbeat and sink.           *)
(*                                                                         *)
(* A frame is the position of its block in the emission log, or Control    *)
(* for a ping or an error.  A broadcast ring is a log and a reader's       *)
(* position in it: a reader more than the ring's capacity behind has       *)
(* lagged.  A step is what runs between two awaits.                        *)
(***************************************************************************)
EXTENDS Naturals, Sequences, FiniteSets

CONSTANTS
    Sessions,           \* browser connections
    Entries,            \* identities of EncoderEntry, reused once dropped
    Forwarders,         \* identities of forwarder tasks, reused once dropped
    MaxBlock,           \* bound: the highest block produced
    Ring,               \* BROADCAST_CAPACITY and ENCODED_CAP
    SinkCapacity,       \* SINK_CAPACITY
    HeartbeatDropLimit, \* HEARTBEAT_DROP_LIMIT
    MaxSubscribes,      \* MAX_SUBSCRIBES_PER_SESSION
    MaxFaults,          \* bound: failed node calls and misbehaviours of clients
    None

ASSUME LiveFeedNumbers ==
    /\ {MaxBlock, SinkCapacity, HeartbeatDropLimit, MaxSubscribes, MaxFaults}
         \subseteq Nat
    /\ Ring \in Nat \ {0}
    /\ None \notin Sessions /\ None \notin Entries

\* A subscription starts at most one forwarder and one encoder.  Each may still
\* be waiting to be dropped when the next one starts.
ASSUME PoolsSuffice ==
    /\ IsFiniteSet(Sessions)
    /\ Cardinality(Entries) >= MaxSubscribes * Cardinality(Sessions)
    /\ Cardinality(Forwarders) >= MaxSubscribes * Cardinality(Sessions)

Blocks == 1 .. MaxBlock
Control == 0
MaxLog == 2 * MaxBlock

VARIABLES
    chain,      \* the node's best and finalized block, as far as delivered
    head,       \* the finalized_head watch
    emitting,   \* the block each watcher task is mapping
    log,        \* blocks sent to RpcClient's broadcast, oldest first
    hub,        \* EncoderHub::inner: its lock and its weak entry
    encoder,    \* encoder tasks, by entry
    forwarder,  \* forwarder tasks
    session,    \* WebSocket sessions
    faults

vars == <<chain, head, emitting, log, hub, encoder, forwarder, session, faults>>
watchers == <<chain, head, emitting, log>>

NoEncoder == [state |-> "free", pos |-> 0, out |-> <<>>]
NoForwarder == [state |-> "free", entry |-> None, owner |-> None, pos |-> 0,
                frame |-> None]
NewSession == [pc |-> "open", handle |-> None, subscribes |-> 0, sink |-> "run",
               queue |-> <<>>, drops |-> 0, client |-> "reads", seen |-> 0]
Frames == 0 .. MaxLog

TypeOK ==
    /\ chain \in [best: 0 .. MaxBlock, final: 0 .. MaxBlock]
    /\ head \in 0 .. MaxBlock
    /\ emitting \in [{"best", "final"} ->
                        {None} \cup [number: Blocks, finalized: BOOLEAN]]
    /\ log \in Seq([number: Blocks, finalized: BOOLEAN]) /\ Len(log) <= MaxLog
    /\ hub \in [lock: Sessions \cup {None}, entry: Entries \cup {None}]
    /\ encoder \in [Entries -> [state: {"free", "run", "abort"},
                                pos: Frames, out: Seq(1 .. MaxLog)]]
    /\ forwarder \in [Forwarders ->
            [state: {"free", "run", "abort"}, entry: Entries \cup {None},
             owner: Sessions \cup {None}, pos: Frames,
             frame: Frames \cup {None}]]
    /\ session \in [Sessions ->
            [pc: {"open", "subscribe", "connect", "error", "last_error",
                  "closing", "closed"},
             handle: Forwarders \cup {None}, subscribes: 0 .. MaxSubscribes + 1,
             sink: {"run", "gone"}, queue: Seq(Frames),
             drops: 0 .. HeartbeatDropLimit,
             client: {"reads", "stalls", "gone"}, seen: Frames]]
    /\ \A s \in Sessions : Len(session[s].queue) <= SinkCapacity
    /\ faults \in 0 .. MaxFaults

Init ==
    /\ chain = [best |-> 0, final |-> 0] /\ head = 0
    /\ emitting = [t \in {"best", "final"} |-> None]
    /\ log = <<>> /\ hub = [lock |-> None, entry |-> None]
    /\ encoder = [e \in Entries |-> NoEncoder]
    /\ forwarder = [f \in Forwarders |-> NoForwarder]
    /\ session = [s \in Sessions |-> NewSession]
    /\ faults = 0

MayFail == faults < MaxFaults /\ faults' = faults + 1

------------------------------------------------------------------------------
(***************************************************************************)
(* The watcher tasks: run_best_stream and run_finalized_head_watch.        *)
(***************************************************************************)

\* broadcast::Sender::receiver_count of RpcClient's blocks channel.
ReceiverCount == Cardinality({e \in Entries : encoder[e].state # "free"})

\* A block is mapped only for somebody; the best stream takes the finalized
\* flag from the head it knows before it maps.
Take(t, n, flag) ==
    emitting' = [emitting EXCEPT ![t] =
        IF ReceiverCount > 0 THEN [number |-> n, finalized |-> flag] ELSE None]

BestArrives ==
    /\ chain.best < MaxBlock /\ emitting["best"] = None
    /\ chain' = [chain EXCEPT !.best = @ + 1]
    /\ Take("best", chain.best + 1, chain.best + 1 <= head)
    /\ UNCHANGED <<head, log, hub, encoder, forwarder, session, faults>>

FinalArrives ==
    /\ chain.final < chain.best /\ emitting["final"] = None
    /\ chain' = [chain EXCEPT !.final = @ + 1]
    /\ head' = chain.final + 1
    /\ Take("final", chain.final + 1, TRUE)
    /\ UNCHANGED <<log, hub, encoder, forwarder, session, faults>>

Emit(t) ==
    /\ emitting[t] # None
    /\ log' = Append(log, emitting[t])
    /\ emitting' = [emitting EXCEPT ![t] = None]
    /\ UNCHANGED <<chain, head, hub, encoder, forwarder, session, faults>>

\* at_block or map_block fails: the block is skipped.
EmitSkipped(t) ==
    /\ emitting[t] # None /\ MayFail
    /\ emitting' = [emitting EXCEPT ![t] = None]
    /\ UNCHANGED <<chain, head, log, hub, encoder, forwarder, session>>

------------------------------------------------------------------------------
(***************************************************************************)
(* The hub and its encoder tasks.                                          *)
(***************************************************************************)

\* Forwarders that hold a lease on entry e.
Leases(e) == {f \in Forwarders : forwarder[f].entry = e}

\* broadcast::Receiver::recv: the position after the item a reader at pos
\* gets next, items overwritten in the ring being lost.
Received(pos, length) == IF pos + Ring < length THEN length - Ring + 1 ELSE pos + 1

\* run_encoder: one item, encoded once.
Encode(e) ==
    /\ encoder[e].state = "run" /\ encoder[e].pos < Len(log)
    /\ LET next == Received(encoder[e].pos, Len(log)) IN
       encoder' = [encoder EXCEPT ![e].pos = next, ![e].out = Append(@, next)]
    /\ UNCHANGED <<watchers, hub, forwarder, session, faults>>

\* The runtime drops an aborted task, and its provider stream with it.
EncoderEnds(e) ==
    /\ encoder[e].state = "abort"
    /\ encoder' = [encoder EXCEPT ![e] = NoEncoder]
    /\ UNCHANGED <<watchers, hub, forwarder, session, faults>>

\* EncoderEntry::drop, when forwarder f gives up the last lease of its entry.
AbortOnAnyDrop(f) == [encoder EXCEPT ![forwarder[f].entry].state = "abort"]
DetachOnDrop(f) == encoder
DropLease(f) ==
    IF Leases(forwarder[f].entry) = {f}
    THEN [encoder EXCEPT ![forwarder[f].entry].state = "abort"] ELSE encoder

------------------------------------------------------------------------------
(***************************************************************************)
(* A session's receiver.                                                   *)
(***************************************************************************)

At(s, pc) == session[s].pc = pc
Goto(s, pc) == session' = [session EXCEPT ![s].pc = pc]
Free(f) == forwarder[f].state = "free"

\* spawn_forwarder, given the entry and the receiver of its ring.
Forward(s, e, pos) ==
    LET f == CHOOSE f \in Forwarders : Free(f) IN
    /\ forwarder' = [forwarder EXCEPT ![f] =
            [NoForwarder EXCEPT !.state = "run", !.entry = e, !.owner = s, !.pos = pos]]
    /\ session' = [session EXCEPT ![s].pc = "open", ![s].handle = f]

\* A Subscribe frame: over the churn limit it ends the session, a repeated
\* one is ignored.
Subscribe(s) ==
    /\ At(s, "open") /\ session[s].client # "gone"
    /\ session[s].subscribes <= MaxSubscribes
    /\ session' = [session EXCEPT ![s].subscribes = @ + 1,
            ![s].pc = IF session[s].subscribes = MaxSubscribes THEN "last_error"
                      ELSE IF session[s].handle # None THEN "open" ELSE "subscribe"]
    /\ UNCHANGED <<watchers, hub, encoder, forwarder, faults>>

\* EncoderHub::subscribe with a live entry: one step under the lock.
Reuse(s) ==
    /\ At(s, "subscribe") /\ hub.lock = None
    /\ hub.entry # None /\ Leases(hub.entry) # {}
    /\ Forward(s, hub.entry, Len(encoder[hub.entry].out))
    /\ UNCHANGED <<watchers, hub, encoder, faults>>

\* Otherwise the lock is held while the provider connects.
Connect(s) ==
    /\ At(s, "subscribe") /\ hub.lock = None
    /\ hub.entry = None \/ Leases(hub.entry) = {}
    /\ hub' = [hub EXCEPT !.lock = s]
    /\ Goto(s, "connect")
    /\ UNCHANGED <<watchers, encoder, forwarder, faults>>

Connected(s) ==
    /\ At(s, "connect")
    /\ LET e == CHOOSE e \in Entries : encoder[e].state = "free" IN
       /\ encoder' = [encoder EXCEPT ![e] =
                        [state |-> "run", pos |-> Len(log), out |-> <<>>]]
       /\ hub' = [lock |-> None, entry |-> e]
       /\ Forward(s, e, 0)
    /\ UNCHANGED <<watchers, faults>>

ConnectFails(s) ==
    /\ At(s, "connect") /\ MayFail
    /\ hub' = [hub EXCEPT !.lock = None]
    /\ Goto(s, "error")
    /\ UNCHANGED <<watchers, encoder, forwarder>>

Abort(fs) == forwarder' = [f \in Forwarders |->
    IF f \in fs /\ ~Free(f) THEN [forwarder[f] EXCEPT !.state = "abort"]
    ELSE forwarder[f]]

Unsubscribe(s) ==
    /\ At(s, "open") /\ session[s].client # "gone" /\ session[s].handle # None
    /\ Abort({session[s].handle})
    /\ session' = [session EXCEPT ![s].handle = None]
    /\ UNCHANGED <<watchers, hub, encoder, faults>>

\* A malformed or binary frame is answered by an error, one over the rate
\* limit is answered and ends the session.
BadFrame(s) ==
    /\ At(s, "open") /\ session[s].client # "gone"
    /\ \E pc \in {"error", "last_error"} : Goto(s, pc)
    /\ MayFail /\ UNCHANGED <<watchers, hub, encoder, forwarder>>

\* sink_tx.send of an error frame: it waits for room, and fails once the
\* sink is gone.
Push(s) == IF session[s].sink = "gone" THEN session[s].queue
           ELSE Append(session[s].queue, Control)
AlwaysRoom(s) == TRUE
HasRoom(s) == session[s].sink = "gone" \/ Len(session[s].queue) < SinkCapacity

SendError(s) ==
    /\ At(s, "error") \/ At(s, "last_error")
    /\ HasRoom(s)
    /\ session' = [session EXCEPT ![s].queue = Push(s),
            ![s].pc = IF At(s, "error") THEN "open" ELSE "closing"]
    /\ UNCHANGED <<watchers, hub, encoder, forwarder, faults>>

\* The stream of client frames ends.
ReceiverEnds(s) ==
    /\ At(s, "open") /\ session[s].client = "gone"
    /\ Goto(s, "closing")
    /\ UNCHANGED <<watchers, hub, encoder, forwarder, faults>>

\* run_session after run_receiver: forwarders and heartbeat are aborted and
\* the sender dropped; the sink is awaited.
NoForwarderAborted(s) == {}
ToAbort(s) == {session[s].handle} \ {None}

TearDown(s) ==
    /\ At(s, "closing")
    /\ Abort(ToAbort(s))
    /\ session' = [session EXCEPT ![s].pc = "closed", ![s].handle = None]
    /\ UNCHANGED <<watchers, hub, encoder, faults>>

------------------------------------------------------------------------------
(***************************************************************************)
(* The other tasks of a session, and its client.                           *)
(***************************************************************************)

\* forward_encoded: receive a frame, then wait for room in the sink.
Receive(f) ==
    LET fw == forwarder[f] IN
    /\ fw.state = "run" /\ fw.frame = None /\ fw.pos < Len(encoder[fw.entry].out)
    /\ LET next == Received(fw.pos, Len(encoder[fw.entry].out)) IN
       forwarder' = [forwarder EXCEPT ![f].pos = next,
                        ![f].frame = encoder[fw.entry].out[next]]
    /\ UNCHANGED <<watchers, hub, encoder, session, faults>>

TrySend(f) ==
    LET s == forwarder[f].owner IN
    /\ forwarder[f].state = "run" /\ forwarder[f].frame # None
    /\ session[s].sink = "run"
    /\ session' = IF Len(session[s].queue) < SinkCapacity
                  THEN [session EXCEPT ![s].queue = Append(@, forwarder[f].frame)]
                  ELSE session
    /\ forwarder' = [forwarder EXCEPT ![f].frame = None]
    /\ UNCHANGED <<watchers, hub, encoder, faults>>

Send(f) ==
    LET s == forwarder[f].owner IN
    /\ forwarder[f].state = "run" /\ forwarder[f].frame # None
    /\ session[s].sink = "run" /\ Len(session[s].queue) < SinkCapacity
    /\ session' = [session EXCEPT ![s].queue = Append(@, forwarder[f].frame)]
    /\ forwarder' = [forwarder EXCEPT ![f].frame = None]
    /\ UNCHANGED <<watchers, hub, encoder, faults>>

\* The task ends, aborted or with its sink gone, and drops its lease.
ForwarderEnds(f) ==
    /\ \/ forwarder[f].state = "abort"
       \/ /\ forwarder[f].state = "run" /\ forwarder[f].frame # None
          /\ session[forwarder[f].owner].sink = "gone"
    /\ encoder' = DropLease(f)
    /\ forwarder' = [forwarder EXCEPT ![f] = NoForwarder]
    /\ UNCHANGED <<watchers, hub, session, faults>>

\* run_sink: one frame to a client that reads, or an error from one that left.
Sink(s) ==
    /\ session[s].sink = "run" /\ session[s].queue # <<>>
    /\ \/ /\ session[s].client = "reads"
          /\ session' = [session EXCEPT ![s].queue = Tail(@),
                ![s].seen = IF Head(session[s].queue) = Control THEN @
                            ELSE Head(session[s].queue)]
       \/ /\ session[s].client = "gone"
          /\ session' = [session EXCEPT ![s].sink = "gone", ![s].queue = <<>>]
    /\ UNCHANGED <<watchers, hub, encoder, forwarder, faults>>

\* Every sender is dropped and the queue drained.
Senders(s) == {f \in Forwarders : forwarder[f].owner = s}

SinkCloses(s) ==
    /\ At(s, "closed") /\ session[s].sink = "run" /\ session[s].queue = <<>>
    /\ Senders(s) = {}
    /\ session' = [session EXCEPT ![s].sink = "gone"]
    /\ UNCHANGED <<watchers, hub, encoder, forwarder, faults>>

\* The heartbeat task: try_send, and give up after too many full queues.
Heartbeat(s) ==
    /\ ~At(s, "closed") /\ session[s].sink = "run"
    /\ session[s].drops < HeartbeatDropLimit
    /\ session' = IF Len(session[s].queue) < SinkCapacity
                  THEN [session EXCEPT ![s].queue = Append(@, Control), ![s].drops = 0]
                  ELSE [session EXCEPT ![s].drops = @ + 1]
    /\ MayFail /\ UNCHANGED <<watchers, hub, encoder, forwarder>>

\* The browser stops draining its socket, or goes away.
ClientStalls(s) ==
    /\ session[s].client = "reads"
    /\ session' = [session EXCEPT ![s].client = "stalls"]
    /\ MayFail /\ UNCHANGED <<watchers, hub, encoder, forwarder>>

ClientLeaves(s) ==
    /\ session[s].client # "gone"
    /\ session' = [session EXCEPT ![s].client = "gone"]
    /\ MayFail /\ UNCHANGED <<watchers, hub, encoder, forwarder>>

------------------------------------------------------------------------------
Emits == Emit("best") \/ Emit("final")
EncoderRuns(e) == Encode(e) \/ EncoderEnds(e)
ForwarderRuns(f) == Receive(f) \/ Send(f) \/ ForwarderEnds(f)
SinkRuns(s) == Sink(s) \/ SinkCloses(s)
ReceiverRuns(s) == Reuse(s) \/ Connect(s) \/ Connected(s) \/ SendError(s)
                   \/ ReceiverEnds(s) \/ TearDown(s)
ClientActs(s) == Subscribe(s) \/ Unsubscribe(s) \/ BadFrame(s)
                 \/ ClientStalls(s) \/ ClientLeaves(s)

Next ==
    \/ BestArrives \/ FinalArrives \/ Emits
    \/ \E t \in {"best", "final"} : EmitSkipped(t)
    \/ \E e \in Entries : EncoderRuns(e)
    \/ \E f \in Forwarders : ForwarderRuns(f)
    \/ \E s \in Sessions : \/ SinkRuns(s) \/ ReceiverRuns(s) \/ ClientActs(s)
                           \/ Heartbeat(s) \/ ConnectFails(s)

Spec == Init /\ [][Next]_vars

\* The tasks of the program are scheduled.  tokio's mutex and mpsc semaphore
\* serve their waiters in order: a session that waits for the hub, or a task
\* that waits for room in the sink, is not overtaken for ever.  The chain, the
\* clients and the clock owe nothing.
FairSpec ==
    /\ Spec /\ WF_vars(Emits)
    /\ \A e \in Entries : WF_vars(EncoderRuns(e))
    /\ \A f \in Forwarders : WF_vars(ForwarderRuns(f)) /\ SF_vars(Send(f))
    /\ \A s \in Sessions : WF_vars(SinkRuns(s)) /\ WF_vars(ReceiverRuns(s))
                           /\ SF_vars(Reuse(s) \/ Connect(s) \/ SendError(s))

------------------------------------------------------------------------------
(***************************************************************************)
(* Properties.                                                             *)
(***************************************************************************)

\* Whoever holds a lease is fed by a running encoder, the same one for all
\* (encoder.rs:14, the Weak entry, upgrade and Drop): the last lease may be
\* dropped while another session is between looking the entry up and using it.
LeasesShareOneEncoder ==
    /\ \A f \in Forwarders :
            ~Free(f) => encoder[forwarder[f].entry].state = "run"
    /\ Cardinality({e \in Entries : Leases(e) # {}}) <= 1

\* With no session subscribed the provider subscription is dropped, so that
\* an idle explorer pays no enrichment calls (encoder.rs:14-17).
IdleCostsNothing ==
    (\A e \in Entries : Leases(e) = {})
        ~> (ReceiverCount = 0 \/ \E e \in Entries : Leases(e) # {})

Subscribed(s) == session[s].handle # None /\ session[s].client = "reads"
EntryOf(s) == forwarder[session[s].handle].entry

\* A block emitted to a subscribed session, or a newer one, reaches its
\* client, whatever the rings dropped (server.rs:370, Lagged).
SubscribersSeeTheNewest ==
    \A s \in Sessions, k \in 1 .. MaxLog :
        (Subscribed(s) /\ Len(log) >= k /\ encoder[EntryOf(s)].pos < k)
            ~> (session[s].seen >= k \/ ~Subscribed(s))

\* A session whose client went away leaves nothing behind: no forwarder, no
\* sink task (server.rs:200-211).
SessionsEnd ==
    \A s \in Sessions :
        (session[s].client = "gone")
            ~> (At(s, "closed") /\ session[s].sink = "gone" /\ Senders(s) = {})
=============================================================================
