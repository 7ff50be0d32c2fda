-------------------------- MODULE LiveFeedProofs --------------------------
(***************************************************************************)
(* The encoder hub, for any number of sessions, subscriptions and blocks   *)
(* and any ring: who holds a lease is fed by the one encoder that runs.    *)
(* The pools of identities never run dry: each forwarder and each encoder  *)
(* not yet dropped stands for a subscription of its own.                   *)
(***************************************************************************)
EXTENDS LiveFeed, FiniteSetTheorems, TLAPS

Emission == [number: Blocks, finalized: BOOLEAN]
Encoder == [state: {"free", "run", "abort"}, pos: Frames, out: Seq(1 .. MaxLog)]
Forwarder == [state: {"free", "run", "abort"}, entry: Entries \cup {None},
              owner: Sessions \cup {None}, pos: Frames,
              frame: Frames \cup {None}]
Session == [pc: {"open", "subscribe", "connect", "error", "last_error",
                 "closing", "closed"},
            handle: Forwarders \cup {None}, subscribes: 0 .. MaxSubscribes + 1,
            sink: {"run", "gone"}, queue: Seq(Frames),
            drops: 0 .. HeartbeatDropLimit,
            client: {"reads", "stalls", "gone"}, seen: Frames]

\* A watcher emits a block once, and it is then in the log, behind it or skipped.
Pending(t) == IF emitting[t] = None THEN 0 ELSE 1
LogIsBounded ==
    Len(log) + Pending("best") + Pending("final") <= chain.best + chain.final

\* An encoder has encoded no more than it has read, and read no more than there is.
EncodersRead ==
    \A e \in Entries :
        Len(encoder[e].out) <= encoder[e].pos /\ encoder[e].pos <= Len(log)

\* The session at the provider holds the lock of the hub.
LockIsHeld == \A s \in Sessions : At(s, "connect") <=> hub.lock = s

\* A forwarder leases the entry of the hub, whose encoder runs; none does while
\* a session connects.
Leased(f) ==
    /\ hub.lock = None
    /\ forwarder[f].entry = hub.entry /\ hub.entry # None
    /\ encoder[hub.entry].state = "run"
    /\ forwarder[f].owner \in Sessions
LeasesFollowHub ==
    \A f \in Forwarders : IF Free(f) THEN forwarder[f] = NoForwarder ELSE Leased(f)

\* The subscriptions of a session that have led to a forwarder or to nothing.
Waiting(s) == session[s].pc \in {"subscribe", "connect"}
Served(s) == IF Waiting(s) THEN session[s].subscribes - 1 ELSE session[s].subscribes
WaitingIsCounted ==
    \A s \in Sessions : Waiting(s) => session[s].subscribes \in 1 .. MaxSubscribes

ServedCounts == [s \in Sessions |-> Served(s)]

\* Each element of X stands for a served subscription of its own.
Tags == Sessions \X (1 .. MaxSubscribes)
Tagged(X, served) ==
    \E tag \in [X -> Tags] :
        /\ \A x \in X : tag[x][2] <= served[tag[x][1]]
        /\ \A x, y \in X : tag[x] = tag[y] => x = y

BusyEntries == {e \in Entries : encoder[e].state # "free"}
BusyForwarders == {f \in Forwarders : ~Free(f)}

LiveInv ==
    /\ TypeOK
    /\ LogIsBounded
    /\ EncodersRead
    /\ LockIsHeld
    /\ LeasesFollowHub
    /\ WaitingIsCounted
    /\ Tagged(BusyEntries, ServedCounts)
    /\ Tagged(BusyForwarders, ServedCounts)

------------------------------------------------------------------------------
(***************************************************************************)
(* Tags.                                                                   *)
(***************************************************************************)

\* The constants as numbers.
LEMMA Numbers ==
    /\ MaxBlock \in Nat /\ SinkCapacity \in Nat /\ HeartbeatDropLimit \in Nat
    /\ MaxSubscribes \in Nat /\ MaxFaults \in Nat /\ MaxLog \in Nat
    /\ Ring \in Nat /\ Ring >= 1
BY LiveFeedNumbers DEF MaxLog

\* Fewer tasks, or more subscriptions served: the tags still do.
LEMMA TagsStay ==
    ASSUME NEW X, NEW Y \in SUBSET X,
           NEW served \in [Sessions -> Int], NEW more \in [Sessions -> Int],
           \A s \in Sessions : served[s] <= more[s],
           Tagged(X, served)
    PROVE  Tagged(Y, more)
<1>1. PICK tag \in [X -> Tags] :
        /\ \A x \in X : tag[x][2] <= served[tag[x][1]]
        /\ \A x, y \in X : tag[x] = tag[y] => x = y
    BY DEF Tagged
<1> DEFINE new == [y \in Y |-> tag[y]]
<1>2. new \in [Y -> Tags] /\ \A y \in Y : new[y] = tag[y]
    OBVIOUS
<1>3. ASSUME NEW y \in Y
      PROVE  tag[y][2] <= more[tag[y][1]]
    <2>1. tag[y] \in Tags
        OBVIOUS
    <2>2. tag[y][1] \in Sessions /\ tag[y][2] \in Int
        BY <2>1, Numbers DEF Tags
    <2> QED
        BY <1>1, <2>2
<1> QED
    BY <1>1, <1>2, <1>3 DEF Tagged

\* A task started for a subscription of s that is served now.
LEMMA TagsGrow ==
    ASSUME NEW X, NEW x, NEW Y \in SUBSET (X \cup {x}),
           NEW served \in [Sessions -> Int], NEW more \in [Sessions -> Int],
           \A r \in Sessions : served[r] <= more[r],
           NEW s \in Sessions, served[s] < more[s], more[s] \in 1 .. MaxSubscribes,
           x \notin X, Tagged(X, served)
    PROVE  Tagged(Y, more)
<1>1. PICK tag \in [X -> Tags] :
        /\ \A y \in X : tag[y][2] <= served[tag[y][1]]
        /\ \A y, z \in X : tag[y] = tag[z] => y = z
    BY DEF Tagged
<1> DEFINE new == [y \in Y |-> IF y = x THEN <<s, more[s]>> ELSE tag[y]]
<1>2. \A y \in X : tag[y][1] \in Sessions /\ tag[y][2] \in Int
    <2> SUFFICES ASSUME NEW y \in X PROVE tag[y][1] \in Sessions /\ tag[y][2] \in Int
        OBVIOUS
    <2>1. tag[y] \in Tags
        OBVIOUS
    <2> QED
        BY <2>1, Numbers DEF Tags
<1>3. new \in [Y -> Tags]
    BY DEF Tags
<1>4. ASSUME NEW y \in Y
      PROVE  new[y][2] <= more[new[y][1]]
    BY <1>1, <1>2
<1>5. ASSUME NEW y \in X
      PROVE  tag[y] # <<s, more[s]>>
    BY <1>1, <1>2
<1>6. ASSUME NEW y \in Y, NEW z \in Y, new[y] = new[z]
      PROVE  y = z
    BY <1>1, <1>5, <1>6
<1> QED
    BY <1>3, <1>4, <1>6 DEF Tagged

\* While a subscription of s is not served, one tag is left over.
LEMMA TagIsLeft ==
    ASSUME NEW X, NEW served \in [Sessions -> Int], Tagged(X, served),
           NEW s \in Sessions, served[s] < MaxSubscribes, MaxSubscribes >= 1
    PROVE  /\ IsFiniteSet(X)
           /\ Cardinality(X) < MaxSubscribes * Cardinality(Sessions)
<1> DEFINE Left == Tags \ {<<s, MaxSubscribes>>}
<1>1. /\ IsFiniteSet(Tags)
      /\ Cardinality(Tags) = Cardinality(Sessions) * MaxSubscribes
    <2>1. /\ IsFiniteSet(1 .. MaxSubscribes)
          /\ Cardinality(1 .. MaxSubscribes) = MaxSubscribes
        BY Numbers, FS_Interval
    <2> QED
        BY <2>1, PoolsSuffice, FS_Product DEF Tags
<1>2. IsFiniteSet(Left) /\ Cardinality(Left) = Cardinality(Tags) - 1
    <2>1. <<s, MaxSubscribes>> \in Tags
        BY Numbers DEF Tags
    <2> QED
        BY <1>1, <2>1, FS_RemoveElement
<1>3. PICK tag \in [X -> Tags] :
        /\ \A x \in X : tag[x][2] <= served[tag[x][1]]
        /\ \A x, y \in X : tag[x] = tag[y] => x = y
    BY DEF Tagged
<1>4. ASSUME NEW x \in X PROVE tag[x] \in Left
    <2>1. tag[x] \in Tags
        OBVIOUS
    <2>2. tag[x] # <<s, MaxSubscribes>>
        BY <1>3, Numbers
    <2> QED
        BY <2>1, <2>2
<1>5. tag \in [X -> Left]
    BY <1>4
<1>6. tag \in Injection(X, Left)
    BY <1>3, <1>5 DEF Injection, IsInjective
<1>7. IsFiniteSet(X) /\ Cardinality(X) <= Cardinality(Left)
    BY <1>2, <1>6, FS_Injection
<1>8. /\ Cardinality(X) \in Nat /\ Cardinality(Tags) \in Nat
      /\ Cardinality(Sessions) \in Nat /\ Cardinality(Left) \in Nat
    BY <1>1, <1>2, <1>7, PoolsSuffice, FS_CardinalityType
<1>9. Cardinality(Sessions) * MaxSubscribes = MaxSubscribes * Cardinality(Sessions)
    BY <1>8, Numbers
<1> QED
    BY <1>1, <1>2, <1>7, <1>8, <1>9

\* A pool of that size has then an element to spare.
LEMMA OneIsFree ==
    ASSUME NEW Pool, NEW X \in SUBSET Pool, IsFiniteSet(X),
           IsFiniteSet(Pool) => Cardinality(X) < Cardinality(Pool)
    PROVE  \E x \in Pool : x \notin X
<1> SUFFICES ASSUME Pool = X PROVE FALSE
    OBVIOUS
<1> QED
    BY FS_CardinalityType

------------------------------------------------------------------------------
(***************************************************************************)
(* Sessions.                                                               *)
(***************************************************************************)

\* The types by name.
LEMMA Types ==
    ASSUME TypeOK
    PROVE  /\ chain \in [best: 0 .. MaxBlock, final: 0 .. MaxBlock]
           /\ emitting \in [{"best", "final"} -> {None} \cup Emission]
           /\ log \in Seq(Emission) /\ Len(log) \in 0 .. MaxLog
           /\ hub \in [lock: Sessions \cup {None}, entry: Entries \cup {None}]
           /\ encoder \in [Entries -> Encoder]
           /\ forwarder \in [Forwarders -> Forwarder]
           /\ session \in [Sessions -> Session]
           /\ faults \in Nat /\ faults <= MaxFaults
BY Numbers DEF TypeOK, Emission, Encoder, Forwarder, Session

\* What a session needs to be told of itself.
Fits(new) ==
    /\ new \in Session
    /\ Len(new.queue) <= SinkCapacity
    /\ new.pc \in {"subscribe", "connect"} => new.subscribes \in 1 .. MaxSubscribes

ServedBy(new) == IF new.pc \in {"subscribe", "connect"}
                 THEN new.subscribes - 1 ELSE new.subscribes

LEMMA SessionFits ==
    ASSUME TypeOK, WaitingIsCounted, NEW s \in Sessions
    PROVE  Fits(session[s]) /\ ServedBy(session[s]) = Served(s)
BY Types DEF TypeOK, WaitingIsCounted, Fits, ServedBy, Served, Waiting

\* One session changes; none of its subscriptions is taken back.
LEMMA SessionMoves ==
    ASSUME TypeOK, WaitingIsCounted,
           NEW s \in Sessions, NEW new, Fits(new), Served(s) <= ServedBy(new),
           session' = [session EXCEPT ![s] = new]
    PROVE  /\ session' \in [Sessions -> Session]
           /\ session'[s] = new
           /\ \A r \in Sessions : r # s => session'[r] = session[r]
           /\ \A r \in Sessions : Len(session'[r].queue) <= SinkCapacity
           /\ WaitingIsCounted'
           /\ ServedCounts \in [Sessions -> Int] /\ ServedCounts' \in [Sessions -> Int]
           /\ \A r \in Sessions : ServedCounts[r] <= ServedCounts'[r]
           /\ ServedCounts[s] = Served(s) /\ ServedCounts'[s] = ServedBy(new)
<1>1. session' \in [Sessions -> Session]
    BY Types DEF Fits
<1>2. session'[s] = new /\ \A r \in Sessions : r # s => session'[r] = session[r]
    BY Types
<1>3. \A r \in Sessions : Len(session'[r].queue) <= SinkCapacity
    BY <1>2 DEF Fits, TypeOK
<1>4. WaitingIsCounted'
    BY <1>2 DEF WaitingIsCounted, Waiting, Fits
<1>5. \A r \in Sessions : /\ session[r].subscribes \in Int
                          /\ session'[r].subscribes \in Int
    BY <1>1, Types, Numbers DEF Session
<1>6. \A r \in Sessions : Served(r) \in Int /\ Served(r)' \in Int
    BY <1>5 DEF Served, Waiting
<1>7. Served(s)' = ServedBy(new)
    BY <1>2 DEF Served, ServedBy, Waiting
<1>8. ASSUME NEW r \in Sessions, r # s PROVE Served(r)' = Served(r)
    BY <1>2, <1>8 DEF Served, Waiting
<1>9. \A r \in Sessions : Served(r) <= Served(r)'
    BY <1>6, <1>7, <1>8
<1> QED
    BY <1>1, <1>2, <1>3, <1>4, <1>6, <1>7, <1>9 DEF ServedCounts

LEMMA ServedSame == session' = session => ServedCounts' = ServedCounts
BY DEF ServedCounts, Served, Waiting

LEMMA ServedType == TypeOK => ServedCounts \in [Sessions -> Int]
<1> SUFFICES ASSUME TypeOK, NEW r \in Sessions PROVE Served(r) \in Int
    BY DEF ServedCounts
<1>1. session[r].subscribes \in Int
    BY Types, Numbers DEF Session
<1> QED
    BY <1>1 DEF Served

\* The tags over a step: those of the encoders and those of the forwarders.
LEMMA TagsKept ==
    ASSUME TypeOK, TypeOK', NEW X, Tagged(X, ServedCounts), NEW Y \in SUBSET X,
           \A r \in Sessions : ServedCounts[r] <= ServedCounts'[r]
    PROVE  Tagged(Y, ServedCounts')
<1>1. ServedCounts \in [Sessions -> Int] /\ ServedCounts' \in [Sessions -> Int]
    <2>1. \A r \in Sessions : session'[r].subscribes \in Int
        BY Numbers DEF TypeOK
    <2>2. \A r \in Sessions : Served(r)' \in Int
        BY <2>1 DEF Served, Waiting
    <2> QED
        BY <2>2, ServedType DEF ServedCounts
<1> DEFINE served == ServedCounts
           more == ServedCounts'
<1> HIDE DEF served, more
<1>2. /\ served \in [Sessions -> Int] /\ more \in [Sessions -> Int]
      /\ \A r \in Sessions : served[r] <= more[r]
      /\ Tagged(X, served)
    BY <1>1 DEF served, more
<1>3. Tagged(Y, more)
    BY <1>2, TagsStay
<1> QED
    BY <1>3 DEF more

\* A step of one session, which neither gains nor gives up the hub's lock.
LEMMA QuietStep ==
    ASSUME LiveInv, NEW s \in Sessions, NEW new, Fits(new),
           Served(s) <= ServedBy(new),
           new.pc = "connect" <=> At(s, "connect"),
           session' = [session EXCEPT ![s] = new],
           faults' = faults \/ MayFail,
           UNCHANGED <<watchers, hub, encoder, forwarder>>
    PROVE  LiveInv'
<1> USE DEF LiveInv
<1>1. /\ session' \in [Sessions -> Session]
      /\ session'[s] = new
      /\ \A r \in Sessions : r # s => session'[r] = session[r]
      /\ \A r \in Sessions : Len(session'[r].queue) <= SinkCapacity
      /\ WaitingIsCounted'
      /\ \A r \in Sessions : ServedCounts[r] <= ServedCounts'[r]
    BY SessionMoves
<1>2. faults' \in 0 .. MaxFaults
    BY Types, Numbers DEF MayFail
<1>3. TypeOK'
    BY <1>1, <1>2 DEF TypeOK, Session, watchers
<1>4. LockIsHeld'
    BY <1>1 DEF LockIsHeld, At
<1>5. LogIsBounded' /\ EncodersRead'
    BY DEF LogIsBounded, EncodersRead, Pending, watchers
<1>6. LeasesFollowHub'
    BY DEF LeasesFollowHub, Free, Leased
<1>7. BusyEntries' = BusyEntries /\ BusyForwarders' = BusyForwarders
    BY DEF BusyEntries, BusyForwarders, Free
<1>8. Tagged(BusyEntries', ServedCounts') /\ Tagged(BusyForwarders', ServedCounts')
    BY <1>1, <1>3, <1>7, TagsKept
<1>9. Tagged(BusyEntries, ServedCounts)' /\ Tagged(BusyForwarders, ServedCounts)'
    BY <1>8 DEF Tagged
<1> QED
    BY <1>1, <1>3, <1>4, <1>5, <1>6, <1>9

\* Field by field: what a step writes back of a session.
LEMMA Written ==
    ASSUME TypeOK, NEW s \in Sessions
    PROVE  /\ session[s] \in Session
           /\ Len(session[s].queue) \in Nat /\ Len(session[s].queue) <= SinkCapacity
           /\ session[s].subscribes \in 0 .. MaxSubscribes + 1
BY Types, Numbers DEF TypeOK, Session

LEMMA SubscribeStep ==
    ASSUME LiveInv, NEW s \in Sessions, Subscribe(s)
    PROVE  LiveInv'
<1> DEFINE pc == IF session[s].subscribes = MaxSubscribes THEN "last_error"
                 ELSE IF session[s].handle # None THEN "open" ELSE "subscribe"
           new == [session[s] EXCEPT !.subscribes = @ + 1, !.pc = pc]
<1>1. session' = [session EXCEPT ![s] = new]
    BY Types DEF LiveInv, Subscribe
<1>2. new \in Session /\ Len(new.queue) <= SinkCapacity
    <2>1. session[s].subscribes + 1 \in 0 .. MaxSubscribes + 1
        BY Written, Numbers DEF LiveInv, Subscribe
    <2>2. pc \in {"open", "last_error", "subscribe"}
        OBVIOUS
    <2> HIDE DEF pc
    <2> QED
        BY <2>1, <2>2, Written DEF LiveInv, Session
<1>3. /\ new.pc = "subscribe" => new.subscribes \in 1 .. MaxSubscribes
      /\ new.pc # "connect" /\ new.subscribes = session[s].subscribes + 1
    BY Written, Numbers DEF LiveInv, Subscribe, Session
<1>4. Fits(new) /\ Served(s) <= ServedBy(new) /\ ~At(s, "connect")
    BY <1>2, <1>3, Written, Numbers
       DEF LiveInv, Fits, Served, Waiting, ServedBy, Subscribe, At
<1> HIDE DEF new
<1> QED
    BY <1>1, <1>3, <1>4, QuietStep DEF Subscribe

\* Any other step of this kind counts no subscription and does not wait for the
\* hub, before or after, unless it leaves pc alone.
LEMMA OtherQuietStep ==
    ASSUME LiveInv, NEW s \in Sessions, NEW new \in Session,
           Len(new.queue) <= SinkCapacity,
           new.subscribes = session[s].subscribes,
           \/ new.pc = session[s].pc
           \/ ~Waiting(s) /\ new.pc \notin {"subscribe", "connect"},
           session' = [session EXCEPT ![s] = new],
           faults' = faults \/ MayFail,
           UNCHANGED <<watchers, hub, encoder, forwarder>>
    PROVE  LiveInv'
<1>1. /\ Fits(new) /\ Served(s) <= ServedBy(new)
      /\ new.pc = "connect" <=> At(s, "connect")
    BY Written, Numbers
       DEF LiveInv, WaitingIsCounted, Fits, Served, Waiting, ServedBy, At
<1> QED
    BY <1>1, QuietStep

LEMMA ReceiverQuietSteps ==
    ASSUME LiveInv, NEW s \in Sessions,
           BadFrame(s) \/ SendError(s) \/ ReceiverEnds(s)
    PROVE  LiveInv'
<1>1. CASE BadFrame(s)
    <2>1. PICK pc \in {"error", "last_error"} :
            session' = [session EXCEPT ![s].pc = pc]
        BY <1>1 DEF BadFrame, Goto
    <2> DEFINE new == [session[s] EXCEPT !.pc = pc]
    <2>2. session' = [session EXCEPT ![s] = new]
        BY <2>1, Types DEF LiveInv
    <2>3. /\ new \in Session /\ Len(new.queue) <= SinkCapacity
          /\ new.subscribes = session[s].subscribes
          /\ new.pc \notin {"subscribe", "connect"} /\ ~Waiting(s)
        BY <1>1, Written DEF LiveInv, Session, BadFrame, At, Waiting
    <2> HIDE DEF new
    <2> QED
        BY <1>1, <2>2, <2>3, OtherQuietStep DEF BadFrame
<1>2. CASE SendError(s)
    <2> DEFINE new == [session[s] EXCEPT !.queue = Push(s),
                          !.pc = IF At(s, "error") THEN "open" ELSE "closing"]
    <2>1. session' = [session EXCEPT ![s] = new]
        BY <1>2, Types DEF LiveInv, SendError
    <2>2. Push(s) \in Seq(Frames) /\ Len(Push(s)) <= SinkCapacity
        <3>1. session[s].queue \in Seq(Frames) /\ Control \in Frames
            BY Written, Numbers DEF LiveInv, Session, Control, Frames
        <3> QED
            BY <1>2, <3>1, Written, Numbers DEF LiveInv, Push, SendError, HasRoom
    <2>3. /\ new \in Session /\ new.queue = Push(s)
          /\ new.subscribes = session[s].subscribes
          /\ new.pc \notin {"subscribe", "connect"} /\ ~Waiting(s)
        BY <1>2, <2>2, Written DEF LiveInv, Session, SendError, At, Waiting
    <2> HIDE DEF new
    <2> QED
        BY <1>2, <2>1, <2>2, <2>3, OtherQuietStep DEF SendError
<1>3. CASE ReceiverEnds(s)
    <2> DEFINE new == [session[s] EXCEPT !.pc = "closing"]
    <2>1. session' = [session EXCEPT ![s] = new]
        BY <1>3, Types DEF LiveInv, ReceiverEnds, Goto
    <2>2. /\ new \in Session /\ Len(new.queue) <= SinkCapacity
          /\ new.subscribes = session[s].subscribes
          /\ new.pc \notin {"subscribe", "connect"} /\ ~Waiting(s)
        BY <1>3, Written DEF LiveInv, Session, ReceiverEnds, At, Waiting
    <2> HIDE DEF new
    <2> QED
        BY <1>3, <2>1, <2>2, OtherQuietStep DEF ReceiverEnds
<1> QED
    BY <1>1, <1>2, <1>3

LEMMA SinkSteps ==
    ASSUME LiveInv, NEW s \in Sessions, Sink(s) \/ SinkCloses(s)
    PROVE  LiveInv'
<1>0. session[s].queue \in Seq(Frames)
    BY Written DEF LiveInv, Session
<1>1. CASE Sink(s)
    <2>1. session[s].queue # <<>>
        BY <1>1 DEF Sink
    <2>2. /\ Tail(session[s].queue) \in Seq(Frames)
          /\ Len(Tail(session[s].queue)) <= SinkCapacity
          /\ Head(session[s].queue) \in Frames
        BY <1>0, <2>1, Written, Numbers DEF LiveInv
    <2>3. CASE session[s].client = "reads"
        <3> DEFINE new == [session[s] EXCEPT !.queue = Tail(@),
                        !.seen = IF Head(session[s].queue) = Control THEN @
                                 ELSE Head(session[s].queue)]
        <3>1. session' = [session EXCEPT ![s] = new]
            BY <1>1, <2>3, Types DEF LiveInv, Sink
        <3>2. new \in Session
            BY <2>2, Written DEF LiveInv, Session
        <3>3. /\ Len(new.queue) <= SinkCapacity
              /\ new.subscribes = session[s].subscribes /\ new.pc = session[s].pc
            BY <2>2, Written DEF LiveInv, Session
        <3> HIDE DEF new
        <3> QED
            BY <1>1, <3>1, <3>2, <3>3, OtherQuietStep DEF Sink
    <2>4. CASE session[s].client = "gone"
        <3> DEFINE new == [session[s] EXCEPT !.sink = "gone", !.queue = <<>>]
        <3>1. session' = [session EXCEPT ![s] = new]
            BY <1>1, <2>4, Types DEF LiveInv, Sink
        <3>2. <<>> \in Seq(Frames) /\ Len(<<>>) <= SinkCapacity
            BY Numbers
        <3>3. /\ new \in Session /\ new.queue = <<>>
              /\ new.subscribes = session[s].subscribes /\ new.pc = session[s].pc
            BY <3>2, Written DEF LiveInv, Session
        <3> HIDE DEF new
        <3> QED
            BY <1>1, <3>1, <3>2, <3>3, OtherQuietStep DEF Sink
    <2> QED
        BY <1>1, <2>3, <2>4 DEF Sink
<1>2. CASE SinkCloses(s)
    <2> DEFINE new == [session[s] EXCEPT !.sink = "gone"]
    <2>1. session' = [session EXCEPT ![s] = new]
        BY <1>2, Types DEF LiveInv, SinkCloses
    <2>2. /\ new \in Session /\ Len(new.queue) <= SinkCapacity
          /\ new.subscribes = session[s].subscribes /\ new.pc = session[s].pc
        BY Written, Numbers DEF LiveInv, Session
    <2> HIDE DEF new
    <2> QED
        BY <1>2, <2>1, <2>2, OtherQuietStep DEF SinkCloses
<1> QED
    BY <1>1, <1>2

LEMMA HeartbeatStep ==
    ASSUME LiveInv, NEW s \in Sessions, Heartbeat(s)
    PROVE  LiveInv'
<1>1. /\ session[s].queue \in Seq(Frames) /\ Control \in Frames
      /\ session[s].drops \in Nat /\ session[s].drops < HeartbeatDropLimit
    BY Written, Numbers DEF LiveInv, Session, Control, Frames, Heartbeat
<1>2. CASE Len(session[s].queue) < SinkCapacity
    <2> DEFINE new == [session[s] EXCEPT !.queue = Append(@, Control), !.drops = 0]
    <2>1. session' = [session EXCEPT ![s] = new]
        BY <1>2, Types DEF LiveInv, Heartbeat
    <2>2. /\ Append(session[s].queue, Control) \in Seq(Frames)
          /\ Len(Append(session[s].queue, Control)) <= SinkCapacity
          /\ 0 \in 0 .. HeartbeatDropLimit
        BY <1>1, <1>2, Numbers
    <2>3. /\ new \in Session /\ Len(new.queue) <= SinkCapacity
          /\ new.subscribes = session[s].subscribes /\ new.pc = session[s].pc
        BY <2>2, Written DEF LiveInv, Session
    <2> HIDE DEF new
    <2> QED
        BY <2>1, <2>3, OtherQuietStep DEF Heartbeat
<1>3. CASE ~(Len(session[s].queue) < SinkCapacity)
    <2> DEFINE new == [session[s] EXCEPT !.drops = @ + 1]
    <2>1. session' = [session EXCEPT ![s] = new]
        BY <1>3, Types DEF LiveInv, Heartbeat
    <2>2. session[s].drops + 1 \in 0 .. HeartbeatDropLimit
        BY <1>1, Numbers
    <2>3. /\ new \in Session /\ Len(new.queue) <= SinkCapacity
          /\ new.subscribes = session[s].subscribes /\ new.pc = session[s].pc
        BY <2>2, Written DEF LiveInv, Session
    <2> HIDE DEF new
    <2> QED
        BY <2>1, <2>3, OtherQuietStep DEF Heartbeat
<1> QED
    BY <1>2, <1>3

LEMMA ClientSteps ==
    ASSUME LiveInv, NEW s \in Sessions, ClientStalls(s) \/ ClientLeaves(s)
    PROVE  LiveInv'
<1>1. PICK client \in {"stalls", "gone"} :
        session' = [session EXCEPT ![s].client = client]
    BY DEF ClientStalls, ClientLeaves
<1> DEFINE new == [session[s] EXCEPT !.client = client]
<1>2. session' = [session EXCEPT ![s] = new]
    BY <1>1, Types DEF LiveInv
<1>3. /\ new \in Session /\ Len(new.queue) <= SinkCapacity
      /\ new.subscribes = session[s].subscribes /\ new.pc = session[s].pc
    BY Written DEF LiveInv, Session
<1>4. /\ faults' = faults \/ MayFail
      /\ UNCHANGED <<watchers, hub, encoder, forwarder>>
    BY DEF ClientStalls, ClientLeaves
<1> HIDE DEF new
<1> QED
    BY <1>2, <1>3, <1>4, OtherQuietStep

------------------------------------------------------------------------------
(***************************************************************************)
(* Watchers and encoders.                                                  *)
(***************************************************************************)

\* No session moves and no task starts: the tags stay.
LEMMA TagsOfFewer ==
    ASSUME LiveInv, TypeOK', session' = session,
           BusyEntries' \subseteq BusyEntries, BusyForwarders' \subseteq BusyForwarders
    PROVE  Tagged(BusyEntries, ServedCounts)' /\ Tagged(BusyForwarders, ServedCounts)'
<1>1. \A r \in Sessions : ServedCounts[r] <= ServedCounts'[r]
    <2>1. ServedCounts' = ServedCounts /\ ServedCounts \in [Sessions -> Int]
        BY ServedSame, ServedType DEF LiveInv
    <2> QED
        BY <2>1
<1>2. Tagged(BusyEntries', ServedCounts') /\ Tagged(BusyForwarders', ServedCounts')
    BY <1>1, TagsKept DEF LiveInv
<1> QED
    BY <1>2 DEF Tagged

\* What the hub and the sessions keep while only watchers move.
LEMMA HubStays ==
    ASSUME LiveInv, TypeOK', UNCHANGED <<hub, encoder, forwarder, session>>
    PROVE  /\ LockIsHeld' /\ LeasesFollowHub' /\ WaitingIsCounted'
           /\ Tagged(BusyEntries, ServedCounts)' /\ Tagged(BusyForwarders, ServedCounts)'
<1>1. BusyEntries' = BusyEntries /\ BusyForwarders' = BusyForwarders
    BY DEF BusyEntries, BusyForwarders, Free
<1>2. Tagged(BusyEntries, ServedCounts)' /\ Tagged(BusyForwarders, ServedCounts)'
    BY <1>1, TagsOfFewer
<1>3. LockIsHeld' /\ LeasesFollowHub' /\ WaitingIsCounted'
    BY DEF LiveInv, LockIsHeld, At, LeasesFollowHub, Free, Leased, WaitingIsCounted, Waiting
<1> QED
    BY <1>2, <1>3

LEMMA ArrivalSteps ==
    ASSUME LiveInv, BestArrives \/ FinalArrives
    PROVE  LiveInv'
<1>0. /\ chain.best \in 0 .. MaxBlock /\ chain.final \in 0 .. MaxBlock
      /\ chain \in [best: 0 .. MaxBlock, final: 0 .. MaxBlock] /\ MaxBlock \in Nat
    BY Types, Numbers DEF LiveInv
<1>1. PICK t \in {"best", "final"}, n \in 1 .. MaxBlock, flag \in BOOLEAN :
        /\ emitting[t] = None /\ Take(t, n, flag)
        /\ \/ t = "best" /\ chain' = [chain EXCEPT !.best = n] /\ n = chain.best + 1
              /\ head' = head
           \/ t = "final" /\ chain' = [chain EXCEPT !.final = n] /\ n = chain.final + 1
              /\ head' = n
        /\ UNCHANGED <<log, hub, encoder, forwarder, session, faults>>
    <2>1. CASE BestArrives
        <3>1. /\ chain.best + 1 \in 1 .. MaxBlock
              /\ (chain.best + 1 <= head) \in BOOLEAN
            BY <1>0, <2>1 DEF BestArrives
        <3> QED
            BY <2>1, <3>1 DEF BestArrives
    <2>2. CASE FinalArrives
        <3>1. chain.final + 1 \in 1 .. MaxBlock
            BY <1>0, <2>2 DEF FinalArrives
        <3> QED
            BY <2>2, <3>1 DEF FinalArrives
    <2> QED
        BY <2>1, <2>2
<1>2. emitting' \in [{"best", "final"} -> {None} \cup [number: Blocks, finalized: BOOLEAN]]
    <2>1. [number |-> n, finalized |-> flag] \in [number: Blocks, finalized: BOOLEAN]
        BY DEF Blocks
    <2> QED
        BY <1>1, <2>1 DEF LiveInv, TypeOK, Take
<1>3. chain' \in [best: 0 .. MaxBlock, final: 0 .. MaxBlock]
    BY <1>0, <1>1
<1>4. head' \in 0 .. MaxBlock
    BY <1>0, <1>1 DEF LiveInv, TypeOK
<1>5. TypeOK'
    BY <1>1, <1>2, <1>3, <1>4 DEF LiveInv, TypeOK
<1>6. chain'.best + chain'.final = chain.best + chain.final + 1
    BY <1>0, <1>1
<1>7. /\ \A u \in {"best", "final"} : u # t => emitting'[u] = emitting[u]
      /\ Pending(t) = 0 /\ Pending(t)' \in 0 .. 1
      /\ \A u \in {"best", "final"} : u # t => Pending(u)' = Pending(u)
      /\ \A u \in {"best", "final"} : Pending(u) \in 0 .. 1
    BY <1>1, Types DEF LiveInv, Take, Pending
<1>8. LogIsBounded'
    <2>1. Len(log') = Len(log) /\ Len(log) \in Nat
        BY <1>1, Types DEF LiveInv
    <2>2. Len(log) + Pending("best") + Pending("final") <= chain.best + chain.final
        BY DEF LiveInv, LogIsBounded
    <2>3. Len(log') + Pending("best")' + Pending("final")' <= chain'.best + chain'.final
        BY <1>0, <1>6, <1>7, <2>1, <2>2
    <2> QED
        BY <2>3 DEF LogIsBounded, Pending
<1>9. EncodersRead'
    BY <1>1 DEF LiveInv, EncodersRead
<1> QED
    BY <1>1, <1>5, <1>8, <1>9, HubStays DEF LiveInv

LEMMA EmissionSteps ==
    ASSUME LiveInv, NEW t \in {"best", "final"}, Emit(t) \/ EmitSkipped(t)
    PROVE  LiveInv'
<1>0. /\ emitting[t] \in Emission /\ log \in Seq(Emission) /\ Len(log) \in Nat
      /\ chain.best \in 0 .. MaxBlock /\ chain.final \in 0 .. MaxBlock
    BY Types DEF LiveInv, Emit, EmitSkipped
<1>1. /\ emitting' = [emitting EXCEPT ![t] = None]
      /\ log' = log \/ log' = Append(log, emitting[t])
      /\ faults' = faults \/ MayFail
      /\ UNCHANGED <<chain, head, hub, encoder, forwarder, session>>
    BY DEF Emit, EmitSkipped
<1>2. /\ Pending(t) = 1 /\ Pending(t)' = 0
      /\ \A u \in {"best", "final"} : u # t => Pending(u)' = Pending(u)
      /\ \A u \in {"best", "final"} : Pending(u) \in 0 .. 1
    BY <1>1, Types DEF LiveInv, Pending, Emit, EmitSkipped
<1>3. /\ log' \in Seq(Emission) /\ Len(log') \in Nat
      /\ Len(log) <= Len(log') /\ Len(log') <= Len(log) + 1
    BY <1>0, <1>1
<1>4. Len(log') + Pending("best")' + Pending("final")' <= chain'.best + chain'.final
    <2>1. Len(log) + Pending("best") + Pending("final") <= chain.best + chain.final
        BY DEF LiveInv, LogIsBounded
    <2> QED
        BY <1>0, <1>1, <1>2, <1>3, <2>1, Numbers
<1>5. Len(log') <= MaxLog
    BY <1>0, <1>1, <1>2, <1>3, <1>4, Numbers DEF MaxLog
<1>6. faults' \in 0 .. MaxFaults
    BY <1>1, Types, Numbers DEF LiveInv, MayFail
<1>7. TypeOK'
    BY <1>1, <1>3, <1>5, <1>6 DEF LiveInv, TypeOK, Emission
<1>8. LogIsBounded'
    BY <1>4 DEF LogIsBounded, Pending
<1>9. EncodersRead'
    <2>1. \A e \in Entries : encoder[e].pos \in Nat
        BY Types, Numbers DEF LiveInv, Encoder, Frames
    <2> QED
        BY <1>0, <1>1, <1>3, <2>1 DEF LiveInv, EncodersRead
<1> QED
    BY <1>1, <1>7, <1>8, <1>9, HubStays DEF LiveInv

\* A reader behind the end of a ring moves on, and not beyond the end.
LEMMA ReceivedIsAhead ==
    ASSUME NEW pos \in Nat, NEW length \in Nat, pos < length
    PROVE  Received(pos, length) \in pos + 1 .. length
BY Numbers DEF Received

LEMMA EncodeStep ==
    ASSUME LiveInv, NEW e \in Entries, Encode(e)
    PROVE  LiveInv'
<1> DEFINE next == Received(encoder[e].pos, Len(log))
           new == [encoder[e] EXCEPT !.pos = next, !.out = Append(@, next)]
<1>0. /\ encoder \in [Entries -> Encoder] /\ encoder[e] \in Encoder
      /\ encoder[e].out \in Seq(1 .. MaxLog) /\ encoder[e].pos \in Nat
      /\ Len(log) \in 0 .. MaxLog /\ Len(encoder[e].out) \in Nat
    BY Types, Numbers DEF LiveInv, Encoder, Frames
<1>1. encoder' = [encoder EXCEPT ![e] = new]
    BY <1>0 DEF Encode
<1>2. next \in encoder[e].pos + 1 .. Len(log)
    BY <1>0, ReceivedIsAhead DEF Encode
<1>3. /\ next \in 1 .. MaxLog /\ next \in Frames
      /\ Append(encoder[e].out, next) \in Seq(1 .. MaxLog)
      /\ Len(Append(encoder[e].out, next)) = Len(encoder[e].out) + 1
    BY <1>0, <1>2, Numbers DEF Frames
<1>4. Len(encoder[e].out) <= encoder[e].pos
    BY DEF LiveInv, EncodersRead
<1> HIDE DEF next
<1>5. /\ new \in Encoder /\ new.state = encoder[e].state
      /\ Len(new.out) <= new.pos /\ new.pos <= Len(log)
    <2> DEFINE out == Append(encoder[e].out, next)
    <2>1. /\ out \in Seq(1 .. MaxLog) /\ Len(out) <= next /\ next <= Len(log)
        BY <1>0, <1>2, <1>3, <1>4
    <2>2. new = [encoder[e] EXCEPT !.pos = next, !.out = out]
        BY <1>0 DEF Encoder
    <2> HIDE DEF new, out
    <2> QED
        BY <1>0, <1>3, <2>1, <2>2 DEF Encoder
<1> HIDE DEF new
<1>6. /\ encoder' \in [Entries -> Encoder]
      /\ \A d \in Entries : encoder'[d].state = encoder[d].state
      /\ encoder'[e] = new /\ \A d \in Entries : d # e => encoder'[d] = encoder[d]
    BY <1>0, <1>1, <1>5
<1>7. UNCHANGED <<chain, head, emitting, log, hub, forwarder, session, faults>>
    BY DEF Encode, watchers
<1>8. TypeOK'
    BY <1>6, <1>7 DEF LiveInv, TypeOK, Encoder
<1>9. EncodersRead'
    BY <1>5, <1>6, <1>7 DEF LiveInv, EncodersRead
<1>10. LogIsBounded' /\ LockIsHeld' /\ WaitingIsCounted'
    BY <1>7 DEF LiveInv, LogIsBounded, Pending, LockIsHeld, At, WaitingIsCounted, Waiting
<1>11. LeasesFollowHub'
    <2> SUFFICES ASSUME NEW f \in Forwarders
                 PROVE  IF Free(f)' THEN forwarder'[f] = NoForwarder ELSE Leased(f)'
        BY DEF LeasesFollowHub, NoForwarder
    <2>1. IF Free(f) THEN forwarder[f] = NoForwarder ELSE Leased(f)
        BY DEF LiveInv, LeasesFollowHub
    <2>2. hub.entry # None => hub.entry \in Entries
        BY Types DEF LiveInv
    <2> QED
        BY <1>6, <1>7, <2>1, <2>2 DEF Free, Leased
<1>12. BusyEntries' = BusyEntries /\ BusyForwarders' = BusyForwarders
    BY <1>6, <1>7 DEF BusyEntries, BusyForwarders, Free
<1> QED
    BY <1>7, <1>8, <1>9, <1>10, <1>11, <1>12, TagsOfFewer DEF LiveInv

LEMMA EncoderEndsStep ==
    ASSUME LiveInv, NEW e \in Entries, EncoderEnds(e)
    PROVE  LiveInv'
<1>0. /\ encoder \in [Entries -> Encoder] /\ Len(log) \in Nat
    BY Types, Numbers DEF LiveInv
<1>1. encoder' = [encoder EXCEPT ![e] = NoEncoder] /\ encoder[e].state = "abort"
    BY DEF EncoderEnds
<1>2. /\ NoEncoder \in Encoder /\ Len(NoEncoder.out) <= NoEncoder.pos
      /\ NoEncoder.state = "free" /\ NoEncoder.pos <= Len(log)
    <2>1. <<>> \in Seq(1 .. MaxLog) /\ 0 \in Frames
        BY Numbers DEF Frames
    <2> QED
        BY <1>0, <2>1 DEF NoEncoder, Encoder
<1>3. /\ encoder' \in [Entries -> Encoder] /\ encoder'[e] = NoEncoder
      /\ \A d \in Entries : d # e => encoder'[d] = encoder[d]
    BY <1>0, <1>1, <1>2
<1>4. UNCHANGED <<chain, head, emitting, log, hub, forwarder, session, faults>>
    BY DEF EncoderEnds, watchers
<1>5. TypeOK'
    BY <1>3, <1>4 DEF LiveInv, TypeOK, Encoder
<1>6. EncodersRead'
    BY <1>2, <1>3, <1>4 DEF LiveInv, EncodersRead
<1>7. LogIsBounded' /\ LockIsHeld' /\ WaitingIsCounted'
    BY <1>4 DEF LiveInv, LogIsBounded, Pending, LockIsHeld, At, WaitingIsCounted, Waiting
<1>8. LeasesFollowHub'
    <2> SUFFICES ASSUME NEW f \in Forwarders
                 PROVE  IF Free(f)' THEN forwarder'[f] = NoForwarder ELSE Leased(f)'
        BY DEF LeasesFollowHub, NoForwarder
    <2>1. IF Free(f) THEN forwarder[f] = NoForwarder ELSE Leased(f)
        BY DEF LiveInv, LeasesFollowHub
    <2>2. hub.entry # None => hub.entry \in Entries
        BY Types DEF LiveInv
    <2> QED
        BY <1>1, <1>3, <1>4, <2>1, <2>2 DEF Free, Leased
<1>9. BusyEntries' \subseteq BusyEntries /\ BusyForwarders' = BusyForwarders
    BY <1>1, <1>2, <1>3, <1>4 DEF BusyEntries, BusyForwarders, Free
<1> QED
    BY <1>4, <1>5, <1>6, <1>7, <1>8, <1>9, TagsOfFewer DEF LiveInv

------------------------------------------------------------------------------
(***************************************************************************)
(* Forwarders.                                                             *)
(***************************************************************************)

\* A forwarder at work leases the entry of the hub, and the hub is unlocked.
LEMMA LeaseOf ==
    ASSUME LiveInv, NEW f \in Forwarders, ~Free(f)
    PROVE  /\ Leased(f) /\ hub.entry \in Entries /\ forwarder[f] \in Forwarder
           /\ forwarder[f].entry \in Entries /\ forwarder[f].owner \in Sessions
<1>1. Leased(f) /\ forwarder[f] \in Forwarder
    BY Types DEF LiveInv, LeasesFollowHub
<1>2. hub.entry \in Entries
    BY <1>1, Types DEF LiveInv, Leased
<1> QED
    BY <1>1, <1>2 DEF Leased

\* The tags over a step in which sessions may move and no task starts.
LEMMA TagsOfMoves ==
    ASSUME LiveInv, TypeOK',
           \A r \in Sessions : ServedCounts[r] <= ServedCounts'[r],
           BusyEntries' \subseteq BusyEntries, BusyForwarders' \subseteq BusyForwarders
    PROVE  Tagged(BusyEntries, ServedCounts)' /\ Tagged(BusyForwarders, ServedCounts)'
<1>1. Tagged(BusyEntries', ServedCounts') /\ Tagged(BusyForwarders', ServedCounts')
    BY TagsKept DEF LiveInv
<1> QED
    BY <1>1 DEF Tagged

\* Forwarders whose lease stays as it is.
LEMMA LeasesStay ==
    ASSUME LiveInv, UNCHANGED <<hub, encoder>>,
           \A g \in Forwarders :
              \/ forwarder'[g] = forwarder[g]
              \/ /\ ~Free(g) /\ ~Free(g)' /\ forwarder'[g].entry = forwarder[g].entry
                 /\ forwarder'[g].owner = forwarder[g].owner
    PROVE  LeasesFollowHub' /\ BusyForwarders' = BusyForwarders /\ BusyEntries' = BusyEntries
<1>1. ASSUME NEW g \in Forwarders
      PROVE  IF Free(g)' THEN forwarder'[g] = NoForwarder ELSE Leased(g)'
    <2>1. IF Free(g) THEN forwarder[g] = NoForwarder ELSE Leased(g)
        BY DEF LiveInv, LeasesFollowHub
    <2> QED
        BY <2>1 DEF Free, Leased
<1>2. LeasesFollowHub'
    BY <1>1 DEF LeasesFollowHub, NoForwarder
<1>3. \A g \in Forwarders : Free(g)' = Free(g)
    BY DEF Free
<1>4. BusyForwarders' = BusyForwarders /\ BusyEntries' = BusyEntries
    BY <1>3 DEF BusyForwarders, BusyEntries
<1> QED
    BY <1>2, <1>4

LEMMA ReceiveStep ==
    ASSUME LiveInv, NEW f \in Forwarders, Receive(f)
    PROVE  LiveInv'
<1> DEFINE e == forwarder[f].entry
           out == encoder[e].out
           next == Received(forwarder[f].pos, Len(out))
           new == [forwarder[f] EXCEPT !.pos = next, !.frame = out[next]]
<1>0. /\ ~Free(f) /\ e \in Entries /\ forwarder[f] \in Forwarder
      /\ forwarder \in [Forwarders -> Forwarder]
    BY LeaseOf, Types DEF LiveInv, Receive, Free
<1>1. /\ out \in Seq(1 .. MaxLog) /\ Len(out) \in Nat /\ Len(out) <= MaxLog
      /\ forwarder[f].pos \in Nat
    <2>1. /\ encoder[e] \in Encoder /\ Len(log) \in 0 .. MaxLog
          /\ Len(out) <= encoder[e].pos /\ encoder[e].pos <= Len(log)
        BY <1>0, Types DEF LiveInv, EncodersRead
    <2>2. out \in Seq(1 .. MaxLog) /\ Len(out) \in Nat /\ encoder[e].pos \in Nat
        BY <2>1, Numbers DEF Encoder, Frames
    <2> QED
        BY <1>0, <2>1, <2>2, Numbers DEF Forwarder, Frames
<1>2. forwarder' = [forwarder EXCEPT ![f] = new]
    BY <1>0 DEF Receive
<1>3. next \in forwarder[f].pos + 1 .. Len(out)
    BY <1>1, ReceivedIsAhead DEF Receive
<1>4. next \in Frames /\ out[next] \in Frames
    <2>1. next \in 1 .. Len(out)
        BY <1>1, <1>3
    <2> QED
        BY <1>1, <2>1, Numbers DEF Frames
<1> HIDE DEF next, out
<1>5. /\ new \in Forwarder /\ new.state = forwarder[f].state
      /\ new.entry = forwarder[f].entry /\ new.owner = forwarder[f].owner
    BY <1>0, <1>4 DEF Forwarder
<1> HIDE DEF new
<1>6. /\ forwarder' \in [Forwarders -> Forwarder] /\ forwarder'[f] = new
      /\ \A g \in Forwarders : g # f => forwarder'[g] = forwarder[g]
    BY <1>0, <1>2, <1>5
<1>7. UNCHANGED <<chain, head, emitting, log, hub, encoder, session, faults>>
    BY DEF Receive, watchers
<1>8. TypeOK'
    BY <1>6, <1>7 DEF LiveInv, TypeOK, Forwarder
<1>9. LeasesFollowHub' /\ BusyForwarders' = BusyForwarders /\ BusyEntries' = BusyEntries
    <2>1. ~Free(f)'
        BY <1>0, <1>5, <1>6 DEF Free
    <2> QED
        BY <1>0, <1>5, <1>6, <1>7, <2>1, LeasesStay
<1>10. LogIsBounded' /\ EncodersRead' /\ LockIsHeld' /\ WaitingIsCounted'
    BY <1>7 DEF LiveInv, LogIsBounded, Pending, EncodersRead, LockIsHeld, At,
                WaitingIsCounted, Waiting
<1> QED
    BY <1>7, <1>8, <1>9, <1>10, TagsOfFewer DEF LiveInv

LEMMA SendStep ==
    ASSUME LiveInv, NEW f \in Forwarders, Send(f)
    PROVE  LiveInv'
<1> DEFINE s == forwarder[f].owner
           queue == Append(session[s].queue, forwarder[f].frame)
           new == [session[s] EXCEPT !.queue = queue]
           newf == [forwarder[f] EXCEPT !.frame = None]
<1>0. /\ ~Free(f) /\ s \in Sessions /\ forwarder[f] \in Forwarder
      /\ forwarder \in [Forwarders -> Forwarder] /\ forwarder[f].frame \in Frames
      /\ session \in [Sessions -> Session]
    BY LeaseOf, Types DEF LiveInv, Send, Free, Forwarder
<1>1. queue \in Seq(Frames) /\ Len(queue) <= SinkCapacity
    <2>1. session[s].queue \in Seq(Frames)
        BY <1>0 DEF Session
    <2> QED
        BY <1>0, <2>1, Numbers DEF Send
<1>2. session' = [session EXCEPT ![s] = new]
    BY <1>0 DEF Send
<1>3. forwarder' = [forwarder EXCEPT ![f] = newf]
    BY <1>0 DEF Send
<1>4. UNCHANGED <<chain, head, emitting, log, hub, encoder, faults>>
    BY DEF Send, watchers
<1> HIDE DEF s, queue
<1>5. /\ new \in Session /\ new.queue = queue /\ new.pc = session[s].pc
      /\ new.subscribes = session[s].subscribes
    BY <1>0, <1>1 DEF Session
<1>6. Fits(new) /\ Served(s) <= ServedBy(new)
    <2>1. session[s].subscribes \in Int
        BY <1>0, Written, Numbers DEF LiveInv
    <2> QED
        BY <1>0, <1>1, <1>5, <2>1
           DEF LiveInv, Fits, WaitingIsCounted, Served, Waiting, ServedBy
<1> HIDE DEF new
<1>7. /\ session' \in [Sessions -> Session] /\ session'[s] = new
      /\ \A r \in Sessions : r # s => session'[r] = session[r]
      /\ \A r \in Sessions : Len(session'[r].queue) <= SinkCapacity
      /\ WaitingIsCounted'
      /\ \A r \in Sessions : ServedCounts[r] <= ServedCounts'[r]
    BY <1>0, <1>2, <1>6, SessionMoves DEF LiveInv
<1>8. /\ newf \in Forwarder /\ newf.state = forwarder[f].state
      /\ newf.entry = forwarder[f].entry /\ newf.owner = forwarder[f].owner
    BY <1>0 DEF Forwarder
<1> HIDE DEF newf
<1>9. /\ forwarder' \in [Forwarders -> Forwarder] /\ forwarder'[f] = newf
      /\ \A g \in Forwarders : g # f => forwarder'[g] = forwarder[g]
    BY <1>0, <1>3, <1>8
<1>10. TypeOK'
    BY <1>4, <1>7, <1>9 DEF LiveInv, TypeOK, Forwarder, Session
<1>11. LeasesFollowHub' /\ BusyForwarders' = BusyForwarders /\ BusyEntries' = BusyEntries
    <2>1. ~Free(f)'
        BY <1>0, <1>8, <1>9 DEF Free
    <2> QED
        BY <1>0, <1>4, <1>8, <1>9, <2>1, LeasesStay
<1>12. LockIsHeld'
    BY <1>4, <1>5, <1>7 DEF LiveInv, LockIsHeld, At
<1>13. LogIsBounded' /\ EncodersRead'
    BY <1>4 DEF LiveInv, LogIsBounded, Pending, EncodersRead
<1> QED
    BY <1>7, <1>10, <1>11, <1>12, <1>13, TagsOfMoves DEF LiveInv

LEMMA ForwarderEndsStep ==
    ASSUME LiveInv, NEW f \in Forwarders, ForwarderEnds(f)
    PROVE  LiveInv'
<1> DEFINE e == forwarder[f].entry
           new == [encoder[e] EXCEPT !.state = "abort"]
<1>0. /\ ~Free(f) /\ e \in Entries /\ e = hub.entry /\ encoder[e].state = "run"
      /\ encoder \in [Entries -> Encoder]
      /\ forwarder \in [Forwarders -> Forwarder]
    BY LeaseOf, Types DEF LiveInv, ForwarderEnds, Free, Leased
<1>1. /\ forwarder' = [forwarder EXCEPT ![f] = NoForwarder]
      /\ UNCHANGED <<chain, head, emitting, log, hub, session, faults>>
    BY DEF ForwarderEnds, watchers
<1>2. NoForwarder \in Forwarder
    BY Numbers DEF NoForwarder, Forwarder, Frames
<1>3. /\ forwarder' \in [Forwarders -> Forwarder] /\ forwarder'[f] = NoForwarder
      /\ \A g \in Forwarders : g # f => forwarder'[g] = forwarder[g]
    BY <1>0, <1>1, <1>2
<1>4. \/ encoder' = encoder
      \/ /\ encoder' = [encoder EXCEPT ![e] = new]
         /\ \A g \in Forwarders : forwarder[g].entry = e => g = f
    <2>1. CASE Leases(e) = {f}
        <3>1. encoder' = [encoder EXCEPT ![e] = new]
            BY <1>0, <2>1 DEF ForwarderEnds, DropLease
        <3>2. \A g \in Forwarders : forwarder[g].entry = e => g \in Leases(e)
            BY DEF Leases
        <3> QED
            BY <2>1, <3>1, <3>2
    <2>2. CASE Leases(e) # {f}
        BY <2>2 DEF ForwarderEnds, DropLease
    <2> QED
        BY <2>1, <2>2
<1>5. new \in Encoder /\ new.pos = encoder[e].pos /\ new.out = encoder[e].out
    BY <1>0 DEF Encoder
<1> HIDE DEF new, e
<1>6. /\ encoder' \in [Entries -> Encoder]
      /\ \A d \in Entries : /\ encoder'[d].pos = encoder[d].pos
                            /\ encoder'[d].out = encoder[d].out
      /\ \A d \in Entries : d # e => encoder'[d] = encoder[d]
    BY <1>0, <1>4, <1>5
<1>7. TypeOK'
    BY <1>1, <1>3, <1>6 DEF LiveInv, TypeOK, Forwarder, Encoder
<1>8. EncodersRead'
    BY <1>1, <1>6 DEF LiveInv, EncodersRead
<1>9. LogIsBounded' /\ LockIsHeld' /\ WaitingIsCounted'
    BY <1>1 DEF LiveInv, LogIsBounded, Pending, LockIsHeld, At, WaitingIsCounted, Waiting
<1>10. ASSUME NEW g \in Forwarders
       PROVE  IF Free(g)' THEN forwarder'[g] = NoForwarder ELSE Leased(g)'
    <2>1. CASE g = f
        BY <1>3, <2>1 DEF Free, NoForwarder
    <2>2. CASE g # f
        <3>1. forwarder'[g] = forwarder[g]
            BY <1>3, <2>2
        <3>2. CASE Free(g)
            BY <3>1, <3>2 DEF LiveInv, LeasesFollowHub, Free
        <3>3. CASE ~Free(g)
            <4>1. Leased(g) /\ forwarder[g].entry = e
                BY <1>0, <3>3 DEF LiveInv, LeasesFollowHub, Leased
            <4>2. encoder' = encoder
                BY <1>4, <2>2, <4>1
            <4> QED
                BY <1>1, <3>1, <3>3, <4>1, <4>2 DEF Leased, Free
        <3> QED
            BY <3>2, <3>3
    <2> QED
        BY <2>1, <2>2
<1>11. LeasesFollowHub'
    BY <1>10 DEF LeasesFollowHub, NoForwarder
<1>12. BusyEntries' \subseteq BusyEntries
    BY <1>0, <1>6 DEF BusyEntries
<1>13. BusyForwarders' \subseteq BusyForwarders
    BY <1>0, <1>3 DEF BusyForwarders, Free
<1> QED
    BY <1>1, <1>7, <1>8, <1>9, <1>11, <1>12, <1>13, TagsOfFewer DEF LiveInv

\* Unsubscribe and TearDown: the session gives its forwarder up.
LEMMA HandleStep ==
    ASSUME LiveInv, NEW s \in Sessions, Unsubscribe(s) \/ TearDown(s)
    PROVE  LiveInv'
<1>1. PICK fs \in SUBSET Forwarders : Abort(fs)
    <2>1. session[s].handle \in Forwarders \cup {None}
        BY Written DEF LiveInv, Session
    <2>2. CASE Unsubscribe(s)
        BY <2>1, <2>2 DEF Unsubscribe
    <2>3. CASE TearDown(s)
        <3>1. ToAbort(s) \in SUBSET Forwarders
            BY <2>1 DEF ToAbort
        <3> QED
            BY <2>3, <3>1 DEF TearDown
    <2> QED
        BY <2>2, <2>3
<1>2. PICK pc \in {"open", "closed"} :
        /\ session' = [session EXCEPT ![s].pc = pc, ![s].handle = None]
        /\ UNCHANGED <<chain, head, emitting, log, hub, encoder, faults>>
        /\ session[s].pc \in {"open", "closing"}
    <2>1. CASE Unsubscribe(s)
        <3>1. session' = [session EXCEPT ![s].pc = "open", ![s].handle = None]
            BY <2>1, Types, ZenonT(40) DEF LiveInv, Unsubscribe, At, Session
        <3> QED
            BY <2>1, <3>1 DEF Unsubscribe, watchers, At
    <2>2. CASE TearDown(s)
        BY <2>2 DEF TearDown, watchers, At
    <2> QED
        BY <2>1, <2>2
<1> DEFINE new == [session[s] EXCEPT !.pc = pc, !.handle = None]
<1>3. session' = [session EXCEPT ![s] = new]
    BY <1>2, Types DEF LiveInv
<1>4. /\ new \in Session /\ Len(new.queue) <= SinkCapacity
      /\ new.subscribes = session[s].subscribes /\ new.pc \in {"open", "closed"}
    BY Written DEF LiveInv, Session
<1> HIDE DEF new
<1>5. Fits(new) /\ Served(s) <= ServedBy(new)
    BY <1>2, <1>4, Written, Numbers DEF LiveInv, Fits, Served, Waiting, ServedBy
<1>6. /\ session' \in [Sessions -> Session] /\ session'[s] = new
      /\ \A r \in Sessions : r # s => session'[r] = session[r]
      /\ \A r \in Sessions : Len(session'[r].queue) <= SinkCapacity
      /\ WaitingIsCounted'
      /\ \A r \in Sessions : ServedCounts[r] <= ServedCounts'[r]
    BY <1>3, <1>5, SessionMoves DEF LiveInv
<1>7. forwarder \in [Forwarders -> Forwarder]
    BY Types DEF LiveInv
<1>8. ASSUME NEW g \in Forwarders
      PROVE  /\ forwarder'[g] \in Forwarder
             /\ \/ forwarder'[g] = forwarder[g]
                \/ /\ ~Free(g) /\ ~Free(g)'
                   /\ forwarder'[g].entry = forwarder[g].entry
                   /\ forwarder'[g].owner = forwarder[g].owner
    <2>1. forwarder'[g] = IF g \in fs /\ ~Free(g)
                          THEN [forwarder[g] EXCEPT !.state = "abort"] ELSE forwarder[g]
        BY <1>1 DEF Abort
    <2>2. forwarder[g] \in Forwarder
        BY <1>7
    <2> QED
        BY <2>1, <2>2 DEF Forwarder, Free
<1>9. forwarder' \in [Forwarders -> Forwarder]
    <2>1. forwarder' = [g \in Forwarders |-> IF g \in fs /\ ~Free(g)
                          THEN [forwarder[g] EXCEPT !.state = "abort"] ELSE forwarder[g]]
        BY <1>1 DEF Abort
    <2>2. forwarder' = [g \in Forwarders |-> forwarder'[g]]
        BY <2>1
    <2> QED
        BY <1>8, <2>2
<1>10. TypeOK'
    BY <1>2, <1>6, <1>9 DEF LiveInv, TypeOK, Forwarder, Session
<1>11. LeasesFollowHub' /\ BusyForwarders' = BusyForwarders /\ BusyEntries' = BusyEntries
    BY <1>2, <1>8, LeasesStay
<1>12. LockIsHeld'
    BY <1>2, <1>4, <1>6 DEF LiveInv, LockIsHeld, At
<1>13. LogIsBounded' /\ EncodersRead'
    BY <1>2 DEF LiveInv, LogIsBounded, Pending, EncodersRead
<1> QED
    BY <1>6, <1>10, <1>11, <1>12, <1>13, TagsOfMoves DEF LiveInv

------------------------------------------------------------------------------
(***************************************************************************)
(* Subscriptions.                                                          *)
(***************************************************************************)

\* A session that waits for the hub finds an identity for each of its tasks.
LEMMA OneToSpare ==
    ASSUME LiveInv, NEW s \in Sessions, Waiting(s)
    PROVE  /\ \E f \in Forwarders : Free(f)
           /\ \E e \in Entries : encoder[e].state = "free"
<1>1. session[s].subscribes \in 1 .. MaxSubscribes
    BY DEF LiveInv, WaitingIsCounted
<1>2. /\ ServedCounts \in [Sessions -> Int]
      /\ ServedCounts[s] < MaxSubscribes /\ MaxSubscribes >= 1
    BY <1>1, ServedType, Numbers DEF LiveInv, ServedCounts, Served
<1>3. /\ IsFiniteSet(BusyForwarders) /\ IsFiniteSet(BusyEntries)
      /\ Cardinality(BusyForwarders) < MaxSubscribes * Cardinality(Sessions)
      /\ Cardinality(BusyEntries) < MaxSubscribes * Cardinality(Sessions)
    <2>1. Tagged(BusyForwarders, ServedCounts) /\ Tagged(BusyEntries, ServedCounts)
        BY DEF LiveInv
    <2> HIDE DEF ServedCounts
    <2>2. IsFiniteSet(BusyForwarders)
          /\ Cardinality(BusyForwarders) < MaxSubscribes * Cardinality(Sessions)
        BY <1>2, <2>1, TagIsLeft
    <2>3. IsFiniteSet(BusyEntries)
          /\ Cardinality(BusyEntries) < MaxSubscribes * Cardinality(Sessions)
        BY <1>2, <2>1, TagIsLeft
    <2> QED
        BY <2>2, <2>3
<1>4. /\ MaxSubscribes * Cardinality(Sessions) \in Nat
      /\ Cardinality(BusyForwarders) \in Nat /\ Cardinality(BusyEntries) \in Nat
    BY <1>3, PoolsSuffice, FS_CardinalityType, Numbers
<1>5. /\ IsFiniteSet(Forwarders) => Cardinality(BusyForwarders) < Cardinality(Forwarders)
      /\ IsFiniteSet(Entries) => Cardinality(BusyEntries) < Cardinality(Entries)
    <2> DEFINE n == MaxSubscribes * Cardinality(Sessions)
    <2>1. /\ n \in Nat /\ Cardinality(BusyForwarders) < n /\ Cardinality(BusyEntries) < n
          /\ Cardinality(Entries) >= n /\ Cardinality(Forwarders) >= n
        BY <1>3, <1>4, PoolsSuffice
    <2> HIDE DEF n
    <2>2. ASSUME IsFiniteSet(Forwarders)
          PROVE  Cardinality(BusyForwarders) < Cardinality(Forwarders)
        <3>1. Cardinality(Forwarders) \in Nat
            BY <2>2, FS_CardinalityType
        <3> QED
            BY <1>4, <2>1, <3>1
    <2>3. ASSUME IsFiniteSet(Entries)
          PROVE  Cardinality(BusyEntries) < Cardinality(Entries)
        <3>1. Cardinality(Entries) \in Nat
            BY <2>3, FS_CardinalityType
        <3> QED
            BY <1>4, <2>1, <3>1
    <2> QED
        BY <2>2, <2>3
<1>6. /\ BusyForwarders \in SUBSET Forwarders /\ BusyEntries \in SUBSET Entries
    BY DEF BusyForwarders, BusyEntries
<1>7. (\E f \in Forwarders : f \notin BusyForwarders)
      /\ (\E e \in Entries : e \notin BusyEntries)
    BY <1>3, <1>5, <1>6, OneIsFree
<1> QED
    BY <1>7 DEF BusyForwarders, BusyEntries

\* The session after spawn_forwarder, whose forwarder is f.
Fed(s, f) == [session[s] EXCEPT !.pc = "open", !.handle = f]
Lease(s, e, pos) == [NoForwarder EXCEPT !.state = "run", !.entry = e, !.owner = s,
                                        !.pos = pos]

LEMMA ForwardStarts ==
    ASSUME LiveInv, NEW s \in Sessions, Waiting(s), NEW e \in Entries,
           NEW pos \in Frames, Forward(s, e, pos)
    PROVE  \E f \in Forwarders :
              /\ Free(f)
              /\ session' = [session EXCEPT ![s] = Fed(s, f)]
              /\ forwarder' \in [Forwarders -> Forwarder]
              /\ forwarder'[f] = Lease(s, e, pos)
              /\ \A g \in Forwarders : g # f => forwarder'[g] = forwarder[g]
              /\ BusyForwarders' = BusyForwarders \cup {f} /\ f \notin BusyForwarders
<1>1. PICK f \in Forwarders : Free(f) /\ f = CHOOSE g \in Forwarders : Free(g)
    BY OneToSpare
<1>2. /\ forwarder' = [forwarder EXCEPT ![f] = Lease(s, e, pos)]
      /\ session' = [session EXCEPT ![s].pc = "open", ![s].handle = f]
    BY <1>1 DEF Forward, Lease
<1>3. forwarder \in [Forwarders -> Forwarder] /\ session \in [Sessions -> Session]
    BY Types DEF LiveInv
<1>4. session' = [session EXCEPT ![s] = Fed(s, f)]
    BY <1>2, <1>3 DEF Fed
<1>5. Lease(s, e, pos) \in Forwarder /\ Lease(s, e, pos).state = "run"
    BY DEF Lease, NoForwarder, Forwarder
<1>6. /\ forwarder' \in [Forwarders -> Forwarder]
      /\ forwarder'[f] = Lease(s, e, pos)
      /\ \A g \in Forwarders : g # f => forwarder'[g] = forwarder[g]
    BY <1>1, <1>2, <1>3, <1>5
<1>7. ~Free(f)' /\ \A g \in Forwarders : g # f => Free(g)' = Free(g)
    BY <1>5, <1>6 DEF Free
<1>8. BusyForwarders' = BusyForwarders \cup {f} /\ f \notin BusyForwarders
    BY <1>1, <1>7 DEF BusyForwarders
<1> QED
    BY <1>1, <1>4, <1>6, <1>8

\* Its subscription is served now, and counts for a forwarder and an encoder.
LEMMA ForwardServes ==
    ASSUME LiveInv, NEW s \in Sessions, Waiting(s), NEW f \in Forwarders,
           session' = [session EXCEPT ![s] = Fed(s, f)]
    PROVE  /\ session' \in [Sessions -> Session] /\ session'[s].pc = "open"
           /\ \A r \in Sessions : r # s => session'[r] = session[r]
           /\ \A r \in Sessions : Len(session'[r].queue) <= SinkCapacity
           /\ WaitingIsCounted'
           /\ \A r \in Sessions : ServedCounts[r] <= ServedCounts'[r]
           /\ ServedCounts \in [Sessions -> Int] /\ ServedCounts' \in [Sessions -> Int]
           /\ ServedCounts[s] < ServedCounts'[s]
           /\ ServedCounts'[s] \in 1 .. MaxSubscribes
<1>1. /\ Fed(s, f) \in Session /\ Len(Fed(s, f).queue) <= SinkCapacity
      /\ Fed(s, f).pc = "open" /\ Fed(s, f).subscribes = session[s].subscribes
    BY Written DEF LiveInv, Fed, Session
<1>2. session[s].subscribes \in 1 .. MaxSubscribes
    BY DEF LiveInv, WaitingIsCounted
<1>3. /\ Fits(Fed(s, f)) /\ Served(s) < ServedBy(Fed(s, f))
      /\ ServedBy(Fed(s, f)) \in 1 .. MaxSubscribes /\ Served(s) \in Int
    BY <1>1, <1>2, Numbers DEF Fits, Served, ServedBy
<1>4. Served(s) <= ServedBy(Fed(s, f))
    BY <1>3, Numbers
<1> QED
    BY <1>1, <1>3, <1>4, SessionMoves DEF LiveInv

\* The tags over a step that starts task x for s.
LEMMA TagsKeptAndGrown ==
    ASSUME NEW X, NEW x, x \notin X, Tagged(X, ServedCounts), NEW s \in Sessions,
           ServedCounts \in [Sessions -> Int], ServedCounts' \in [Sessions -> Int],
           \A r \in Sessions : ServedCounts[r] <= ServedCounts'[r],
           ServedCounts[s] < ServedCounts'[s],
           ServedCounts'[s] \in 1 .. MaxSubscribes,
           NEW Y \in SUBSET (X \cup {x})
    PROVE  Tagged(Y, ServedCounts')
<1> DEFINE served == ServedCounts
           more == ServedCounts'
<1> HIDE DEF served, more
<1>1. /\ served \in [Sessions -> Int] /\ more \in [Sessions -> Int]
      /\ \A r \in Sessions : served[r] <= more[r]
      /\ served[s] < more[s] /\ more[s] \in 1 .. MaxSubscribes
      /\ Tagged(X, served)
    BY DEF served, more
<1>2. Tagged(Y, more)
    BY <1>1, TagsGrow
<1> QED
    BY <1>2 DEF more

LEMMA ReuseStep ==
    ASSUME LiveInv, NEW s \in Sessions, Reuse(s)
    PROVE  LiveInv'
<1> DEFINE e == hub.entry
           pos == Len(encoder[e].out)
<1>0. /\ Waiting(s) /\ ~At(s, "connect") /\ e \in Entries /\ hub.lock = None
      /\ Forward(s, e, pos)
    BY Types DEF LiveInv, Reuse, Waiting, At
<1>1. pos \in Frames
    <2>1. /\ encoder[e] \in Encoder /\ Len(log) \in 0 .. MaxLog
          /\ Len(encoder[e].out) <= encoder[e].pos /\ encoder[e].pos <= Len(log)
        BY <1>0, Types DEF LiveInv, EncodersRead
    <2>2. encoder[e].out \in Seq(1 .. MaxLog) /\ encoder[e].pos \in Nat
        BY <2>1, Numbers DEF Encoder, Frames
    <2>3. Len(encoder[e].out) \in Nat
        BY <2>2
    <2> QED
        BY <2>1, <2>2, <2>3, Numbers DEF Frames
<1>2. encoder[e].state = "run"
    <2>1. PICK g \in Forwarders : forwarder[g].entry = e
        BY DEF Reuse, Leases
    <2>2. ~Free(g)
        <3>1. e # None
            BY DEF Reuse
        <3> QED
            BY <2>1, <3>1 DEF LiveInv, LeasesFollowHub, NoForwarder
    <2> QED
        BY <2>2, LeaseOf DEF Leased
<1> HIDE DEF pos
<1>3. PICK f \in Forwarders :
        /\ Free(f) /\ session' = [session EXCEPT ![s] = Fed(s, f)]
        /\ forwarder' \in [Forwarders -> Forwarder]
        /\ forwarder'[f] = Lease(s, e, pos)
        /\ \A g \in Forwarders : g # f => forwarder'[g] = forwarder[g]
        /\ BusyForwarders' = BusyForwarders \cup {f} /\ f \notin BusyForwarders
    BY <1>0, <1>1, ForwardStarts
<1>4. /\ session' \in [Sessions -> Session] /\ session'[s].pc = "open"
      /\ \A r \in Sessions : r # s => session'[r] = session[r]
      /\ \A r \in Sessions : Len(session'[r].queue) <= SinkCapacity
      /\ WaitingIsCounted'
      /\ \A r \in Sessions : ServedCounts[r] <= ServedCounts'[r]
      /\ ServedCounts \in [Sessions -> Int] /\ ServedCounts' \in [Sessions -> Int]
      /\ ServedCounts[s] < ServedCounts'[s]
      /\ ServedCounts'[s] \in 1 .. MaxSubscribes
    BY <1>0, <1>3, ForwardServes
<1>5. UNCHANGED <<chain, head, emitting, log, hub, encoder, faults>>
    BY DEF Reuse, watchers
<1>6. TypeOK'
    BY <1>3, <1>4, <1>5 DEF LiveInv, TypeOK, Forwarder, Session
<1>7. LockIsHeld'
    BY <1>0, <1>4, <1>5 DEF LiveInv, LockIsHeld, At
<1>8. LogIsBounded' /\ EncodersRead'
    BY <1>5 DEF LiveInv, LogIsBounded, Pending, EncodersRead
<1>9. ASSUME NEW g \in Forwarders
      PROVE  IF Free(g)' THEN forwarder'[g] = NoForwarder ELSE Leased(g)'
    <2>1. CASE g = f
        <3>1. /\ forwarder'[g].entry = e /\ forwarder'[g].owner = s
              /\ forwarder'[g].state = "run"
            BY <1>3, <2>1 DEF Lease, NoForwarder
        <3>2. e # None
            BY DEF Reuse
        <3> QED
            BY <1>0, <1>2, <1>5, <3>1, <3>2 DEF Free, Leased
    <2>2. CASE g # f
        BY <1>3, <1>5, <2>2 DEF LiveInv, LeasesFollowHub, Free, Leased
    <2> QED
        BY <2>1, <2>2
<1>10. LeasesFollowHub'
    BY <1>9 DEF LeasesFollowHub, NoForwarder
<1>11. Tagged(BusyEntries', ServedCounts')
    <2>1. BusyEntries' = BusyEntries
        BY <1>5 DEF BusyEntries
    <2> QED
        BY <1>4, <1>6, <2>1, TagsKept DEF LiveInv
<1>12. Tagged(BusyForwarders', ServedCounts')
    BY <1>3, <1>4, TagsKeptAndGrown DEF LiveInv
<1>13. Tagged(BusyEntries, ServedCounts)' /\ Tagged(BusyForwarders, ServedCounts)'
    BY <1>11, <1>12 DEF Tagged
<1> QED
    BY <1>4, <1>6, <1>7, <1>8, <1>10, <1>13 DEF LiveInv

LEMMA ConnectStep ==
    ASSUME LiveInv, NEW s \in Sessions, Connect(s)
    PROVE  LiveInv'
<1> DEFINE new == [session[s] EXCEPT !.pc = "connect"]
<1>0. /\ session \in [Sessions -> Session] /\ At(s, "subscribe") /\ hub.lock = None
      /\ hub \in [lock: Sessions \cup {None}, entry: Entries \cup {None}]
      /\ None \notin Sessions
    BY Types, LiveFeedNumbers DEF LiveInv, Connect
<1>1. session' = [session EXCEPT ![s] = new]
    BY <1>0 DEF Connect, Goto
<1>2. /\ hub' = [hub EXCEPT !.lock = s]
      /\ UNCHANGED <<chain, head, emitting, log, encoder, forwarder, faults>>
    BY DEF Connect, watchers
<1>3. /\ new \in Session /\ Len(new.queue) <= SinkCapacity
      /\ new.subscribes = session[s].subscribes /\ new.pc = "connect"
    BY Written DEF LiveInv, Session
<1> HIDE DEF new
<1>4. Fits(new) /\ Served(s) <= ServedBy(new)
    BY <1>0, <1>3, Written, Numbers
       DEF LiveInv, WaitingIsCounted, Fits, Served, Waiting, ServedBy, At
<1>5. /\ session' \in [Sessions -> Session] /\ session'[s] = new
      /\ \A r \in Sessions : r # s => session'[r] = session[r]
      /\ \A r \in Sessions : Len(session'[r].queue) <= SinkCapacity
      /\ WaitingIsCounted'
      /\ \A r \in Sessions : ServedCounts[r] <= ServedCounts'[r]
    BY <1>1, <1>4, SessionMoves DEF LiveInv
<1>6. /\ hub' \in [lock: Sessions \cup {None}, entry: Entries \cup {None}]
      /\ hub'.lock = s /\ hub'.entry = hub.entry
    BY <1>0, <1>2
<1>7. TypeOK'
    BY <1>2, <1>5, <1>6 DEF LiveInv, TypeOK, Session
<1>8. LockIsHeld'
    BY <1>0, <1>3, <1>5, <1>6 DEF LiveInv, LockIsHeld, At
<1>9. LeasesFollowHub'
    <2>1. \A f \in Forwarders : Free(f)
        <3> SUFFICES ASSUME NEW f \in Forwarders, ~Free(f) PROVE FALSE
            OBVIOUS
        <3>1. Leased(f) /\ f \in Leases(hub.entry)
            BY LeaseOf DEF Leased, Leases
        <3> QED
            BY <3>1 DEF Connect, Leased
    <2> QED
        BY <1>2, <2>1 DEF LiveInv, LeasesFollowHub, Free
<1>10. LogIsBounded' /\ EncodersRead'
    BY <1>2 DEF LiveInv, LogIsBounded, Pending, EncodersRead
<1>11. BusyEntries' = BusyEntries /\ BusyForwarders' = BusyForwarders
    BY <1>2 DEF BusyEntries, BusyForwarders, Free
<1> QED
    BY <1>5, <1>7, <1>8, <1>9, <1>10, <1>11, TagsOfMoves DEF LiveInv

\* The hub is locked: nobody holds a lease.
LEMMA NobodyLeases ==
    ASSUME LiveInv, NEW s \in Sessions, At(s, "connect")
    PROVE  hub.lock = s /\ \A f \in Forwarders : Free(f)
<1>1. hub.lock = s /\ s # None
    BY LiveFeedNumbers DEF LiveInv, LockIsHeld
<1> QED
    BY <1>1, LeaseOf DEF Leased

LEMMA ConnectedStep ==
    ASSUME LiveInv, NEW s \in Sessions, Connected(s)
    PROVE  LiveInv'
<1> DEFINE new == [state |-> "run", pos |-> Len(log), out |-> <<>>]
<1>0. /\ Waiting(s) /\ At(s, "connect") /\ hub.lock = s
      /\ \A f \in Forwarders : Free(f)
    BY NobodyLeases DEF Connected, Waiting, At
<1>1. PICK e \in Entries : /\ encoder[e].state = "free"
                           /\ e = CHOOSE d \in Entries : encoder[d].state = "free"
    BY <1>0, OneToSpare
<1>2. /\ encoder' = [encoder EXCEPT ![e] = new]
      /\ hub' = [lock |-> None, entry |-> e] /\ Forward(s, e, 0)
      /\ UNCHANGED <<chain, head, emitting, log, faults>>
    BY <1>1 DEF Connected, watchers
<1>3. /\ Len(log) \in Nat /\ Len(log) \in Frames /\ 0 \in Frames
      /\ encoder \in [Entries -> Encoder]
    BY Types, Numbers DEF LiveInv, Frames
<1>4. /\ new \in Encoder /\ new.state = "run" /\ new.pos = Len(log)
      /\ Len(new.out) <= new.pos
    <2>1. <<>> \in Seq(1 .. MaxLog) /\ Len(<<>>) = 0
        OBVIOUS
    <2> QED
        BY <1>3, <2>1 DEF Encoder
<1> HIDE DEF new
<1>5. /\ encoder' \in [Entries -> Encoder] /\ encoder'[e] = new
      /\ \A d \in Entries : d # e => encoder'[d] = encoder[d]
    BY <1>1, <1>2, <1>3, <1>4
<1>6. PICK f \in Forwarders :
        /\ Free(f) /\ session' = [session EXCEPT ![s] = Fed(s, f)]
        /\ forwarder' \in [Forwarders -> Forwarder]
        /\ forwarder'[f] = Lease(s, e, 0)
        /\ \A g \in Forwarders : g # f => forwarder'[g] = forwarder[g]
        /\ BusyForwarders' = BusyForwarders \cup {f} /\ f \notin BusyForwarders
    BY <1>0, <1>1, <1>2, <1>3, ForwardStarts, ZenonT(60)
<1>7. /\ session' \in [Sessions -> Session] /\ session'[s].pc = "open"
      /\ \A r \in Sessions : r # s => session'[r] = session[r]
      /\ \A r \in Sessions : Len(session'[r].queue) <= SinkCapacity
      /\ WaitingIsCounted'
      /\ \A r \in Sessions : ServedCounts[r] <= ServedCounts'[r]
      /\ ServedCounts \in [Sessions -> Int] /\ ServedCounts' \in [Sessions -> Int]
      /\ ServedCounts[s] < ServedCounts'[s]
      /\ ServedCounts'[s] \in 1 .. MaxSubscribes
    BY <1>0, <1>6, ForwardServes
<1>8. hub' \in [lock: Sessions \cup {None}, entry: Entries \cup {None}]
    BY <1>1, <1>2
<1>9. TypeOK'
    BY <1>2, <1>5, <1>6, <1>7, <1>8 DEF LiveInv, TypeOK, Forwarder, Session, Encoder
<1>10. LockIsHeld'
    <2>1. hub'.lock = None /\ None \notin Sessions
        BY <1>2, LiveFeedNumbers
    <2> QED
        BY <1>0, <1>7, <2>1 DEF LiveInv, LockIsHeld, At
<1>11. LogIsBounded'
    BY <1>2 DEF LiveInv, LogIsBounded, Pending
<1>12. EncodersRead'
    BY <1>2, <1>3, <1>4, <1>5 DEF LiveInv, EncodersRead
<1>13. ASSUME NEW g \in Forwarders
       PROVE  IF Free(g)' THEN forwarder'[g] = NoForwarder ELSE Leased(g)'
    <2>1. CASE g = f
        <3>1. /\ forwarder'[g].entry = e /\ forwarder'[g].owner = s
              /\ forwarder'[g].state = "run"
            BY <1>6, <2>1 DEF Lease, NoForwarder
        <3>2. e # None /\ hub'.entry = e /\ hub'.lock = None
            BY <1>1, <1>2, LiveFeedNumbers
        <3> QED
            BY <1>4, <1>5, <3>1, <3>2 DEF Free, Leased
    <2>2. CASE g # f
        BY <1>0, <1>6, <2>2 DEF LiveInv, LeasesFollowHub, Free
    <2> QED
        BY <2>1, <2>2
<1>14. LeasesFollowHub'
    BY <1>13 DEF LeasesFollowHub, NoForwarder
<1>15. Tagged(BusyEntries', ServedCounts')
    <2>1. BusyEntries' = BusyEntries \cup {e} /\ e \notin BusyEntries
        BY <1>1, <1>4, <1>5 DEF BusyEntries
    <2> QED
        BY <1>7, <2>1, TagsKeptAndGrown DEF LiveInv
<1>16. Tagged(BusyForwarders', ServedCounts')
    BY <1>6, <1>7, TagsKeptAndGrown DEF LiveInv
<1>17. Tagged(BusyEntries, ServedCounts)' /\ Tagged(BusyForwarders, ServedCounts)'
    BY <1>15, <1>16 DEF Tagged
<1> QED
    BY <1>7, <1>9, <1>10, <1>11, <1>12, <1>14, <1>17 DEF LiveInv

LEMMA ConnectFailsStep ==
    ASSUME LiveInv, NEW s \in Sessions, ConnectFails(s)
    PROVE  LiveInv'
<1> DEFINE new == [session[s] EXCEPT !.pc = "error"]
<1>0. /\ session \in [Sessions -> Session] /\ At(s, "connect") /\ hub.lock = s
      /\ hub \in [lock: Sessions \cup {None}, entry: Entries \cup {None}]
      /\ None \notin Sessions /\ \A f \in Forwarders : Free(f)
    BY Types, LiveFeedNumbers, NobodyLeases DEF LiveInv, ConnectFails
<1>1. session' = [session EXCEPT ![s] = new]
    BY <1>0 DEF ConnectFails, Goto
<1>2. /\ hub' = [hub EXCEPT !.lock = None] /\ MayFail
      /\ UNCHANGED <<chain, head, emitting, log, encoder, forwarder>>
    BY DEF ConnectFails, watchers
<1>3. /\ new \in Session /\ Len(new.queue) <= SinkCapacity
      /\ new.subscribes = session[s].subscribes /\ new.pc = "error"
    BY Written DEF LiveInv, Session
<1> HIDE DEF new
<1>4. Fits(new) /\ Served(s) <= ServedBy(new)
    BY <1>0, <1>3, Written, Numbers DEF LiveInv, Fits, Served, Waiting, ServedBy, At
<1>5. /\ session' \in [Sessions -> Session] /\ session'[s] = new
      /\ \A r \in Sessions : r # s => session'[r] = session[r]
      /\ \A r \in Sessions : Len(session'[r].queue) <= SinkCapacity
      /\ WaitingIsCounted'
      /\ \A r \in Sessions : ServedCounts[r] <= ServedCounts'[r]
    BY <1>1, <1>4, SessionMoves DEF LiveInv
<1>6. /\ hub' \in [lock: Sessions \cup {None}, entry: Entries \cup {None}]
      /\ hub'.lock = None /\ faults' \in 0 .. MaxFaults
    BY <1>0, <1>2, Types, Numbers DEF LiveInv, MayFail
<1>7. TypeOK'
    BY <1>2, <1>5, <1>6 DEF LiveInv, TypeOK, Session
<1>8. LockIsHeld'
    BY <1>0, <1>3, <1>5, <1>6 DEF LiveInv, LockIsHeld, At
<1>9. LeasesFollowHub'
    BY <1>0, <1>2 DEF LiveInv, LeasesFollowHub, Free
<1>10. LogIsBounded' /\ EncodersRead'
    BY <1>2 DEF LiveInv, LogIsBounded, Pending, EncodersRead
<1>11. BusyEntries' = BusyEntries /\ BusyForwarders' = BusyForwarders
    BY <1>2 DEF BusyEntries, BusyForwarders, Free
<1> QED
    BY <1>5, <1>7, <1>8, <1>9, <1>10, <1>11, TagsOfMoves DEF LiveInv

------------------------------------------------------------------------------
(***************************************************************************)
(* The theorems.                                                           *)
(***************************************************************************)

LEMMA InitHolds == Init => LiveInv
<1> SUFFICES ASSUME Init PROVE LiveInv
    OBVIOUS
<1> USE DEF Init
<1>1. /\ <<>> \in Seq(Frames) /\ <<>> \in Seq(1 .. MaxLog) /\ Len(<<>>) = 0
      /\ 0 \in Frames /\ 0 \in 0 .. MaxBlock
    BY Numbers DEF Frames
<1>2. TypeOK
    <2>1. NoEncoder \in Encoder /\ NoForwarder \in Forwarder
        BY <1>1 DEF NoEncoder, Encoder, NoForwarder, Forwarder
    <2>2. NewSession \in Session /\ NewSession.queue = <<>>
        <3>1. 0 \in 0 .. MaxSubscribes + 1 /\ 0 \in 0 .. HeartbeatDropLimit
            BY Numbers
        <3> QED
            BY <1>1, <3>1 DEF NewSession, Session
    <2>3. /\ chain \in [best: 0 .. MaxBlock, final: 0 .. MaxBlock] /\ head \in 0 .. MaxBlock
          /\ emitting \in [{"best", "final"} -> {None} \cup Emission]
          /\ log \in Seq(Emission) /\ Len(log) <= MaxLog /\ faults \in 0 .. MaxFaults
        BY <1>1, Numbers DEF Emission
    <2>4. /\ encoder \in [Entries -> Encoder] /\ forwarder \in [Forwarders -> Forwarder]
          /\ session \in [Sessions -> Session]
          /\ \A s \in Sessions : Len(session[s].queue) <= SinkCapacity
        BY <1>1, <2>1, <2>2, Numbers
    <2>5. hub \in [lock: Sessions \cup {None}, entry: Entries \cup {None}]
        OBVIOUS
    <2> QED
        BY <2>3, <2>4, <2>5 DEF TypeOK, Emission, Encoder, Forwarder, Session
<1>3. LogIsBounded
    BY <1>1 DEF LogIsBounded, Pending
<1>4. EncodersRead
    BY <1>1 DEF EncodersRead, NoEncoder
<1>5. LockIsHeld /\ WaitingIsCounted
    BY LiveFeedNumbers DEF LockIsHeld, At, NewSession, WaitingIsCounted, Waiting
<1>6. LeasesFollowHub
    BY DEF LeasesFollowHub, Free, NoForwarder
<1>7. BusyEntries = {} /\ BusyForwarders = {}
    BY DEF BusyEntries, BusyForwarders, Free, NoEncoder, NoForwarder
<1>8. Tagged({}, ServedCounts)
    <2>1. [x \in {} |-> x] \in [{} -> Tags]
        OBVIOUS
    <2> QED
        BY <2>1 DEF Tagged
<1> QED
    BY <1>2, <1>3, <1>4, <1>5, <1>6, <1>7, <1>8 DEF LiveInv

LEMMA StepHolds == LiveInv /\ [Next]_vars => LiveInv'
<1> SUFFICES ASSUME LiveInv, [Next]_vars PROVE LiveInv'
    OBVIOUS
<1>1. CASE BestArrives \/ FinalArrives
    BY <1>1, ArrivalSteps
<1>2. CASE Emits \/ \E t \in {"best", "final"} : EmitSkipped(t)
    BY <1>2, EmissionSteps DEF Emits
<1>3. CASE \E e \in Entries : EncoderRuns(e)
    BY <1>3, EncodeStep, EncoderEndsStep DEF EncoderRuns
<1>4. CASE \E f \in Forwarders : ForwarderRuns(f)
    BY <1>4, ReceiveStep, SendStep, ForwarderEndsStep DEF ForwarderRuns
<1>5. ASSUME NEW s \in Sessions, SinkRuns(s) \/ Heartbeat(s)
      PROVE  LiveInv'
    BY <1>5, SinkSteps, HeartbeatStep DEF SinkRuns
<1>6. ASSUME NEW s \in Sessions, ReceiverRuns(s) \/ ConnectFails(s)
      PROVE  LiveInv'
    BY <1>6, ReuseStep, ConnectStep, ConnectedStep, ConnectFailsStep,
       ReceiverQuietSteps, HandleStep DEF ReceiverRuns
<1>7. ASSUME NEW s \in Sessions, ClientActs(s)
      PROVE  LiveInv'
    BY <1>7, SubscribeStep, HandleStep, ReceiverQuietSteps, ClientSteps DEF ClientActs
<1>8. CASE UNCHANGED vars
    <2>1. TypeOK'
        BY <1>8 DEF LiveInv, TypeOK, vars
    <2>2. LogIsBounded' /\ EncodersRead'
        BY <1>8 DEF LiveInv, LogIsBounded, Pending, EncodersRead, vars
    <2> QED
        BY <1>8, <2>1, <2>2, HubStays DEF LiveInv, vars
<1> QED
    BY <1>1, <1>2, <1>3, <1>4, <1>5, <1>6, <1>7, <1>8 DEF Next

\* The inductive invariant holds.
THEOREM Invariance == Spec => []LiveInv
<1> QED
    BY InitHolds, StepHolds, PTL DEF Spec

\* Types, queues and counters stay within their bounds: a block is emitted at
\* most twice, and the ring positions and the sink stay in range.
THEOREM TypeCorrect == Spec => []TypeOK
<1>1. LiveInv => TypeOK
    BY DEF LiveInv
<1> QED
    BY <1>1, Invariance, PTL

\* Whoever holds a lease is fed by a running encoder, the same for all, however
\* subscriptions, drops and connections to the provider interleave
\* (EncoderHub::subscribe, EncoderEntry::drop).
THEOREM LeasesHold == Spec => []LeasesShareOneEncoder
<1>1. LiveInv => LeasesShareOneEncoder
    <2> SUFFICES ASSUME LiveInv PROVE LeasesShareOneEncoder
        OBVIOUS
    <2> DEFINE Shared == {e \in Entries : Leases(e) # {}}
    <2>1. \A f \in Forwarders : ~Free(f) => encoder[forwarder[f].entry].state = "run"
        BY LeaseOf DEF Leased
    <2>2. Shared \subseteq {hub.entry}
        <3> SUFFICES ASSUME NEW e \in Entries, NEW f \in Forwarders,
                            forwarder[f].entry = e
                     PROVE  e = hub.entry
            BY DEF Leases
        <3>1. ~Free(f)
            BY LiveFeedNumbers DEF LiveInv, LeasesFollowHub, NoForwarder
        <3> QED
            BY <3>1, LeaseOf DEF Leased
    <2>3. Cardinality(Shared) <= 1
        <3>1. IsFiniteSet({hub.entry}) /\ Cardinality({hub.entry}) = 1
            BY FS_Singleton
        <3> QED
            BY <2>2, <3>1, FS_Subset
    <2> QED
        BY <2>1, <2>3 DEF LeasesShareOneEncoder
<1> QED
    BY <1>1, Invariance, PTL

\* A session that waits for the hub always finds an identity for its forwarder
\* and one for its encoder, however many tasks wait to be dropped: the pools of
\* the model cost no behaviour.
THEOREM PoolsLast ==
    Spec => [](\A s \in Sessions : Waiting(s) =>
                 /\ \E f \in Forwarders : Free(f)
                 /\ \E e \in Entries : encoder[e].state = "free")
<1>1. LiveInv => \A s \in Sessions : Waiting(s) =>
                    /\ \E f \in Forwarders : Free(f)
                    /\ \E e \in Entries : encoder[e].state = "free"
    BY OneToSpare
<1> QED
    BY <1>1, Invariance, PTL
=============================================================================
