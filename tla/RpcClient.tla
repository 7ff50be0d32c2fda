------------------------------ MODULE RpcClient ------------------------------
(***************************************************************************)
(* One network's RpcClient: the connection slot shared by the API callers  *)
(* and the watcher task, the published finalized head, and the three       *)
(* caches of what a runtime declares (identity, :code fingerprint, block   *)
(* time), which a reconnect or a runtime upgrade must clear.               *)
(*                                                                         *)
(* Block numbers are abstracted to the runtime the block executes under: a *)
(* finalized head is the runtime of some finalized block, and the chain    *)
(* finalizes blocks for ever.  A step is what runs between two awaits.     *)
(* What BlockReads has too is named for the client here: RpcProofs extends *)
(* both modules.                                                           *)
(***************************************************************************)
EXTENDS Naturals, FiniteSets

CONSTANTS
    Callers,      \* API handlers running at the same time
    Conns,        \* identities of WebSocket connections, reused once dropped
    MaxRuntime,   \* runtimes the chain goes through, one upgrade apart
    MaxFailures,  \* bound on faults
    Kinds,        \* kinds of calls made, out of AllKinds
    Nothing

\* One connection per other caller and one for the watcher may be held.
ASSUME ConnsSuffice ==
    /\ IsFiniteSet(Callers) /\ IsFiniteSet(Conns)
    /\ Cardinality(Conns) > Cardinality(Callers)
ASSUME ClientParameters ==
    /\ MaxRuntime \in Nat \ {0} /\ MaxFailures \in Nat
    /\ Nothing \notin Callers \cup Conns \cup 1 .. MaxRuntime

Runtimes == 1 .. MaxRuntime
Cached == {"identity", "code", "block_time"}
\* "plain" stands for every call that is not cached by the client itself.
AllKinds == Cached \cup {"plain"}
ASSUME KindsKnown == Kinds \subseteq AllKinds

VARIABLES
    runtime,    \* the runtime of the newest finalized block
    dead,       \* connections the node no longer answers on
    slot,       \* RpcClient::inner
    lock,       \* the task holding inner's write guard across an await
    head,       \* the finalized_head watch
    caches,     \* runtime_identity_cache, runtime_code_cache, block_time_secs_cache
    caller,     \* where each API handler is
    watcher,    \* where the supervisor task is
    failures    \* faults so far

clientVars == <<runtime, dead, slot, lock, head, caches, caller, watcher, failures>>

CallerPcs == {"idle", "read_slot", "dial", "invalidate", "clear_block_time",
              "clear_identity", "clear_code", "call", "store"}
WatcherPcs == {"off", "connect", "streams", "check", "clear_code",
               "clear_block_time", "sleep"}

ClientTypeOK ==
    /\ runtime \in Runtimes /\ dead \subseteq Conns
    /\ slot \in Conns \cup {Nothing} /\ lock \in Callers \cup {Nothing}
    /\ head \in Runtimes \cup {Nothing}
    /\ caches \in [Cached -> Runtimes \cup {Nothing}]
    /\ caller \in [Callers -> [pc: CallerPcs, kind: AllKinds, retried: BOOLEAN,
                               conn: Conns \cup {Nothing},
                               value: Runtimes \cup {Nothing}]]
    /\ watcher \in [pc: WatcherPcs, conn: Conns \cup {Nothing}, seen: Runtimes]
    /\ failures \in 0 .. MaxFailures
    /\ \A p \in Callers : lock = p <=>
           caller[p].pc \in {"clear_block_time", "clear_identity", "clear_code"}

IdleCaller == [pc |-> "idle", kind |-> "plain", retried |-> FALSE,
               conn |-> Nothing, value |-> Nothing]

\* RpcClient::new, then warm_up or the first caller.
ClientInit ==
    /\ runtime = 1 /\ dead = {} /\ slot = Nothing /\ lock = Nothing /\ head = Nothing
    /\ caches = [k \in Cached |-> Nothing]
    /\ caller = [p \in Callers |-> IdleCaller]
    /\ watcher = [pc |-> "off", conn |-> Nothing, seen |-> 1]
    /\ failures = 0

MayBreak == failures < MaxFailures /\ failures' = failures + 1

------------------------------------------------------------------------------
(***************************************************************************)
(* The node, outside the program: it upgrades and drops connections.       *)
(***************************************************************************)

Upgrade ==
    /\ runtime < MaxRuntime /\ runtime' = runtime + 1
    /\ UNCHANGED <<dead, slot, lock, head, caches, caller, watcher, failures>>

\* A connection nobody refers to any more may serve a new dial.
Unused == Conns \ ({slot, watcher.conn} \cup {caller[p].conn : p \in Callers})
NewConn == CHOOSE c \in Unused : TRUE

DropConnection(c) ==
    /\ c \notin dead \cup Unused /\ MayBreak /\ dead' = dead \cup {c}
    /\ UNCHANGED <<runtime, slot, lock, head, caches, caller, watcher>>

------------------------------------------------------------------------------
(***************************************************************************)
(* API callers.                                                            *)
(***************************************************************************)

Goto(p, pc) == caller' = [caller EXCEPT ![p].pc = pc]
Leave(p) == caller' = [caller EXCEPT ![p] = IdleCaller]

\* ensure_watcher_running: the flag lets one supervisor start, and only one.
EnsureWatcherRunning ==
    watcher' = IF watcher.pc = "off" THEN [watcher EXCEPT !.pc = "connect"]
               ELSE watcher

\* warm_up at boot: the supervisor starts with no caller.
WarmUp ==
    /\ watcher.pc = "off" /\ EnsureWatcherRunning
    /\ UNCHANGED <<runtime, dead, slot, lock, head, caches, caller, failures>>

\* A read of the head path: a cached answer changes nothing, a miss goes on.
StartCall(p) ==
    /\ caller[p].pc = "idle"
    /\ \E k \in Kinds :
        /\ k \in Cached => caches[k] = Nothing
        /\ caller' = [caller EXCEPT ![p].pc = "read_slot", ![p].kind = k]
    /\ UNCHANGED <<runtime, dead, slot, lock, head, caches, watcher, failures>>

UseSlot(p) == caller' = [caller EXCEPT ![p].pc = "call", ![p].conn = slot]

\* connect_or_reuse, fast path: under the read guard.
ReadSlot(p) ==
    /\ caller[p].pc = "read_slot" /\ lock = Nothing
    /\ IF slot = Nothing THEN Goto(p, "dial") ELSE UseSlot(p)
    /\ UNCHANGED <<runtime, dead, slot, lock, head, caches, watcher, failures>>

\* connect_or_reuse, slow path: somebody connected before the write guard.
DialReuse(p) ==
    /\ caller[p].pc = "dial" /\ lock = Nothing /\ slot # Nothing
    /\ UseSlot(p)
    /\ UNCHANGED <<runtime, dead, slot, lock, head, caches, watcher, failures>>

\* The handshake runs under the write guard: nobody sees the slot meanwhile.
FaultyMayDial(s) == TRUE
MayDial(s) == s = Nothing

Dial(p) ==
    /\ caller[p].pc = "dial" /\ lock = Nothing /\ MayDial(slot)
    /\ slot' = NewConn /\ dead' = dead \ {NewConn}
    /\ caller' = [caller EXCEPT ![p].pc = "call", ![p].conn = NewConn]
    /\ EnsureWatcherRunning
    /\ UNCHANGED <<runtime, lock, head, caches, failures>>

\* subxt: a Transport failure of the handshake is invalidated and retried
\* once, a second one is the caller's answer.
DialFails(p) ==
    /\ caller[p].pc = "dial" /\ lock = Nothing /\ slot = Nothing /\ MayBreak
    /\ IF caller[p].retried THEN Leave(p) ELSE Goto(p, "invalidate")
    /\ UNCHANGED <<runtime, dead, slot, lock, head, caches, watcher>>

\* invalidate: the slot and the watches at once, then the caches one after
\* the other, all under the write guard.
Invalidate(p) ==
    /\ caller[p].pc = "invalidate" /\ lock = Nothing
    /\ slot' = Nothing /\ head' = Nothing /\ lock' = p
    /\ Goto(p, "clear_block_time")
    /\ UNCHANGED <<runtime, dead, caches, watcher, failures>>

Clear(k) == caches' = [caches EXCEPT ![k] = Nothing]

InvalidateCache(p) ==
    /\ \/ /\ caller[p].pc = "clear_block_time" /\ Clear("block_time")
          /\ Goto(p, "clear_identity") /\ UNCHANGED lock
       \/ /\ caller[p].pc = "clear_identity" /\ Clear("identity")
          /\ Goto(p, "clear_code") /\ UNCHANGED lock
       \/ /\ caller[p].pc = "clear_code" /\ Clear("code") /\ lock' = Nothing
          /\ caller' = [caller EXCEPT ![p].pc = "read_slot", ![p].retried = TRUE]
    /\ UNCHANGED <<runtime, dead, slot, head, watcher, failures>>

\* block_time_secs, runtime_identity, runtime_code_info and the uncached
\* reads: the node answers at its current finalized head.
CallAnswered(p) ==
    /\ caller[p].pc = "call" /\ caller[p].conn \notin dead
    /\ IF caller[p].kind \in Cached
       THEN caller' = [caller EXCEPT ![p].pc = "store", ![p].conn = Nothing,
                                     ![p].value = runtime]
       ELSE Leave(p)
    /\ UNCHANGED <<runtime, dead, slot, lock, head, caches, watcher, failures>>

\* An error or a timeout after the handshake goes to the caller as it is.
CallFails(p) ==
    /\ caller[p].pc = "call" /\ caller[p].conn \in dead
    /\ Leave(p)
    /\ UNCHANGED <<runtime, dead, slot, lock, head, caches, watcher, failures>>

Store(p) ==
    /\ caller[p].pc = "store"
    /\ caches' = [caches EXCEPT ![caller[p].kind] = caller[p].value]
    /\ Leave(p)
    /\ UNCHANGED <<runtime, dead, slot, lock, head, watcher, failures>>

------------------------------------------------------------------------------
(***************************************************************************)
(* run_watcher_supervisor.                                                 *)
(***************************************************************************)

WatchOn(c) == watcher' = [watcher EXCEPT !.pc = "streams", !.conn = c]

\* ensure_watcher_client.
WatcherConnect ==
    /\ watcher.pc = "connect" /\ lock = Nothing
    /\ IF slot # Nothing THEN WatchOn(slot) /\ UNCHANGED <<slot, dead>>
       ELSE slot' = NewConn /\ dead' = dead \ {NewConn} /\ WatchOn(NewConn)
    /\ UNCHANGED <<runtime, lock, head, caches, caller, failures>>

WatcherConnectFails ==
    /\ watcher.pc = "connect" /\ lock = Nothing /\ slot = Nothing /\ MayBreak
    /\ watcher' = [watcher EXCEPT !.pc = "sleep"]
    /\ UNCHANGED <<runtime, dead, slot, lock, head, caches, caller>>

WatcherWakes ==
    /\ watcher.pc = "sleep" /\ watcher' = [watcher EXCEPT !.pc = "connect"]
    /\ UNCHANGED <<runtime, dead, slot, lock, head, caches, caller, failures>>

\* run_finalized_head_watch: a finalized block, not older than the last one;
\* the upgrade check is skipped when no identity is cached.
Finalized(v) ==
    /\ watcher.pc = "streams" /\ watcher.conn \notin dead
    /\ v \in watcher.seen .. runtime
    /\ head' = v
    /\ watcher' = [watcher EXCEPT !.seen = v,
                      !.pc = IF caches.identity = Nothing THEN "streams" ELSE "check"]
    /\ UNCHANGED <<runtime, dead, slot, lock, caches, caller, failures>>

\* invalidate_if_spec_changed, up to the first cleared cache.
FaultySpecChanged(v) == caches.identity # Nothing /\ caches.identity > v
SpecChanged(v) == caches.identity # Nothing /\ caches.identity # v

CheckSpec ==
    /\ watcher.pc = "check" /\ watcher.conn \notin dead
    /\ IF SpecChanged(watcher.seen)
       THEN Clear("identity") /\ watcher' = [watcher EXCEPT !.pc = "clear_code"]
       ELSE watcher' = [watcher EXCEPT !.pc = "streams"] /\ UNCHANGED caches
    /\ UNCHANGED <<runtime, dead, slot, lock, head, caller, failures>>

\* block.at() failed: the check is skipped, the next block checks again.
CheckSkipped ==
    /\ watcher.pc = "check" /\ (watcher.conn \notin dead => failures < MaxFailures)
    /\ failures' = IF watcher.conn \notin dead THEN failures + 1 ELSE failures
    /\ watcher' = [watcher EXCEPT !.pc = "streams"]
    /\ UNCHANGED <<runtime, dead, slot, lock, head, caches, caller>>

ClearOthers ==
    /\ \/ /\ watcher.pc = "clear_code" /\ Clear("code")
          /\ watcher' = [watcher EXCEPT !.pc = "clear_block_time"]
       \/ /\ watcher.pc = "clear_block_time" /\ Clear("block_time")
          /\ watcher' = [watcher EXCEPT !.pc = "streams"]
    /\ UNCHANGED <<runtime, dead, slot, lock, head, caller, failures>>

\* StreamExit::Errored: the shared slot and the watches are dropped, whoever
\* connected them, and the supervisor sleeps.
FaultyDroppedSlot(s) == s
DroppedSlot(s) == Nothing

StreamErrored ==
    /\ watcher.pc = "streams" /\ watcher.conn \in dead /\ lock = Nothing
    /\ slot' = DroppedSlot(slot) /\ head' = Nothing
    /\ watcher' = [watcher EXCEPT !.pc = "sleep", !.conn = Nothing, !.seen = 1]
    /\ UNCHANGED <<runtime, dead, lock, caches, caller, failures>>

\* StreamExit::Eof: nothing is dropped, the loop goes round at once.
StreamEof ==
    /\ watcher.pc = "streams" /\ MayBreak
    /\ watcher' = [watcher EXCEPT !.pc = "connect", !.conn = Nothing, !.seen = 1]
    /\ UNCHANGED <<runtime, dead, slot, lock, head, caches, caller>>

------------------------------------------------------------------------------
CallerStep(p) ==
    ReadSlot(p) \/ DialReuse(p) \/ Dial(p) \/ Invalidate(p)
        \/ InvalidateCache(p) \/ CallAnswered(p) \/ CallFails(p) \/ Store(p)
WatcherStep ==
    WatcherConnect \/ WatcherWakes \/ CheckSpec \/ ClearOthers \/ StreamErrored
        \/ (watcher.conn \in dead /\ CheckSkipped)

ClientNext ==
    \/ Upgrade \/ WarmUp
    \/ \E c \in Conns : DropConnection(c)
    \/ \E p \in Callers : StartCall(p) \/ CallerStep(p) \/ DialFails(p)
    \/ WatcherStep \/ WatcherConnectFails \/ CheckSkipped \/ StreamEof
    \/ \E v \in Runtimes : Finalized(v)

ClientSpec == ClientInit /\ [][ClientNext]_clientVars

(***************************************************************************)
(* The runtime polls every task that is ready; main calls warm_up; the     *)
(* chain keeps finalizing blocks and the stream delivers the newest.       *)
(***************************************************************************)
Fairness ==
    /\ WF_clientVars(WarmUp) /\ WF_clientVars(WatcherStep) /\ SF_clientVars(Finalized(runtime))
    /\ \A p \in Callers : WF_clientVars(CallerStep(p))
    /\ SF_clientVars(WatcherConnect)
ClientFairSpec == ClientSpec /\ Fairness

------------------------------------------------------------------------------
(***************************************************************************)
(* Properties.                                                             *)
(***************************************************************************)

\* Callers that found the slot empty at the same time share one connection:
\* a live slot is never overwritten, it is dropped first (connect_or_reuse
\* and ensure_watcher_client check again under the write guard).
SlotNeverReplaced == [][slot # Nothing /\ slot' # Nothing => slot' = slot]_clientVars

\* Whatever connection dies, however often a handshake fails and whoever
\* invalidates, the published head comes back and follows the chain
\* (run_watcher_supervisor's contract).
HeadFollowsChain == []<>(head = runtime)

\* An identity read before an upgrade does not outlive it, even when it is
\* stored after the upgrade's block has been checked.
IdentityCatchesUp ==
    (\E k \in Runtimes : k < runtime /\ caches.identity = k)
        ~> (caches.identity \in {Nothing, runtime})

\* What the doc of subxt() says: a failure clears the slot, there is no
\* permanent bad state after an outage.  A call on the slot's dead connection
\* ends with another connection in the slot, or none.
NoPermanentBadSlot ==
    \A c \in Conns, p \in Callers :
        (slot = c /\ c \in dead /\ caller[p].conn = c)
            ~> (slot # c \/ c \notin dead)
=============================================================================
