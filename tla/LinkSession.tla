---------------------------- MODULE LinkSession ----------------------------
(***************************************************************************)
(* The doorbell-sequenced conversation of common/link_session.c: the       *)
(* link_m_* functions on the master, link_s_serve and the serve loop of    *)
(* slave/src/main.c on the slave.                                          *)
(*                                                                         *)
(* Every function of the session is a fixed sequence of blocking and       *)
(* non-blocking calls on the wire.  Script(ph) is that sequence for the    *)
(* function ph; the actions below are the calls, one action per outcome,   *)
(* so the two sides interleave between any two calls.                      *)
(***************************************************************************)
EXTENDS LinkWire, Sequences

CONSTANTS
  Exchange,     \* the exchanges the master's callers may run
  HandshakeUs,  \* LINK_HANDSHAKE_TIMEOUT_US
  CtrlUs,       \* LINK_CTRL_TIMEOUT_US
  ProbeUs,      \* handshake_timeout_us of the reconnect probe
  ResyncUs,     \* how long link_m_resync sleeps
  ServeUs,      \* timeout the slave's main loop gives link_s_serve
  WatchdogUs,   \* SLAVE_WATCHDOG_MS
  BootUs,       \* reboot to serving
  StreamBlocks, \* blocks of a throughput run (THROUGHPUT_BLOCKS)
  MayHang       \* may the slave's foreground hang?

ASSUME SessionAssumption ==
  /\ {HandshakeUs, CtrlUs, ProbeUs, ResyncUs, ServeUs, WatchdogUs, BootUs,
      StreamBlocks} \subseteq Nat \ {0}
  /\ MayHang \in BOOLEAN
  /\ Exchange \subseteq Op \cup {"PROBE"}
  /\ Op = {"HELLO", "SELFTEST", "PING", "RATE", "BULK_M2S", "BULK_S2M",
           "DUPLEX", "VERIFY_M2S", "VERIFY_S2M"}

VARIABLES
  at,      \* at[p]: the function p is in and the call of its script it is at
  ok,      \* ok[p]: the local `ok` of that function
  count,   \* count[p]: its block loop's i
  tally,   \* tally[p]: its link_bulk_result_t
  rate,    \* rate[p]: p's bulk divider
  call,    \* the master's exchange: which, its divider, how far it is
  answer,  \* what the last exchange returned to its caller
  req,     \* the request the slave is serving
  served,  \* how often the slave has taken the current exchange's request
  dog,     \* time until the slave's watchdog fires
  stuck    \* does the slave's foreground hang?

sessionVars == <<at, ok, count, tally, rate, call, answer, req, served, dog, stuck>>
vars == <<wireVars, sessionVars>>

---------------------------------------------------------------------------
(* The functions, call by call.                                            *)
(*   arm   link_rx_arm / link_rx_arm_ring                                  *)
(*   up    link_db_set(true)            down  link_db_set(false)           *)
(*   hi    link_db_wait(true, ...)      lo    link_db_wait(false, ...)     *)
(*   tx    link_tx_start .. link_tx_finish                                 *)
(*   rx    link_rx_wait                 nap   sleep_ms, or booting         *)
(*   quiet the drop, abort and rate reset at the top of link_m_resync      *)

Script ==
  [ idle           |-> <<"rest">>,
    send_ctrl      |-> <<"up", "hi", "tx", "down", "lo">>,
    recv_ctrl      |-> <<"arm", "up", "hi", "rx", "down", "lo">>,
    bulk_send      |-> <<"up", "hi", "tx", "down", "lo">>,
    bulk_recv      |-> <<"arm", "up", "rx", "hi", "down", "lo">>,
    duplex         |-> <<"arm", "up", "hi", "tx", "rx", "down", "lo">>,
    integrity_send |-> <<"up", "hi", "tx", "down", "lo">>,
    integrity_recv |-> <<"arm", "up", "hi", "rx", "down", "lo">>,
    resync         |-> <<"quiet", "nap", "lo">>,
    boot           |-> <<"nap">>,
    take_ctrl      |-> <<"hi", "arm", "up", "rx", "lo", "down">>,
    put_ctrl       |-> <<"hi", "tx", "up", "lo", "down">>,
    BULK_M2S       |-> <<"arm", "hi", "up", "rx", "lo", "down">>,
    BULK_S2M       |-> <<"hi", "tx", "up", "lo", "down">>,
    DUPLEX         |-> <<"hi", "arm", "up", "tx", "rx", "lo", "down">>,
    VERIFY_M2S     |-> <<"hi", "arm", "up", "rx", "lo", "down">>,
    VERIFY_S2M     |-> <<"hi", "tx", "up", "lo", "down">> ]

MasterPhase == {"idle", "send_ctrl", "recv_ctrl", "bulk_send", "bulk_recv",
                "duplex", "integrity_send", "integrity_recv", "resync"}
DataPhase   == {"BULK_M2S", "BULK_S2M", "DUPLEX", "VERIFY_M2S", "VERIFY_S2M"}
SlavePhase  == {"boot", "take_ctrl", "put_ctrl"} \cup DataPhase

Phase(p) == IF p = "M" THEN MasterPhase ELSE SlavePhase
Step(p) == Script[at[p].ph][at[p].i]
In(p, phases) == at[p].ph \in phases

Control == {"send_ctrl", "recv_ctrl", "take_ctrl", "put_ctrl"}
Verified == {"integrity_send", "integrity_recv", "VERIFY_M2S", "VERIFY_S2M"}
KindOf(ph) == IF ph \in Control THEN "ctrl" ELSE "bulk"

(* Blocks of one transmission, and the time it holds the wire.             *)
Blocks(ph) == IF ph \in Verified THEN 1 ELSE StreamBlocks
TxUs(p, ph) == IF ph \in Control THEN FrameUs ELSE BulkUs(Blocks(ph), rate[p])

(* `tmo` of a bulk phase.  The master budgets for one block at a time in   *)
(* the integrity functions; the slave budgets once per request, for all    *)
(* of its blocks.                                                          *)
BulkPatience(p, ph) ==
  BulkTimeout(IF ph \notin Verified THEN StreamBlocks
              ELSE IF p = "M" THEN 1 ELSE VerifyBlocks, rate[p])

DoorbellPatience(x) == IF x = "PROBE" THEN ProbeUs ELSE HandshakeUs

(* How long side p stays in call s of function ph.                         *)
Patience(p, ph, s) ==
  CASE s = "tx"  -> TxUs(p, ph)
    [] s = "nap" -> IF ph = "boot" THEN BootUs ELSE ResyncUs
    [] s = "rx"  -> IF ph \in Control THEN CtrlUs ELSE BulkPatience(p, ph)
    [] s = "hi"  -> IF ph = "take_ctrl" THEN ServeUs
                    ELSE IF ph \in {"send_ctrl", "recv_ctrl"}
                         THEN DoorbellPatience(call.x) ELSE HandshakeUs
    [] s = "lo"  -> IF ph \in {"send_ctrl", "recv_ctrl"}
                    THEN DoorbellPatience(call.x)
                    ELSE IF ph \in {"bulk_recv", "resync", "take_ctrl", "put_ctrl"}
                         THEN HandshakeUs ELSE BulkPatience(p, ph)
    [] OTHER     -> 0

(* Side p moves to call i of function ph.                                  *)
Enter(p, ph, i) ==
  /\ at' = [at EXCEPT ![p] = [ph |-> ph, i |-> i]]
  /\ left' = [left EXCEPT ![p] = Patience(p, ph, Script[ph][i])]
Skip(p, n) == Enter(p, at[p].ph, at[p].i + n)
NextCall(p) == Skip(p, 1)

---------------------------------------------------------------------------
(* Who calls what.  An exchange is a chain of && in tests/link_diag.c: the *)
(* request, the data phase if it has one, the reply if it has one.         *)

Chain(x) ==
  CASE x = "BULK_M2S"   -> <<"send_ctrl", "bulk_send", "recv_ctrl">>
    [] x = "BULK_S2M"   -> <<"send_ctrl", "bulk_recv">>
    [] x = "DUPLEX"     -> <<"send_ctrl", "duplex", "recv_ctrl">>
    [] x = "VERIFY_M2S" -> <<"send_ctrl", "integrity_send", "recv_ctrl">>
    [] x = "VERIFY_S2M" -> <<"send_ctrl", "integrity_recv", "recv_ctrl">>
    [] OTHER            -> <<"send_ctrl", "recv_ctrl">>

OpOf(x) == IF x = "PROBE" THEN "HELLO" ELSE x

(* The callers that compare the reply's op, and those that resync when     *)
(* the exchange fails.  HELLO is tried three times with a resync before    *)
(* each retry, so its last failure goes straight back to the caller.       *)
ChecksOp == {"PROBE", "HELLO", "SELFTEST", "PING", "RATE", "VERIFY_M2S"}
ResyncsNever == {}
Resyncs  == {"HELLO", "PING", "VERIFY_M2S", "VERIFY_S2M"}

AfterFailure(x) == IF x \notin Resyncs THEN {"idle"}
                   ELSE IF x = "HELLO" THEN {"idle", "resync"} ELSE {"resync"}

IsReply(f, x) == f.op = OpOf(x) /\ f.ack
HasReply(x) == x # "none" /\ Chain(x)[Len(Chain(x))] = "recv_ctrl"

Request == [op |-> OpOf(call.x), ack |-> FALSE, cur |-> TRUE,
            arg |-> call.q, sum |-> NoTally, good |-> TRUE]
Reply   == [op |-> req.op, ack |-> TRUE, cur |-> req.cur,
            arg |-> req.arg, sum |-> tally["S"], good |-> TRUE]

Sent(p) == IF at[p].ph = "send_ctrl" THEN Request
           ELSE IF at[p].ph = "put_ctrl" THEN Reply ELSE Block

NoAnswer == [x |-> "none", ok |-> FALSE, fresh |-> FALSE, sum |-> NoTally]
Stale(f) == [f EXCEPT !.cur = FALSE]

Begin(p, ph) ==
  /\ Enter(p, ph, 1)
  /\ ok' = [ok EXCEPT ![p] = TRUE]

(* The master calls exchange x: link_frame_build bumps s->seq, so frames   *)
(* of earlier exchanges are stale from here on.                            *)
Call(x, q) ==
  /\ at["M"].ph = "idle"
  /\ q = 4 \/ x = "RATE"
  /\ call' = [x |-> x, q |-> q, k |-> 1]
  /\ Begin("M", "send_ctrl")
  /\ count' = [count EXCEPT !["M"] = 0]
  /\ tally' = [tally EXCEPT !["M"] = NoTally]
  /\ rx' = [p \in Side |-> [rx[p] EXCEPT !.got = Stale(@)]]
  /\ req' = Stale(req)
  /\ served' = 0
  /\ answer' = NoAnswer
  /\ UNCHANGED <<db, faults, rate, dog, stuck>>

(* The exchange returns to its caller, which may resync first.             *)
Return(good) ==
  LET accepted == good /\ (call.x \in ChecksOp => IsReply(rx["M"].got, call.x))
  IN  /\ answer' = [x |-> call.x, ok |-> accepted,
                    fresh |-> rx["M"].got.cur /\ IsReply(rx["M"].got, call.x),
                    sum |-> IF call.x = "VERIFY_S2M" THEN tally["M"]
                            ELSE rx["M"].got.sum]
      /\ rate' = IF accepted /\ call.x = "RATE"
                 THEN [rate EXCEPT !["M"] = call.q] ELSE rate
      /\ \E ph \in IF accepted THEN {"idle"} ELSE AfterFailure(call.x) : Begin("M", ph)
      /\ UNCHANGED <<count, call>>

(* The function the master is in returns `good`: the next block of its     *)
(* loop, the next function of the chain, or back to the caller.            *)
MoreBlocksOneTooMany(p) == In(p, Verified) /\ count[p] < VerifyBlocks
MoreBlocksOneTooFew(p) == In(p, Verified) /\ count[p] + 2 < VerifyBlocks
MoreBlocks(p) == In(p, Verified) /\ count[p] + 1 < VerifyBlocks

Finish(good) ==
  /\ UNCHANGED tally
  /\ \/ /\ good /\ MoreBlocks("M")
        /\ count' = [count EXCEPT !["M"] = @ + 1]
        /\ Begin("M", at["M"].ph)
        /\ UNCHANGED <<answer, rate, call>>
     \/ /\ good /\ ~MoreBlocks("M") /\ call.k < Len(Chain(call.x))
        /\ call' = [call EXCEPT !.k = @ + 1]
        /\ count' = [count EXCEPT !["M"] = 0]
        /\ Begin("M", Chain(call.x)[call.k + 1])
        /\ UNCHANGED <<answer, rate>>
     \/ /\ ~good \/ (~MoreBlocks("M") /\ call.k = Len(Chain(call.x)))
        /\ Return(good)

(* Seeded fault: the main loop no longer feeds the watchdog.               *)
ServeHungry ==
  /\ Begin("S", "take_ctrl")
  /\ UNCHANGED dog

(* Back to the top of the slave's main loop, which feeds the watchdog and  *)
(* serves again.                                                           *)
Serve ==
  /\ Begin("S", "take_ctrl")
  /\ dog' = WatchdogUs

---------------------------------------------------------------------------
(* The calls both sides make.                                              *)

(* Seeded fault: a receiver that completed is not armed again.             *)
ArmOnce(p) ==
  /\ Step(p) = "arm"
  /\ rx' = IF rx[p].st = "done" THEN rx
           ELSE [rx EXCEPT ![p] = RxArmed("armed", KindOf(at[p].ph))]
  /\ NextCall(p)
  /\ UNCHANGED <<db, faults, ok, count, tally, rate, call, answer, req, served, dog, stuck>>
Arm(p) ==
  /\ Step(p) = "arm"
  /\ \E st \in IF Step(Peer(p)) = "tx" THEN {"armed", "late"} ELSE {"armed"} :
       rx' = [rx EXCEPT ![p] = RxArmed(st, KindOf(at[p].ph))]
  /\ NextCall(p)
  /\ UNCHANGED <<db, faults, ok, count, tally, rate, call, answer, req, served, dog, stuck>>

Up(p) ==
  /\ Step(p) = "up"
  /\ db' = [db EXCEPT ![p] = TRUE]
  /\ NextCall(p)
  /\ UNCHANGED <<rx, faults, ok, count, tally, rate, call, answer, req, served, dog, stuck>>

SeenHigh(p) ==
  /\ Step(p) = "hi" /\ db[Peer(p)]
  /\ NextCall(p)
  /\ UNCHANGED <<db, rx, faults, ok, count, tally, rate, call, answer, req, served, dog, stuck>>

(* link_tx_finish returns once the last word has left.                     *)
Transmit(p) ==
  /\ Step(p) = "tx" /\ left[p] = 0
  /\ \E fate \in Fate :
       /\ rx' = [rx EXCEPT ![Peer(p)] = Landed(@, KindOf(at[p].ph), Sent(p), fate)]
       /\ Spend(fate)
  /\ NextCall(p)
  /\ UNCHANGED <<db, ok, count, tally, rate, call, answer, req, served, dog, stuck>>

(* The tally after the receive of a bulk phase: the verifying functions    *)
(* count blocks and bad blocks, the ring phases only whether they ended.   *)
Verifies(ph) == ph \in {"integrity_recv", "VERIFY_M2S"}
Tallied(t, ph, good) ==
  CASE Verifies(ph) -> [blocks |-> t.blocks + 1,
                        bad |-> t.bad + (IF good THEN 0 ELSE 1)]
    [] ph \in {"BULK_M2S", "DUPLEX"} /\ ~good -> [t EXCEPT !.bad = 1]
    [] OTHER -> t

Received(p) ==
  /\ Step(p) = "rx" /\ rx[p].st = "done"
  /\ tally' = [tally EXCEPT ![p] =
                 Tallied(@, at[p].ph, Verifies(at[p].ph) => rx[p].got.good)]
  /\ NextCall(p)
  /\ UNCHANGED <<db, rx, faults, ok, count, rate, call, answer, req, served, dog, stuck>>

(* Seeded fault: the master's receive starts its wait over.                *)
RxTimeoutWaits(p) ==
  /\ Step(p) = "rx" /\ rx[p].st # "done" /\ left[p] = 0
  /\ Skip(p, IF p = "M" THEN 0 ELSE 1)
  /\ ok' = [ok EXCEPT ![p] = FALSE]
  /\ UNCHANGED <<db, rx, faults, count, tally, rate, call, answer, req, served, dog, stuck>>

(* link_rx_wait gives up: the receiver is aborted.  link_m_integrity_recv  *)
(* counts the block and carries on; link_m_bulk_recv does not wait for     *)
(* "sent" any more.                                                        *)
RxTimeout(p) ==
  /\ Step(p) = "rx" /\ rx[p].st # "done" /\ left[p] = 0
  /\ rx' = [rx EXCEPT ![p] = RxOff]
  /\ tally' = [tally EXCEPT ![p] = Tallied(@, at[p].ph, FALSE)]
  /\ ok' = [ok EXCEPT ![p] = In(p, {"integrity_recv"})]
  /\ Skip(p, IF In(p, {"bulk_recv"}) THEN 2 ELSE 1)
  /\ UNCHANGED <<db, faults, count, rate, call, answer, req, served, dog, stuck>>

---------------------------------------------------------------------------
(* The master's side of a phase.                                           *)

MasterDown ==
  /\ Step("M") = "down"
  /\ db' = [db EXCEPT !["M"] = FALSE]
  /\ NextCall("M")
  /\ UNCHANGED <<rx, faults, ok, count, tally, rate, call, answer, req, served, dog, stuck>>

(* Seeded fault: the early return forgets to drop the doorbell.            *)
UnansweredStillRinging ==
  /\ Step("M") = "hi" /\ ~db["S"] /\ left["M"] = 0 /\ ~In("M", {"bulk_recv"})
  /\ Finish(FALSE)
  /\ UNCHANGED <<db, rx, faults, req, served, dog, stuck>>

(* The slave never raised DB_SM.                                           *)
Unanswered ==
  /\ Step("M") = "hi" /\ ~db["S"] /\ left["M"] = 0
  /\ IF In("M", {"bulk_recv"})
     THEN /\ ok' = [ok EXCEPT !["M"] = FALSE]
          /\ NextCall("M")
          /\ UNCHANGED <<db, rx, count, tally, rate, call, answer>>
     ELSE /\ db' = [db EXCEPT !["M"] = FALSE]
          /\ rx' = IF Script[at["M"].ph][1] = "arm"
                   THEN [rx EXCEPT !["M"] = RxOff] ELSE rx
          /\ Finish(FALSE)
  /\ UNCHANGED <<faults, req, served, dog, stuck>>

(* What the function returns once both doorbells are down again.           *)
Result == ok["M"] /\ (In("M", {"recv_ctrl"}) => rx["M"].got.good)

Settled ==
  /\ Step("M") = "lo" /\ ~In("M", {"resync"}) /\ ~db["S"]
  /\ Finish(Result)
  /\ UNCHANGED <<db, rx, faults, req, served, dog, stuck>>

(* The slave kept DB_SM high for longer than the master cares to wait.     *)
Unsettled ==
  /\ Step("M") = "lo" /\ ~In("M", {"resync"}) /\ db["S"] /\ left["M"] = 0
  /\ Finish(/\ Result
            /\ ~In("M", {"send_ctrl", "integrity_send", "integrity_recv"}))
  /\ UNCHANGED <<db, rx, faults, req, served, dog, stuck>>

ResyncQuiet ==
  /\ Step("M") = "quiet"
  /\ db' = [db EXCEPT !["M"] = FALSE]
  /\ rx' = [rx EXCEPT !["M"] = RxOff]
  /\ NextCall("M")
  /\ UNCHANGED <<faults, ok, count, tally, rate, call, answer, req, served, dog, stuck>>

ResyncWakeAtOnce ==
  /\ Step("M") = "nap"
  /\ NextCall("M")
  /\ UNCHANGED <<db, rx, faults, ok, count, tally, rate, call, answer, req, served, dog, stuck>>
ResyncWake ==
  /\ Step("M") = "nap" /\ left["M"] = 0
  /\ NextCall("M")
  /\ UNCHANGED <<db, rx, faults, ok, count, tally, rate, call, answer, req, served, dog, stuck>>

ResyncDone ==
  /\ Step("M") = "lo" /\ In("M", {"resync"})
  /\ ~db["S"] \/ left["M"] = 0
  /\ Begin("M", "idle")
  /\ UNCHANGED <<db, rx, faults, count, tally, rate, call, answer, req, served, dog, stuck>>

---------------------------------------------------------------------------
(* The slave's side.                                                       *)

(* The master never raised DB_MS.  An idle serve returns 0, a reply or a   *)
(* stream is abandoned, a verify loop breaks out to its reply, and the     *)
(* throughput receive goes ahead regardless.                               *)
Unrung ==
  /\ Step("S") = "hi" /\ ~db["M"] /\ left["S"] = 0
  /\ \/ /\ In("S", {"take_ctrl", "put_ctrl", "BULK_S2M", "DUPLEX"})
        /\ rate' = IF In("S", {"put_ctrl"}) /\ req.op = "RATE"
                   THEN [rate EXCEPT !["S"] = req.arg] ELSE rate
        /\ Serve
     \/ /\ In("S", {"VERIFY_M2S", "VERIFY_S2M"})
        /\ Begin("S", "put_ctrl")
        /\ UNCHANGED <<rate, dog>>
     \/ /\ In("S", {"BULK_M2S"})
        /\ NextCall("S")
        /\ UNCHANGED <<ok, rate, dog>>
  /\ UNCHANGED <<db, rx, faults, count, tally, call, answer, req, served, stuck>>

SlaveLow ==
  /\ Step("S") = "lo"
  /\ ~db["M"] \/ left["S"] = 0
  /\ NextCall("S")
  /\ UNCHANGED <<db, rx, faults, ok, count, tally, rate, call, answer, req, served, dog, stuck>>

(* link_s_serve after slave_take_ctrl: a frame that fails its check is     *)
(* dropped, a good one becomes the request being served.                   *)
Dispatch ==
  LET f == rx["S"].got IN
  IF ok["S"] /\ f.good
  THEN /\ req' = f
       /\ served' = served + (IF f.cur THEN 1 ELSE 0)
       /\ tally' = [tally EXCEPT !["S"] = NoTally]
       /\ count' = [count EXCEPT !["S"] = 0]
       /\ Begin("S", IF f.op \in DataPhase THEN f.op ELSE "put_ctrl")
       /\ UNCHANGED <<rate, dog>>
  ELSE /\ Serve
       /\ UNCHANGED <<req, served, tally, count, rate>>

(* The slave drops DB_SM, which ends the function it is in.                *)
SlaveDown ==
  /\ Step("S") = "down"
  /\ db' = [db EXCEPT !["S"] = FALSE]
  /\ \/ /\ In("S", {"take_ctrl"})
        /\ Dispatch
     \/ /\ In("S", {"put_ctrl", "BULK_S2M"})
        /\ rate' = IF In("S", {"put_ctrl"}) /\ req.op = "RATE"
                   THEN [rate EXCEPT !["S"] = req.arg] ELSE rate
        /\ Serve
        /\ UNCHANGED <<req, served, tally, count>>
     \/ /\ In("S", DataPhase \ {"BULK_S2M"})
        /\ IF MoreBlocks("S")
           THEN /\ count' = [count EXCEPT !["S"] = @ + 1]
                /\ Begin("S", at["S"].ph)
           ELSE /\ Begin("S", "put_ctrl")
                /\ UNCHANGED count
        /\ UNCHANGED <<req, served, tally, rate, dog>>
  /\ UNCHANGED <<rx, faults, call, answer, stuck>>

Booted ==
  /\ Step("S") = "nap" /\ left["S"] = 0
  /\ Serve
  /\ UNCHANGED <<db, rx, faults, count, tally, rate, call, answer, req, served, stuck>>

(* The slave's chip resets: its pins go to inputs, its receiver is gone    *)
(* and a transfer it was making breaks off.                                *)
Reset ==
  /\ db' = [db EXCEPT !["S"] = FALSE]
  /\ rx' = [rx EXCEPT !["S"] = RxOff,
                      !["M"] = IF Step("S") = "tx" /\ Listening(@)
                               THEN [@ EXCEPT !.st = "partial"] ELSE @]
  /\ Begin("S", "boot")
  /\ rate' = [rate EXCEPT !["S"] = 4]
  /\ count' = [count EXCEPT !["S"] = 0]
  /\ tally' = [tally EXCEPT !["S"] = NoTally]
  /\ req' = Noise
  /\ dog' = WatchdogUs
  /\ stuck' = FALSE
  /\ UNCHANGED <<call, answer, served>>

PowerGlitch ==
  /\ faults > 0 /\ ~In("S", {"boot"})
  /\ faults' = faults - 1
  /\ Reset

(* The slave's foreground hangs between two calls.  A transfer it started  *)
(* is the DMA's and finishes by itself, so that is no place of its own.    *)
Hang ==
  /\ MayHang /\ faults > 0 /\ ~stuck /\ ~In("S", {"boot"}) /\ Step("S") # "tx"
  /\ faults' = faults - 1
  /\ stuck' = TRUE
  /\ UNCHANGED <<db, rx, left, at, ok, count, tally, rate, call, answer, req, served, dog>>

(* Seeded fault: the watchdog runs but does not reset the chip.            *)
WatchdogBiteToothless ==
  /\ dog = 0
  /\ dog' = WatchdogUs
  /\ UNCHANGED <<wireVars, at, ok, count, tally, rate, call, answer, req, served, stuck>>
WatchdogBite ==
  /\ dog = 0
  /\ Reset
  /\ UNCHANGED faults

---------------------------------------------------------------------------
(* Time.  Code between two waits takes no time; the clock moves to the     *)
(* next deadline once neither side can go on without it.                   *)

Awake(p) == p = "M" \/ ~stuck
Timed(p) == Awake(p) /\ Step(p) \in {"hi", "lo", "rx", "tx", "nap"}

Ready(p) ==
  /\ Awake(p)
  /\ \/ Step(p) \in {"arm", "up", "down", "quiet"}
     \/ Timed(p) /\ left[p] = 0
     \/ Step(p) = "hi" /\ db[Peer(p)]
     \/ Step(p) = "lo" /\ ~db[Peer(p)]
     \/ Step(p) = "rx" /\ rx[p].st = "done"

Soonest ==
  LET slave == IF stuck THEN dog
               ELSE IF In("S", {"boot"}) THEN left["S"] ELSE Lesser(left["S"], dog)
  IN  IF Timed("M") THEN Lesser(left["M"], slave) ELSE slave

Advance ==
  /\ \A p \in Side : ~Ready(p)
  /\ dog > 0
  /\ left' = [p \in Side |-> IF Timed(p) THEN left[p] - Soonest ELSE left[p]]
  /\ dog' = IF In("S", {"boot"}) THEN dog ELSE dog - Soonest
  /\ UNCHANGED <<db, rx, faults, at, ok, count, tally, rate, call, answer, req, served, stuck>>

---------------------------------------------------------------------------
Init ==
  /\ WireInit
  /\ at = [p \in Side |-> IF p = "M" THEN [ph |-> "idle", i |-> 1]
                          ELSE [ph |-> "boot", i |-> 1]]
  /\ left = [p \in Side |-> IF p = "M" THEN 0 ELSE BootUs]
  /\ ok = [p \in Side |-> TRUE]
  /\ count = [p \in Side |-> 0]
  /\ tally = [p \in Side |-> NoTally]
  /\ rate = [p \in Side |-> 4]
  /\ call = [x |-> "PROBE", q |-> 4, k |-> 1]
  /\ answer = NoAnswer
  /\ req = Noise
  /\ served = 0
  /\ dog = WatchdogUs
  /\ stuck = FALSE

Both(p) == Arm(p) \/ Up(p) \/ SeenHigh(p) \/ Transmit(p) \/ Received(p) \/ RxTimeout(p)
Master == MasterDown \/ Unanswered \/ Settled \/ Unsettled
            \/ ResyncQuiet \/ ResyncWake \/ ResyncDone
Slave == Unrung \/ SlaveLow \/ SlaveDown \/ Booted

Run ==
  \/ Master
  \/ ~stuck /\ Slave
  \/ \E p \in Side : Awake(p) /\ Both(p)
  \/ WatchdogBite
  \/ Advance

Next ==
  \/ \E x \in Exchange, q \in Divider : Call(x, q)
  \/ Run
  \/ PowerGlitch
  \/ Hang

Spec == Init /\ [][Next]_vars

(* The chips keep running and time keeps passing.                          *)
FairSpec == Spec /\ WF_vars(Run)

---------------------------------------------------------------------------
(* Properties.                                                             *)

TypeOK ==
  /\ WireTypeOK
  /\ at \in [Side -> [ph : MasterPhase \cup SlavePhase, i : 1..7]]
  /\ \A p \in Side : In(p, Phase(p)) /\ at[p].i \in DOMAIN Script[at[p].ph]
  /\ ok \in [Side -> BOOLEAN]
  /\ count \in [Side -> 0..(VerifyBlocks - 1)]
  /\ tally \in [Side -> Tally]
  /\ rate \in [Side -> Divider]
  /\ call \in [x : Op \cup {"PROBE"}, q : Divider, k : 1..3]
  /\ answer \in [x : Op \cup {"PROBE", "none"}, ok : BOOLEAN, fresh : BOOLEAN, sum : Tally]
  /\ req \in Frame
  /\ served \in Nat
  /\ dog \in 0..WatchdogUs
  /\ stuck \in BOOLEAN

Idle == In("M", {"idle"})
Returned == Idle /\ answer # NoAnswer

(* Has function ph raised its doorbell before its call i, and not dropped  *)
(* it again?                                                               *)
Raised(ph, i) ==
  \E j \in 1..(i - 1) :
    Script[ph][j] = "up" /\ \A k \in j..(i - 1) : Script[ph][k] # "down"

(* Whatever runs out, no early return of either side leaves its doorbell   *)
(* up: it is high exactly from the function's link_db_set(true) to its     *)
(* link_db_set(false), so every function starts with its own line low and  *)
(* the peer never takes a forgotten level for a go-ahead.                  *)
DoorbellsComeDown == \A p \in Side : db[p] <=> Raised(at[p].ph, at[p].i)

(* link_m_recv_ctrl checks neither the sequence number nor the opcode of a *)
(* reply, yet an exchange that reports success did so on the reply to its  *)
(* own request, whatever replies to abandoned requests were still owed.    *)
ReplyIsFresh == answer.ok /\ HasReply(answer.x) => answer.fresh

(* A verified transfer that reports success compared every block, even     *)
(* though link_s_serve breaks out of its block loop on a lost doorbell and *)
(* still replies, and diag_link_run never looks at the block count.        *)
VerifyCoversAllBlocks ==
  answer.ok /\ answer.x \in {"VERIFY_M2S", "VERIFY_S2M"}
    => answer.sum.blocks = VerifyBlocks

(* A success is what it says: both of the above.                           *)
SuccessIsEarned == ReplyIsFresh /\ VerifyCoversAllBlocks

(* An exchange is where its chain of calls says it is.                     *)
ChainInv ==
  /\ call.k \in 1..Len(Chain(call.x))
  /\ ~In("M", {"idle", "resync"}) => at["M"].ph = Chain(call.x)[call.k]

(* The verifying functions tally exactly one block per turn of their loop, *)
(* and a tally of the master is not touched outside of them.               *)
BlocksDone(p) == count[p] + (IF at[p].i > 4 THEN 1 ELSE 0)
TallyInv ==
  /\ \A p \in Side : Verifies(at[p].ph) =>
       tally[p].blocks = BlocksDone(p) /\ tally[p].bad <= tally[p].blocks
  /\ ~In("M", {"idle", "resync"}) /\ call.k = 1 => tally["M"] = NoTally
  /\ In("M", {"recv_ctrl"}) /\ call.x = "VERIFY_S2M"
       => tally["M"].blocks = VerifyBlocks

(* What the proofs of LinkSessionProofs carry from step to step.           *)
IInv == TypeOK /\ DoorbellsComeDown /\ ChainInv /\ TallyInv

(* The slave feeds its watchdog only between requests; no chain of waits   *)
(* inside one request, however the master fails it, adds up to a bite.     *)
WatchdogStaysQuiet == dog = 0 => stuck

NoFaultYet == faults = MaxFaults

(* With both chips up and clean wires no wait of the whole conversation    *)
(* runs out: every exchange succeeds.                                      *)
CleanExchangeSucceeds == NoFaultYet /\ Returned => answer.ok

(* With clean wires nothing is ever sent to a receiver that is not armed,  *)
(* from the first word on, for exactly that kind of transfer.              *)
TransfersAreHeard ==
  NoFaultYet => \A p \in Side : Step(p) = "tx" =>
    rx[Peer(p)].st = "armed" /\ rx[Peer(p)].want = KindOf(at[p].ph)

(* "Every phase starts with both low": with clean wires, whenever the      *)
(* master is about to ring, neither doorbell is up.                        *)
PhasesStartLow == NoFaultYet /\ Step("M") = "up" => ~db["M"] /\ ~db["S"]

(* set_rate: both sides change over on the same message boundary, so an    *)
(* idle master and a slave waiting for work use the same divider.          *)
RatesAgree == Idle /\ In("S", {"take_ctrl"}) => rate["M"] = rate["S"]

(* As far as the code keeps that promise: until something is lost.         *)
CleanRatesAgree == NoFaultYet => RatesAgree

(* On clean wires the handshakes leave nothing to chance: all four of the   *)
(* above, whatever is called and in whatever order.                        *)
CleanWiresWork ==
  CleanExchangeSucceeds /\ TransfersAreHeard /\ PhasesStartLow /\ CleanRatesAgree

(* When link_m_resync returns, the slave waits for a fresh request with    *)
(* its doorbell down: nothing of an earlier exchange is in flight.         *)
ResyncConverges ==
  In("M", {"resync"}) /\ Step("M") = "lo"
    => In("S", {"take_ctrl", "boot"}) /\ ~db["S"]

(* As far as the code keeps that promise: whatever failed, if it was not   *)
(* the M->S verify with its wait per block.                                *)
MostResyncsConverge == call.x # "VERIFY_M2S" => ResyncConverges

(* Whatever the wires do, a call returns: no wait of the master is         *)
(* unbounded and no chain of failures keeps it from its caller.            *)
EveryCallReturns == ~Idle ~> Idle

(* Faults are bounded; if callers keep calling, from some point on every   *)
(* exchange succeeds again without a reset: no abandoned handshake leaves  *)
(* the two sides out of step for good.                                     *)
Recovers == <>[](Returned => answer.ok)
CallingSpec == FairSpec /\ WF_vars(\E x \in Exchange, q \in Divider : Call(x, q))

(* The conversation implements the promise of LinkExchange.                *)
Promise == INSTANCE LinkExchange WITH
  open   <- answer = NoAnswer /\ ~Idle,
  served <- served,
  result <- IF answer = NoAnswer THEN "none" ELSE IF answer.ok THEN "ok" ELSE "failed"
ExchangePromise == Promise!Spec
=============================================================================
